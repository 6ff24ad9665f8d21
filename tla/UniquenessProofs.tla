-------------------------- MODULE UniquenessProofs --------------------------
(***************************************************************************)
(* Proofs about UniquenessLifecycle, for any number of webhook requests at *)
(* one time.                                                               *)
(***************************************************************************)
EXTENDS UniquenessLifecycle, SequenceTheorems, TLAPS

Stages == {"active", "qualified", "held", "closed", "thinking", "deal"}
Snapshots == [stage : Stages, contacts : SUBSET Brokers]
Places == {"idle", "findClients", "clients", "meeting", "verdict",
           "lifting", "excepting", "rejecting"}

\* The types of the variables.
AmoType ==
  /\ stage \in [Leads -> Stages]
  /\ attached \in [Leads -> SUBSET Brokers]
  /\ reached \in [Leads -> SUBSET Stages]
  /\ events \in [Leads -> Nat]

RowType == row \in [Clients -> Row]

MeetingType == meeting \in [Clients -> Seq({"held", "cancelled"})]

LocalType ==
  /\ pc \in [Workers -> Places]
  /\ on \in [Workers -> Leads]
  /\ lead \in [Workers -> Snapshots]
  /\ rows \in [Workers -> [Clients -> Row]]
  /\ todo \in [Workers -> SUBSET Clients]
  /\ client \in [Workers -> Clients \cup {NoClient}]
  /\ found \in [Workers -> Nat]

HandType ==
  /\ extending \subseteq Clients /\ overruled \subseteq Clients
  /\ disturbed \subseteq Clients /\ unsaved \subseteq Clients

\* A request is at a client in the middle of the loop only, and the meeting
\* it found is one of that client's.
AtClient(w) ==
  IF pc[w] \in {"meeting", "verdict"}
  THEN client[w] \in Clients /\ found[w] \in 0 .. Len(meeting[client[w]])
  ELSE client[w] = NoClient /\ found[w] = 0

ClientInv == \A w \in Workers : AtClient(w)

Typed == AmoType /\ RowType /\ MeetingType /\ LocalType /\ HandType /\ ClientInv

-----------------------------------------------------------------------------
(* What the steps do.                                                      *)

\* A step of w leaves the locals of the other requests alone.
Others(w) ==
  \A v \in Workers \ {w} :
     /\ pc'[v] = pc[v] /\ on'[v] = on[v] /\ lead'[v] = lead[v] /\ rows'[v] = rows[v]
     /\ todo'[v] = todo[v] /\ client'[v] = client[v] /\ found'[v] = found[v]

LEMMA DataFacts ==
  /\ Granted \in Row /\ Rejected \in Row /\ Excepted \in Row
  /\ Uniqueness("REJECTED", "deal", "none") \in Row
  /\ Granted.status = "CU" /\ Granted.mark = "plain"
  /\ Rejected.status = "REJECTED" /\ Excepted.status = "UR" /\ Excepted.mark = "exception"
  /\ \A s \in Statuses, m \in Marks, e \in Expiries : Uniqueness(s, m, e) \in Row
BY DEF Granted, Rejected, Excepted, Uniqueness, Row, Statuses, Marks, Expiries

LEMMA LeadFacts ==
  /\ AnyLead \in Leads /\ NoClient \notin Clients
  /\ \A l \in Leads : StagesOf(l) \subseteq Stages
  /\ \A c \in Clients : Lead[c] \in Leads /\ Effective[c] \in Brokers
BY ConstantsAssumption DEF AnyLead, StagesOf, Stages

\* A request that is through, or given up, forgets what it read.
LEMMA FinishEffect ==
  ASSUME Typed, NEW w \in Workers, Finish(w)
  PROVE  /\ LocalType' /\ Others(w)
         /\ pc'[w] = "idle" /\ todo'[w] = {} /\ client'[w] = NoClient /\ found'[w] = 0
<1>1. Snapshot("active", {}) \in Snapshots
  BY DEF Snapshot, Snapshots, Stages
<1>2. [c \in Clients |-> Granted] \in [Clients -> Row]
  BY DataFacts
<1>3. AnyLead \in Leads
  BY LeadFacts
<1> QED
  BY <1>1, <1>2, <1>3 DEF Finish, Goto, Typed, LocalType, Others, Places

LEMMA ChangesTyped ==
  ASSUME Typed, NEW l \in Leads, LeadChanges(l)
  PROVE  /\ Typed'
         /\ \A k \in Leads \ {l} : /\ stage'[k] = stage[k] /\ attached'[k] = attached[k]
                                   /\ events'[k] = events[k]
         /\ events'[l] > 0 /\ \A k \in Leads : reached[k] \subseteq reached'[k]
         /\ \A k \in Leads : stage[k] \in reached[k] => stage'[k] \in reached'[k]
<1>1. /\ events' = [events EXCEPT ![l] = @ + 1]
      /\ \/ \E s \in StagesOf(l) : Move(l, s)
         \/ \E b \in Brokers : AttachOrDetach(l, b)
      /\ UNCHANGED <<row, meeting, pc, on, lead, rows, todo, client, found,
                     extending, overruled, disturbed, unsaved>>
  <2>1. Nearby[l] \subseteq Brokers
    BY ConstantsAssumption
  <2> QED
    BY <2>1 DEF LeadChanges, locals
<1>2. /\ events' \in [Leads -> Nat] /\ events'[l] > 0
      /\ \A k \in Leads \ {l} : events'[k] = events[k]
  BY <1>1 DEF Typed, AmoType
<1>3. /\ stage' \in [Leads -> Stages] /\ attached' \in [Leads -> SUBSET Brokers]
      /\ reached' \in [Leads -> SUBSET Stages]
      /\ \A k \in Leads \ {l} : stage'[k] = stage[k] /\ attached'[k] = attached[k]
      /\ \A k \in Leads : reached[k] \subseteq reached'[k]
      /\ \A k \in Leads : stage[k] \in reached[k] => stage'[k] \in reached'[k]
  <2>1. CASE \E s \in StagesOf(l) : Move(l, s)
    <3>1. PICK s \in Stages : Move(l, s)
      BY <2>1, LeadFacts
    <3> QED
      BY <3>1 DEF Move, Typed, AmoType
  <2>2. CASE \E b \in Brokers : AttachOrDetach(l, b)
    BY <2>2 DEF AttachOrDetach, Typed, AmoType
  <2> QED
    BY <1>1, <2>1, <2>2
<1>4. AmoType'
  BY <1>2, <1>3 DEF AmoType
<1>5. (RowType /\ MeetingType /\ LocalType /\ HandType /\ ClientInv)'
  BY <1>1 DEF Typed, RowType, MeetingType, LocalType, HandType, ClientInv, AtClient
<1> QED
  BY <1>2, <1>3, <1>4, <1>5 DEF Typed

LEMMA ReceiveTyped ==
  ASSUME Typed, NEW w \in Workers, NEW l \in Leads, Receive(w, l)
  PROVE  /\ Typed' /\ Others(w)
         /\ pc[w] = "idle" /\ pc'[w] = "findClients" /\ on'[w] = l
         /\ lead'[w] = Snapshot(stage[l], attached[l])
         /\ \A k \in Leads \ {l} : events'[k] = events[k]
         /\ overruled' = overruled \ LinkedTo(l)
         /\ disturbed' = (disturbed \ LinkedTo(l)) \cup Contested(LinkedTo(l))
         /\ UNCHANGED <<stage, attached, reached, row, meeting, extending, unsaved>>
<1>1. Snapshot(stage[l], attached[l]) \in Snapshots
  BY DEF Snapshot, Snapshots, Typed, AmoType
<1>2. /\ pc[w] = "idle" /\ events[l] > 0
      /\ events' = [events EXCEPT ![l] = @ - 1] /\ on' = [on EXCEPT ![w] = l]
      /\ lead' = [lead EXCEPT ![w] = Snapshot(stage[l], attached[l])]
      /\ pc' = [pc EXCEPT ![w] = "findClients"]
      /\ overruled' = overruled \ LinkedTo(l)
      /\ disturbed' = (disturbed \ LinkedTo(l)) \cup Contested(LinkedTo(l))
      /\ UNCHANGED <<stage, attached, reached, row, meeting, rows, todo, client, found,
                     extending, unsaved>>
  BY DEF Receive, Goto
<1>3. AmoType' /\ \A k \in Leads \ {l} : events'[k] = events[k]
  BY <1>2 DEF Typed, AmoType
<1>4. LocalType' /\ Others(w) /\ pc'[w] = "findClients" /\ on'[w] = l
      /\ lead'[w] = Snapshot(stage[l], attached[l])
  BY <1>1, <1>2 DEF Typed, LocalType, Others, Places
<1>5. ClientInv'
  BY <1>2, <1>4 DEF Typed, ClientInv, AtClient, Others
<1>6. Contested(LinkedTo(l)) \subseteq Clients
  BY DEF Contested, LinkedTo
<1>7. (RowType /\ MeetingType /\ HandType)'
  BY <1>2, <1>6 DEF Typed, RowType, MeetingType, HandType
<1> QED
  BY <1>2, <1>3, <1>4, <1>5, <1>7 DEF Typed

\* A step of w that leaves amoCRM, the meetings and the hands alone.
LEMMA FindClientsTyped ==
  ASSUME Typed, NEW w \in Workers, FindClients(w)
  PROVE  /\ Typed' /\ Others(w)
         /\ pc[w] = "findClients" /\ pc'[w] = "clients" /\ on'[w] = on[w] /\ lead'[w] = lead[w]
         /\ rows'[w] = row /\ todo'[w] = LinkedTo(on[w]) \ Sold
         /\ UNCHANGED <<amo, row, meeting, hand, disturbed, unsaved>>
<1>1. /\ pc[w] = "findClients" /\ pc' = [pc EXCEPT ![w] = "clients"]
      /\ rows' = [rows EXCEPT ![w] = row] /\ todo' = [todo EXCEPT ![w] = LinkedTo(on[w]) \ Sold]
      /\ UNCHANGED <<amo, row, meeting, on, lead, client, found, hand, disturbed, unsaved>>
  BY DEF FindClients, Goto
<1>2. LinkedTo(on[w]) \ Sold \in SUBSET Clients
  BY DEF LinkedTo
<1>3. /\ LocalType' /\ Others(w) /\ pc'[w] = "clients" /\ rows'[w] = row
      /\ todo'[w] = LinkedTo(on[w]) \ Sold /\ on'[w] = on[w] /\ lead'[w] = lead[w]
  BY <1>1, <1>2 DEF Typed, LocalType, RowType, Others, Places
<1>4. ClientInv'
  BY <1>1, <1>3 DEF Typed, ClientInv, AtClient, Others
<1>5. (AmoType /\ RowType /\ MeetingType /\ HandType)'
  BY <1>1 DEF Typed, AmoType, RowType, MeetingType, HandType, amo, hand
<1> QED
  BY <1>1, <1>3, <1>4, <1>5 DEF Typed

\* Cancelling and completing meetings: none is removed.
LEMMA CancelEffect ==
  ASSUME NEW m \in Seq({"held", "cancelled"})
  PROVE  /\ Cancelled(m) \in Seq({"held", "cancelled"}) /\ Len(Cancelled(m)) = Len(m)
         /\ \A i \in DOMAIN Cancelled(m) : Cancelled(m)[i] = "cancelled"
<1>1. Len(m) \in Nat /\ DOMAIN m = 1 .. Len(m)
  BY LenProperties
<1> QED
  BY <1>1, IsASeq, LenProperties DEF Cancelled

\* After upsertKcMeeting there is a meeting that was held.
LEMMA HeldEffect ==
  ASSUME NEW w \in Workers, NEW m \in Seq({"held", "cancelled"}), found[w] \in 0 .. Len(m)
  PROVE  /\ Held(w, m) \in Seq({"held", "cancelled"})
         /\ Len(m) <= Len(Held(w, m))
         /\ \E i \in DOMAIN Held(w, m) : Held(w, m)[i] = "held"
<1>1. Len(m) \in Nat /\ "held" \in {"held", "cancelled"}
  BY LenProperties
<1>2. CASE found[w] = 0
  <2>1. /\ Append(m, "held") \in Seq({"held", "cancelled"})
        /\ Len(Append(m, "held")) = Len(m) + 1
        /\ Append(m, "held")[Len(m) + 1] = "held"
    BY AppendProperties
  <2>2. DOMAIN Append(m, "held") = 1 .. (Len(m) + 1)
    BY <2>1, LenProperties
  <2>3. Held(w, m) = Append(m, "held") /\ Len(m) + 1 \in 1 .. (Len(m) + 1)
    BY <1>1, <1>2 DEF Held
  <2> QED
    BY <1>1, <2>1, <2>2, <2>3
<1>3. CASE found[w] # 0
  <2> DEFINE i == found[w]
             n == [m EXCEPT ![i] = "held"]
  <2>1. i \in 1 .. Len(m) /\ Held(w, m) = n
    BY <1>1, <1>3 DEF Held
  <2>2. /\ n \in Seq({"held", "cancelled"}) /\ Len(n) = Len(m)
        /\ n[i] = "held"
    BY <1>1, <2>1, ExceptSeq
  <2>3. DOMAIN n = 1 .. Len(m)
    BY <2>2, LenProperties
  <2> HIDE DEF i, n
  <2> QED
    BY <1>1, <2>1, <2>2, <2>3
<1> QED
  BY <1>2, <1>3

LEMMA TakeClientTyped ==
  ASSUME Typed, NEW w \in Workers, NEW c \in Clients, TakeClient(w, c)
  PROVE  /\ Typed' /\ Others(w)
         /\ pc[w] = "clients" /\ c \in todo[w]
         /\ pc'[w] = IF KCStage(w, "held") \/ KCStage(w, "closed") THEN "meeting" ELSE "verdict"
         /\ on'[w] = on[w] /\ lead'[w] = lead[w] /\ rows'[w] = rows[w]
         /\ todo'[w] = todo[w] \ {c} /\ client'[w] = c
         /\ UNCHANGED <<amo, row, meeting, hand, disturbed, unsaved>>
<1> DEFINE p == IF KCStage(w, "held") \/ KCStage(w, "closed") THEN "meeting" ELSE "verdict"
<1>1. Len(meeting[c]) \in Nat /\ DOMAIN meeting[c] = 1 .. Len(meeting[c])
  BY LenProperties DEF Typed, MeetingType
<1>2. PICK f \in 0 .. Len(meeting[c]) : found' = [found EXCEPT ![w] = f]
  <2>1. PICK i \in IF KCStage(w, "held") /\ meeting[c] # <<>> THEN DOMAIN meeting[c] ELSE {0} :
           found' = [found EXCEPT ![w] = i]
    BY DEF TakeClient
  <2>2. i \in 0 .. Len(meeting[c])
    BY <1>1, <2>1
  <2> QED
    BY <2>1, <2>2
<1>3. /\ pc[w] = "clients" /\ c \in todo[w] /\ pc' = [pc EXCEPT ![w] = p]
      /\ todo' = [todo EXCEPT ![w] = @ \ {c}] /\ client' = [client EXCEPT ![w] = c]
      /\ UNCHANGED <<amo, row, meeting, on, lead, rows, hand, disturbed, unsaved>>
  BY DEF TakeClient, Goto
<1>4. f \in Nat /\ p \in {"meeting", "verdict"}
  BY <1>1
<1> HIDE DEF p
<1>5. /\ LocalType' /\ Others(w) /\ pc'[w] = p /\ found'[w] = f
      /\ todo'[w] = todo[w] \ {c} /\ client'[w] = c
      /\ on'[w] = on[w] /\ lead'[w] = lead[w] /\ rows'[w] = rows[w]
  BY <1>2, <1>3, <1>4 DEF Typed, LocalType, Others, Places
<1>6. ClientInv'
  BY <1>3, <1>4, <1>5 DEF Typed, ClientInv, AtClient, Others
<1>7. (AmoType /\ RowType /\ MeetingType /\ HandType)'
  BY <1>3 DEF Typed, AmoType, RowType, MeetingType, HandType, amo, hand
<1> QED
  BY <1>3, <1>5, <1>6, <1>7 DEF Typed, p

LEMMA SaveMeetingTyped ==
  ASSUME Typed, NEW w \in Workers, SaveMeeting(w)
  PROVE  /\ Typed' /\ Others(w)
         /\ pc[w] = "meeting" /\ pc'[w] = "verdict" /\ client[w] \in Clients
         /\ on'[w] = on[w] /\ lead'[w] = lead[w] /\ rows'[w] = rows[w]
         /\ todo'[w] = todo[w] /\ client'[w] = client[w]
         /\ unsaved' = unsaved \ {client[w]} /\ UNCHANGED <<amo, row, hand, disturbed>>
         /\ \A d \in Clients \ {client[w]} : meeting'[d] = meeting[d]
         /\ IF KCStage(w, "closed")
            THEN \A i \in DOMAIN meeting'[client[w]] : meeting'[client[w]][i] = "cancelled"
            ELSE \E i \in DOMAIN meeting'[client[w]] : meeting'[client[w]][i] = "held"
<1> DEFINE c == client[w]
           n == IF KCStage(w, "closed") THEN Cancelled(meeting[c]) ELSE Held(w, meeting[c])
<1>1. /\ pc[w] = "meeting" /\ c \in Clients /\ found[w] \in 0 .. Len(meeting[c])
      /\ meeting[c] \in Seq({"held", "cancelled"}) /\ Len(meeting[c]) \in Nat
      /\ pc' = [pc EXCEPT ![w] = "verdict"] /\ unsaved' = unsaved \ {c}
      /\ UNCHANGED <<amo, row, on, lead, rows, todo, client, found, hand, disturbed>>
  BY LenProperties DEF SaveMeeting, Goto, Typed, ClientInv, AtClient, MeetingType
<1>2. /\ n \in Seq({"held", "cancelled"}) /\ Len(meeting[c]) <= Len(n)
      /\ IF KCStage(w, "closed") THEN \A i \in DOMAIN n : n[i] = "cancelled"
                                 ELSE \E i \in DOMAIN n : n[i] = "held"
  BY <1>1, CancelEffect, HeldEffect
<1>3. meeting' = [meeting EXCEPT ![c] = n]
  BY DEF SaveMeeting
<1> HIDE DEF n
<1>4. /\ MeetingType' /\ meeting'[c] = n
      /\ \A d \in Clients \ {c} : meeting'[d] = meeting[d]
  BY <1>1, <1>2, <1>3 DEF Typed, MeetingType
<1>5. \A d \in Clients : Len(meeting[d]) \in Nat /\ Len(meeting'[d]) \in Nat
  BY <1>4, LenProperties DEF Typed, MeetingType
<1>6. \A d \in Clients : Len(meeting[d]) <= Len(meeting'[d])
  BY <1>2, <1>4, <1>5
<1>7. LocalType' /\ Others(w) /\ pc'[w] = "verdict"
  BY <1>1 DEF Typed, LocalType, Others, Places
<1>8. ClientInv'
  BY <1>1, <1>5, <1>6, <1>7 DEF Typed, ClientInv, AtClient, Others
<1>9. (AmoType /\ RowType /\ HandType)'
  BY <1>1 DEF Typed, AmoType, RowType, HandType, amo, hand
<1> QED
  BY <1>1, <1>2, <1>4, <1>7, <1>8, <1>9 DEF Typed

LEMMA LoseMeetingTyped ==
  ASSUME Typed, NEW w \in Workers, LoseMeeting(w)
  PROVE  /\ Typed' /\ Others(w)
         /\ pc[w] = "meeting" /\ pc'[w] = "verdict" /\ client[w] \in Clients
         /\ on'[w] = on[w] /\ lead'[w] = lead[w] /\ rows'[w] = rows[w]
         /\ todo'[w] = todo[w] /\ client'[w] = client[w]
         /\ unsaved' = unsaved \cup {client[w]}
         /\ UNCHANGED <<amo, row, meeting, extending, overruled, disturbed>>
<1>1. /\ pc[w] = "meeting" /\ client[w] \in Clients /\ pc' = [pc EXCEPT ![w] = "verdict"]
      /\ unsaved' = unsaved \cup {client[w]}
      /\ UNCHANGED <<amo, row, meeting, on, lead, rows, todo, client, found, extending,
                     overruled, disturbed>>
  BY DEF LoseMeeting, Goto, Typed, ClientInv, AtClient
<1>2. LocalType' /\ Others(w) /\ pc'[w] = "verdict"
  BY <1>1 DEF Typed, LocalType, Others, Places
<1>3. ClientInv'
  BY <1>1, <1>2 DEF Typed, ClientInv, AtClient, Others
<1>4. (AmoType /\ RowType /\ MeetingType /\ HandType)'
  BY <1>1 DEF Typed, AmoType, RowType, MeetingType, HandType, amo
<1> QED
  BY <1>1, <1>2, <1>3, <1>4 DEF Typed

LEMMA JudgeTyped ==
  ASSUME Typed, NEW w \in Workers, Judge(w)
  PROVE  /\ Typed' /\ Others(w)
         /\ pc[w] = "verdict" /\ pc'[w] = "clients" /\ client[w] \in Clients
         /\ on'[w] = on[w] /\ lead'[w] = lead[w] /\ rows'[w] = rows[w] /\ todo'[w] = todo[w]
         /\ UNCHANGED <<amo, meeting, hand, disturbed, unsaved>>
         /\ row'[client[w]] = IF Refused(w, client[w]) THEN Rejected
                              ELSE IF Approved(w, client[w]) THEN Granted
                              ELSE row[client[w]]
         /\ \A d \in Clients \ {client[w]} : row'[d] = row[d]
<1> DEFINE c == client[w]
           r == IF Refused(w, c) THEN Rejected ELSE IF Approved(w, c) THEN Granted ELSE row[c]
<1>1. /\ pc[w] = "verdict" /\ c \in Clients
      /\ row' = [row EXCEPT ![c] = r]
      /\ pc' = [pc EXCEPT ![w] = "clients"] /\ client' = [client EXCEPT ![w] = NoClient]
      /\ found' = [found EXCEPT ![w] = 0]
      /\ UNCHANGED <<amo, meeting, on, lead, rows, todo, hand, disturbed, unsaved>>
  BY DEF Judge, Goto, Typed, ClientInv, AtClient
<1>2. r \in Row
  BY <1>1, DataFacts DEF Typed, RowType
<1> HIDE DEF r
<1>3. RowType' /\ row'[c] = r /\ \A d \in Clients \ {c} : row'[d] = row[d]
  BY <1>1, <1>2 DEF Typed, RowType
<1>4. LocalType' /\ Others(w) /\ pc'[w] = "clients" /\ client'[w] = NoClient /\ found'[w] = 0
  BY <1>1 DEF Typed, LocalType, Others, Places
<1>5. ClientInv'
  BY <1>1, <1>4 DEF Typed, ClientInv, AtClient, Others
<1>6. (AmoType /\ MeetingType /\ HandType)'
  BY <1>1 DEF Typed, AmoType, MeetingType, HandType, amo, hand
<1> QED
  BY <1>1, <1>3, <1>4, <1>5, <1>6 DEF Typed, r

LEMMA FindOthersTyped ==
  ASSUME Typed, NEW w \in Workers, FindOthers(w)
  PROVE  /\ Typed' /\ Others(w)
         /\ pc[w] = "clients" /\ todo[w] = {} /\ on'[w] = on[w] /\ lead'[w] = lead[w]
         /\ client'[w] = client[w]
         /\ disturbed' = disturbed \cup Contested(todo'[w])
         /\ UNCHANGED <<amo, row, meeting, hand, unsaved>>
         /\ \/ /\ pc'[w] = "lifting" /\ lead[w].stage = "closed"
               /\ todo'[w] = {c \in Clients : Waits(row[c])}
            \/ /\ pc'[w] = "excepting"
               /\ \A c \in todo'[w] : row[c].status = "CU"
            \/ pc'[w] = "rejecting"
<1>1. PICK p \in {"lifting", "excepting", "rejecting"}, d \in SUBSET Clients :
         /\ pc[w] = "clients" /\ todo[w] = {}
         /\ pc' = [pc EXCEPT ![w] = p] /\ todo' = [todo EXCEPT ![w] = d]
         /\ UNCHANGED <<amo, row, meeting, on, lead, rows, client, found, hand, unsaved>>
         /\ \/ /\ p = "lifting" /\ lead[w].stage = "closed"
               /\ d = {c \in Clients : Waits(row[c])}
            \/ p = "excepting" /\ \A c \in d : row[c].status = "CU"
            \/ p = "rejecting"
  <2>1. Released(w) \in SUBSET Clients
    BY DEF Released
  <2>2. /\ Parallel(w, {"CU"}) \in SUBSET Clients /\ Parallel(w, {"CU", "UR"}) \in SUBSET Clients
        /\ \A c \in Parallel(w, {"CU"}) : row[c].status = "CU"
    BY DEF Parallel
  <2>3. lead[w].stage = "closed" => Released(w) = {c \in Clients : Waits(row[c])}
    BY DEF Released
  <2> QED
    BY <2>1, <2>2, <2>3 DEF FindOthers, Goto
<1>2. disturbed' = disturbed \cup Contested(todo'[w])
  BY DEF FindOthers
<1>3. LocalType' /\ Others(w) /\ pc'[w] = p /\ todo'[w] = d /\ on'[w] = on[w] /\ lead'[w] = lead[w]
  BY <1>1 DEF Typed, LocalType, Others, Places
<1>4. ClientInv'
  BY <1>1, <1>3 DEF Typed, ClientInv, AtClient, Others
<1>5. disturbed' \subseteq Clients
  BY <1>2, <1>3 DEF Contested, Typed, HandType
<1>6. (AmoType /\ RowType /\ MeetingType /\ HandType)'
  BY <1>1, <1>5 DEF Typed, AmoType, RowType, MeetingType, HandType, amo, hand
<1> QED
  BY <1>1, <1>2, <1>3, <1>4, <1>6 DEF Typed

LEMMA WriteOtherTyped ==
  ASSUME Typed, NEW w \in Workers, NEW c \in Clients, WriteOther(w, c)
  PROVE  /\ Typed' /\ Others(w)
         /\ c \in todo[w] /\ pc'[w] = pc[w] /\ on'[w] = on[w] /\ lead'[w] = lead[w]
         /\ todo'[w] = todo[w] \ {c} /\ client'[w] = client[w]
         /\ UNCHANGED <<amo, meeting, hand, disturbed, unsaved>>
         /\ \A d \in Clients \ {c} : row'[d] = row[d]
         /\ \/ pc[w] = "lifting" /\ row'[c] = Granted
            \/ pc[w] = "excepting" /\ row'[c] = Excepted
            \/ pc[w] = "rejecting" /\ row'[c] = Uniqueness("REJECTED", "deal", "none")
<1>1. PICK r \in Row :
         /\ row' = [row EXCEPT ![c] = r] /\ c \in todo[w]
         /\ todo' = [todo EXCEPT ![w] = @ \ {c}]
         /\ UNCHANGED <<amo, meeting, pc, on, lead, rows, client, found, hand,
                        disturbed, unsaved>>
         /\ \/ pc[w] = "lifting" /\ r = Granted
            \/ pc[w] = "excepting" /\ r = Excepted
            \/ pc[w] = "rejecting" /\ r = Uniqueness("REJECTED", "deal", "none")
  <2>1. pc[w] \in {"lifting", "excepting", "rejecting"}
    BY DEF WriteOther, Written
  <2>2. /\ pc[w] = "lifting" => Written[pc[w]] = Granted
        /\ pc[w] = "excepting" => Written[pc[w]] = Excepted
        /\ pc[w] = "rejecting" => Written[pc[w]] = Uniqueness("REJECTED", "deal", "none")
    BY DEF Written
  <2>3. Written[pc[w]] \in Row
    BY <2>1, <2>2, DataFacts
  <2> QED
    BY <2>1, <2>2, <2>3 DEF WriteOther
<1>2. RowType' /\ row'[c] = r /\ \A d \in Clients \ {c} : row'[d] = row[d]
  BY <1>1 DEF Typed, RowType
<1>3. LocalType' /\ Others(w) /\ todo'[w] = todo[w] \ {c}
  BY <1>1 DEF Typed, LocalType, Others
<1>4. ClientInv'
  BY <1>1 DEF Typed, ClientInv, AtClient
<1>5. (AmoType /\ MeetingType /\ HandType)'
  BY <1>1 DEF Typed, AmoType, MeetingType, HandType, amo, hand
<1> QED
  BY <1>1, <1>2, <1>3, <1>4, <1>5 DEF Typed

\* The end of a request, and the loss of an event half way.
LEMMA EndTyped ==
  ASSUME Typed, NEW w \in Workers, NoOthers(w) \/ OthersDone(w) \/ Fail(w)
  PROVE  /\ Typed' /\ Others(w) /\ pc'[w] = "idle" /\ todo'[w] = {} /\ client'[w] = NoClient
         /\ UNCHANGED <<stage, attached, reached, events, row, meeting, overruled, unsaved>>
         /\ disturbed \subseteq disturbed'
         /\ \/ ToWrite(w) \subseteq disturbed'
            \/ pc[w] = "clients" /\ todo[w] = {}
            \/ pc[w] \in {"lifting", "excepting", "rejecting"}
<1>1. /\ Finish(w)
      /\ UNCHANGED <<stage, attached, reached, events, row, meeting, extending, overruled, unsaved>>
      /\ \/ disturbed' = disturbed \cup ToWrite(w)
         \/ disturbed' = disturbed /\ pc[w] = "clients" /\ todo[w] = {}
         \/ disturbed' = disturbed /\ pc[w] \in {"lifting", "excepting", "rejecting"}
  BY DEF NoOthers, OthersDone, Fail, Written, amo, hand
<1>2. /\ LocalType' /\ Others(w) /\ pc'[w] = "idle"
      /\ todo'[w] = {} /\ client'[w] = NoClient /\ found'[w] = 0
  BY <1>1, FinishEffect
<1>3. ClientInv'
  BY <1>1, <1>2 DEF Typed, ClientInv, AtClient, Others
<1>4. ToWrite(w) \subseteq Clients
  BY DEF ToWrite, LinkedTo, Typed, LocalType
<1>5. (AmoType /\ RowType /\ MeetingType /\ HandType)'
  BY <1>1, <1>4 DEF Typed, AmoType, RowType, MeetingType, HandType
<1> QED
  BY <1>1, <1>2, <1>3, <1>5 DEF Typed

\* The job, the brokers and the managers write rows only.  A client nobody
\* decided on keeps its status and mark, or its grant runs out.
ByHand ==
  /\ UNCHANGED <<stage, attached, reached, events, meeting, pc, on, lead, rows, todo, client,
                 found, disturbed, unsaved>>
  /\ overruled \subseteq overruled'
  /\ \A c \in Clients \ overruled' :
        \/ row'[c].status = row[c].status /\ row'[c].mark = row[c].mark
        \/ row[c].status = "CU" /\ row'[c].status = "EXPIRED"

LEMMA RowFacts ==
  ASSUME NEW r \in Row
  PROVE  /\ r.status \in Statuses /\ r.mark \in Marks /\ r.expiry \in Expiries
         /\ [r EXCEPT !.expiry = "past"] \in Row
         /\ [r EXCEPT !.mark = "plain", !.expiry = "future"] \in Row
         /\ [r EXCEPT !.expiry = "past"].status = r.status
         /\ [r EXCEPT !.expiry = "past"].mark = r.mark
         /\ [r EXCEPT !.mark = "plain", !.expiry = "future"].status = r.status
         /\ [r EXCEPT !.mark = "plain", !.expiry = "future"].mark = "plain"
BY DEF Row, Marks, Expiries

\* One row is written by hand.
LEMMA HandWrite ==
  ASSUME Typed, NEW c \in Clients, NEW r \in Row, row' = [row EXCEPT ![c] = r],
         UNCHANGED <<stage, attached, reached, events, meeting, pc, on, lead, rows, todo, client,
                     found, disturbed, unsaved>>,
         overruled \subseteq overruled', overruled' \subseteq Clients, extending' \subseteq Clients,
         c \in overruled' \/ (r.status = row[c].status /\ r.mark = row[c].mark)
  PROVE  Typed' /\ ByHand
<1>1. RowType' /\ row'[c] = r /\ \A d \in Clients \ {c} : row'[d] = row[d]
  BY DEF Typed, RowType
<1>2. (AmoType /\ MeetingType /\ LocalType /\ HandType /\ ClientInv)'
  BY DEF Typed, AmoType, MeetingType, LocalType, HandType, ClientInv, AtClient
<1>3. ByHand
  BY <1>1 DEF ByHand
<1> QED
  BY <1>1, <1>2, <1>3 DEF Typed

LEMMA OverruleEffect ==
  ASSUME Typed, NEW c \in Clients, NEW r \in Row, Overrule(c, r)
  PROVE  Typed' /\ ByHand
<1>1. /\ row' = [row EXCEPT ![c] = r] /\ overruled' = overruled \cup {c} /\ extending' = extending
      /\ UNCHANGED <<stage, attached, reached, events, meeting, pc, on, lead, rows, todo, client,
                     found, disturbed, unsaved>>
  BY DEF Overrule, amo, locals
<1>2. /\ overruled \subseteq overruled' /\ overruled' \subseteq Clients /\ extending' \subseteq Clients
      /\ c \in overruled'
  BY <1>1 DEF Typed, HandType
<1> QED
  BY <1>1, <1>2, HandWrite

LEMMA PeopleEffect ==
  ASSUME Typed, NEW c \in Clients, Lapse(c) \/ People(c)
  PROVE  Typed' /\ ByHand
<1>1. row[c] \in Row
  BY DEF Typed, RowType
<1>2. CASE Lapse(c)
  <2> DEFINE r == [row[c] EXCEPT !.expiry = "past"]
  <2>1. /\ row' = [row EXCEPT ![c] = r] /\ overruled' = overruled /\ extending' = extending
        /\ UNCHANGED <<stage, attached, reached, events, meeting, pc, on, lead, rows, todo, client,
                     found, disturbed, unsaved>>
    BY <1>2 DEF Lapse, amo, locals
  <2>2. r \in Row /\ r.status = row[c].status /\ r.mark = row[c].mark
    BY <1>1, RowFacts
  <2>3. overruled \subseteq overruled' /\ overruled' \subseteq Clients /\ extending' \subseteq Clients
    BY <2>1 DEF Typed, HandType
  <2> HIDE DEF r
  <2> QED
    BY <2>1, <2>2, <2>3, HandWrite
<1>3. CASE CheckExtension(c)
  <2>1. /\ row' = row /\ overruled' = overruled /\ extending' = extending \cup {c}
        /\ UNCHANGED <<stage, attached, reached, events, meeting, pc, on, lead, rows, todo, client,
                     found, disturbed, unsaved>>
    BY <1>3 DEF CheckExtension, amo, locals
  <2>2. (AmoType /\ MeetingType /\ LocalType /\ ClientInv)'
    BY <2>1 DEF Typed, AmoType, MeetingType, LocalType, ClientInv, AtClient
  <2>3. RowType' /\ HandType' /\ ByHand
    BY <2>1 DEF Typed, RowType, HandType, ByHand
  <2> QED
    BY <2>2, <2>3 DEF Typed
<1>4. CASE Extend(c)
  <2> DEFINE r == [row[c] EXCEPT !.mark = "plain", !.expiry = "future"]
  <2>1. /\ row' = [row EXCEPT ![c] = r] /\ extending' = extending \ {c}
        /\ overruled' = IF row[c].mark # "plain" THEN overruled \cup {c} ELSE overruled
        /\ UNCHANGED <<stage, attached, reached, events, meeting, pc, on, lead, rows, todo, client,
                     found, disturbed, unsaved>>
    BY <1>4 DEF Extend, amo, locals
  <2>2. r \in Row /\ r.status = row[c].status /\ r.mark = "plain"
    BY <1>1, RowFacts
  <2>3. overruled \subseteq overruled' /\ overruled' \subseteq Clients /\ extending' \subseteq Clients
    BY <2>1 DEF Typed, HandType
  <2>4. c \in overruled' \/ (r.status = row[c].status /\ r.mark = row[c].mark)
    BY <2>1, <2>2
  <2> HIDE DEF r
  <2> QED
    BY <2>1, <2>2, <2>3, <2>4, HandWrite
<1>5. CASE Resolve(c) \/ SetStatus(c)
  <2>1. \A s \in {"CU", "REJECTED", "UR"} : Uniqueness(s, "plain", row[c].expiry) \in Row
    BY <1>1, DataFacts, RowFacts DEF Statuses, Marks
  <2>2. PICK r \in Row : Overrule(c, r)
    BY <1>5, <2>1, DataFacts DEF Resolve, SetStatus
  <2> QED
    BY <2>2, OverruleEffect
<1> QED
  BY <1>2, <1>3, <1>4, <1>5 DEF People

LEMMA ExpireEffect ==
  ASSUME Typed, Expire
  PROVE  Typed' /\ ByHand
<1>1. /\ row' = [c \in Clients |-> IF c \in Overdue THEN Uniqueness("EXPIRED", "plain", "past")
                                   ELSE row[c]]
      /\ overruled' = overruled /\ extending' = extending
      /\ UNCHANGED <<stage, attached, reached, events, meeting, pc, on, lead, rows, todo, client,
                     found, disturbed, unsaved>>
  BY DEF Expire, amo, locals, hand
<1>2. /\ Uniqueness("EXPIRED", "plain", "past") \in Row
      /\ Uniqueness("EXPIRED", "plain", "past").status = "EXPIRED"
  BY DEF Uniqueness, Row, Statuses, Marks, Expiries
<1>3. RowType' /\ ByHand
  BY <1>1, <1>2 DEF Typed, RowType, ByHand, Overdue
<1>4. (AmoType /\ MeetingType /\ LocalType /\ HandType /\ ClientInv)'
  BY <1>1 DEF Typed, AmoType, MeetingType, LocalType, HandType, ClientInv, AtClient
<1> QED
  BY <1>3, <1>4 DEF Typed

-----------------------------------------------------------------------------
(* The types.                                                              *)

LEMMA InitTyped == Init => Typed
<1> SUFFICES ASSUME Init PROVE Typed
  OBVIOUS
<1>1. /\ Snapshot("active", {}) \in Snapshots /\ [c \in Clients |-> Granted] \in [Clients -> Row]
      /\ Uniqueness("UR", "plain", "future") \in Row /\ Granted \in Row /\ Excepted \in Row
  BY DataFacts DEF Snapshot, Snapshots, Stages, Statuses, Marks, Expiries
<1>2. AmoType /\ RowType /\ HandType
  BY <1>1 DEF Init, AmoType, RowType, HandType, Stages
<1>3. MeetingType
  BY EmptySeq DEF Init, MeetingType
<1>4. LocalType /\ ClientInv
  BY <1>1, LeadFacts DEF Init, LocalType, ClientInv, AtClient, Places
<1> QED
  BY <1>2, <1>3, <1>4 DEF Typed

LEMMA NextTyped == Typed /\ [Next]_vars => Typed'
<1> SUFFICES ASSUME Typed, [Next]_vars PROVE Typed'
  OBVIOUS
<1>1. CASE UNCHANGED vars
  BY <1>1 DEF vars, Typed, AmoType, RowType, MeetingType, LocalType, HandType, ClientInv, AtClient
<1>2. ASSUME NEW l \in Leads, LeadChanges(l) PROVE Typed'
  BY <1>2, ChangesTyped
<1>3. ASSUME NEW w \in Workers, Handle(w) PROVE Typed'
  BY <1>3, ReceiveTyped, FindClientsTyped, TakeClientTyped, SaveMeetingTyped, LoseMeetingTyped,
     JudgeTyped, FindOthersTyped, WriteOtherTyped, EndTyped DEF Handle
<1>4. ASSUME NEW c \in Clients, Lapse(c) \/ People(c) PROVE Typed'
  BY <1>4, PeopleEffect
<1>5. CASE Expire
  BY <1>5, ExpireEffect
<1> QED
  BY <1>1, <1>2, <1>3, <1>4, <1>5 DEF Next

LEMMA AlwaysTyped == Spec => []Typed
BY InitTyped, NextTyped, PTL DEF Spec

\* The rows, the meetings and the locals of the requests keep their types; a
\* request in the middle of its loop has a client, and a meeting of that client.
THEOREM TypeCorrect == Spec => []TypeOK
<1>1. Typed => TypeOK
  <2> SUFFICES ASSUME Typed PROVE TypeOK
    OBVIOUS
  <2>1. \A c \in Clients : \A i \in DOMAIN meeting[c] : meeting[c][i] \in {"held", "cancelled"}
    BY LenProperties, ElementOfSeq DEF Typed, MeetingType
  <2>2. /\ \A w \in Workers : client[w] \in Clients <=> pc[w] \in {"meeting", "verdict"}
        /\ \A w \in Workers : found[w] \in 0 .. (IF client[w] \in Clients
                                                 THEN Len(meeting[client[w]]) ELSE 0)
    BY LeadFacts DEF Typed, ClientInv, AtClient
  <2>3. AmoType /\ RowType /\ LocalType /\ HandType
    BY DEF Typed
  <2> QED
    BY <2>1, <2>2, <2>3 DEF AmoType, RowType, LocalType, HandType, Stages, Places, TypeOK
<1> QED
  BY <1>1, AlwaysTyped, PTL

-----------------------------------------------------------------------------
(* What a request is about.                                                *)

InLoop(w) == pc[w] \in {"clients", "meeting", "verdict"}

\* The clients it has yet to judge, and those whose meeting it has yet to see to.
Ahead(w, places) ==
  IF pc[w] = "findClients" THEN LinkedTo(on[w]) \ Sold
  ELSE IF InLoop(w) THEN todo[w] \cup (IF pc[w] \in places THEN {client[w]} ELSE {})
  ELSE {}
ToJudge(w)  == Ahead(w, {"meeting", "verdict"})
ToImport(w) == Ahead(w, {"meeting"})

\* They are clients of its lead, each is taken once, and what it read of the
\* lead was so at some time.
Task(w) ==
  /\ InLoop(w) => ToJudge(w) \subseteq LinkedTo(on[w]) \ Sold
  /\ pc[w] \in {"meeting", "verdict"} => client[w] \notin todo[w]
  /\ pc[w] # "idle" => lead[w].stage \in reached[on[w]]
  /\ pc[w] = "lifting" => lead[w].stage = "closed"

TaskInv ==
  /\ \A w \in Workers : Task(w)
  /\ \A l \in Leads : stage[l] \in reached[l]

LEMMA AheadFacts ==
  ASSUME Typed, TaskInv, NEW w \in Workers
  PROVE  /\ ToImport(w) \subseteq ToJudge(w)
         /\ ToJudge(w) \subseteq LinkedTo(on[w]) \ Sold
         /\ \A c \in ToJudge(w) : c \in Clients /\ Lead[c] = on[w] /\ c \notin Sold
         /\ ~InLoop(w) /\ pc[w] # "findClients" => ToJudge(w) = {}
         /\ pc[w] = "clients" => ToJudge(w) = todo[w] /\ ToImport(w) = todo[w]
         /\ pc[w] = "meeting" => ToImport(w) = ToJudge(w)
         /\ pc[w] = "verdict" => ToImport(w) = todo[w]
         /\ pc[w] \in {"meeting", "verdict"} => ToJudge(w) = todo[w] \cup {client[w]}
         /\ ToJudge(w) \subseteq ToWrite(w) /\ todo[w] \cup ToWrite(w) \subseteq Clients
         /\ pc[w] \in {"lifting", "excepting"} => todo[w] \subseteq ToWrite(w)
<1>1. ToJudge(w) \subseteq LinkedTo(on[w]) \ Sold
  BY DEF TaskInv, Task, ToJudge, Ahead
<1>2. \A c \in ToJudge(w) : c \in Clients /\ Lead[c] = on[w] /\ c \notin Sold
  BY <1>1 DEF LinkedTo
<1>3. ToJudge(w) \subseteq ToWrite(w)
  <2>1. pc[w] \in {"meeting", "verdict"} => client[w] # NoClient
    BY LeadFacts DEF Typed, ClientInv, AtClient
  <2> QED
    BY <2>1 DEF ToJudge, Ahead, InLoop, ToWrite
<1>4. todo[w] \cup ToWrite(w) \subseteq Clients
  BY DEF ToWrite, LinkedTo, Typed, LocalType
<1>5. pc[w] \in {"lifting", "excepting"} => todo[w] \subseteq ToWrite(w)
  BY DEF ToWrite
<1> QED
  BY <1>1, <1>2, <1>3, <1>4, <1>5 DEF ToJudge, ToImport, Ahead, InLoop

\* The locals of w are what they were.
Still(w) ==
  /\ pc'[w] = pc[w] /\ on'[w] = on[w] /\ lead'[w] = lead[w] /\ rows'[w] = rows[w]
  /\ todo'[w] = todo[w] /\ client'[w] = client[w] /\ found'[w] = found[w]

LEMMA StillFacts ==
  ASSUME NEW w \in Workers, Still(w)
  PROVE  /\ ToJudge(w)' = ToJudge(w) /\ ToImport(w)' = ToImport(w) /\ InLoop(w)' = InLoop(w)
         /\ ToWrite(w)' = ToWrite(w)
BY DEF Still, ToJudge, ToImport, Ahead, InLoop, LinkedTo, ToWrite

LEMMA TaskStays ==
  ASSUME NEW w \in Workers, Task(w), Still(w),
         \A l \in Leads : reached[l] \subseteq reached'[l], on[w] \in Leads
  PROVE  Task(w)'
BY StillFacts DEF Task, Still, InLoop, LinkedTo

\* Where a request goes by itself.
LEMMA TaskStep ==
  ASSUME Typed, TaskInv, NEW w \in Workers, Handle(w)
  PROVE  Task(w)' /\ Others(w) /\ reached' = reached /\ stage' = stage
<1>0. Task(w) /\ \A l \in Leads : stage[l] \in reached[l]
  BY DEF TaskInv
<1> USE DEF ToJudge, Ahead, InLoop
<1>1. ASSUME NEW l \in Leads, Receive(w, l)
      PROVE  Task(w)' /\ Others(w) /\ reached' = reached /\ stage' = stage
  <2>1. Snapshot(stage[l], attached[l]).stage = stage[l]
    BY DEF Snapshot
  <2> QED
    BY <1>0, <1>1, <2>1, ReceiveTyped DEF Task
<1>2. CASE FindClients(w)
  BY <1>0, <1>2, FindClientsTyped DEF Task, amo, LinkedTo
<1>3. ASSUME NEW c \in Clients, TakeClient(w, c)
      PROVE  Task(w)' /\ Others(w) /\ reached' = reached /\ stage' = stage
  BY <1>0, <1>3, TakeClientTyped DEF Task, amo, LinkedTo
<1>4. CASE SaveMeeting(w) \/ LoseMeeting(w)
  BY <1>0, <1>4, SaveMeetingTyped, LoseMeetingTyped DEF Task, amo, LinkedTo
<1>5. CASE Judge(w)
  BY <1>0, <1>5, JudgeTyped DEF Task, amo, LinkedTo
<1>6. CASE FindOthers(w)
  BY <1>0, <1>6, FindOthersTyped DEF Task, amo, LinkedTo
<1>7. ASSUME NEW c \in Clients, WriteOther(w, c)
      PROVE  Task(w)' /\ Others(w) /\ reached' = reached /\ stage' = stage
  BY <1>0, <1>7, WriteOtherTyped DEF Task, amo, LinkedTo
<1>8. CASE NoOthers(w) \/ OthersDone(w) \/ Fail(w)
  BY <1>8, EndTyped DEF Task
<1> QED
  BY <1>1, <1>2, <1>3, <1>4, <1>5, <1>6, <1>7, <1>8 DEF Handle

LEMMA AlwaysTask == Spec => []TaskInv
<1>1. Init => TaskInv
  <2> SUFFICES ASSUME Init PROVE TaskInv
    OBVIOUS
  <2>1. \A w \in Workers : pc[w] = "idle"
    BY DEF Init
  <2>2. \A l \in Leads : stage[l] \in reached[l]
    BY DEF Init
  <2> QED
    BY <2>1, <2>2 DEF TaskInv, Task, InLoop
<1>2. Typed /\ TaskInv /\ [Next]_vars => TaskInv'
  <2> SUFFICES ASSUME Typed, TaskInv, [Next]_vars PROVE TaskInv'
    OBVIOUS
  <2>0. \A w \in Workers : on[w] \in Leads
    BY DEF Typed, LocalType
  <2>1. CASE UNCHANGED <<stage, reached, pc, on, lead, rows, todo, client, found>>
    BY <2>0, <2>1, TaskStays DEF TaskInv, Still
  <2>2. ASSUME NEW l \in Leads, LeadChanges(l) PROVE TaskInv'
    <3>1. UNCHANGED <<pc, on, lead, rows, todo, client, found>>
      BY <2>2 DEF LeadChanges, locals
    <3> QED
      BY <2>0, <2>2, <3>1, ChangesTyped, TaskStays DEF TaskInv, Still
  <2>3. ASSUME NEW w \in Workers, Handle(w) PROVE TaskInv'
    <3>1. Task(w)' /\ Others(w) /\ reached' = reached /\ stage' = stage
      BY <2>3, TaskStep
    <3>2. ASSUME NEW v \in Workers \ {w} PROVE Task(v)'
      BY <2>0, <3>1, <3>2, TaskStays DEF TaskInv, Others, Still
    <3> QED
      BY <3>1, <3>2 DEF TaskInv
  <2>4. ASSUME NEW c \in Clients, Lapse(c) \/ People(c) PROVE TaskInv'
    BY <2>1, <2>4, PeopleEffect DEF ByHand
  <2>5. CASE Expire
    BY <2>1, <2>5, ExpireEffect DEF ByHand
  <2> QED
    BY <2>1, <2>2, <2>3, <2>4, <2>5 DEF Next, vars
<1> QED
  BY <1>1, <1>2, AlwaysTyped, PTL DEF Spec

-----------------------------------------------------------------------------
(* A client nobody disturbed is written by one request at most.            *)

AloneInv ==
  \A c \in Clients \ disturbed : \A u, v \in Workers :
     c \in ToWrite(u) /\ c \in ToWrite(v) => u = v

\* What a step of w does to a client that counts as undisturbed after it: if
\* others were about to write it, w did not touch it, nor does it from now on.
Spares(w, c) ==
  /\ c \in disturbed => \A v \in Workers : c \notin ToWrite(v)
  /\ c \in overruled \ overruled' => \A v \in Workers : c \notin ToWrite(v)
  /\ c \in ToWrite(w)' => c \in ToWrite(w) \/ \A v \in Workers : c \notin ToWrite(v)
  /\ c \notin ToWrite(w) => row'[c] = row[c] /\ meeting'[c] = meeting[c]

LEMMA Elsewhere ==
  ASSUME Typed, TaskInv, NEW w \in Workers, Handle(w), NEW c \in Clients \ disturbed'
  PROVE  Spares(w, c)
<1>0. pc[w] \in {"meeting", "verdict"} => client[w] \in ToWrite(w)
  BY LeadFacts DEF Typed, ClientInv, AtClient, ToWrite
<1>1. ASSUME NEW l \in Leads, Receive(w, l) PROVE Spares(w, c)
  <2>1. /\ pc'[w] = "findClients" /\ on'[w] = l /\ row' = row /\ meeting' = meeting
        /\ overruled' = overruled \ LinkedTo(l)
        /\ disturbed' = (disturbed \ LinkedTo(l)) \cup Contested(LinkedTo(l))
    BY <1>1, ReceiveTyped
  <2>2. ToWrite(w)' = LinkedTo(l) \ Sold
    BY <2>1 DEF ToWrite, LinkedTo
  <2>3. c \in LinkedTo(l) => \A v \in Workers : c \notin ToWrite(v)
    BY <2>1 DEF Contested
  <2> QED
    BY <2>1, <2>2, <2>3 DEF Spares
<1>2. CASE FindClients(w)
  <2>1. disturbed \subseteq disturbed' /\ overruled' = overruled /\ row' = row /\ meeting' = meeting
    BY <1>2, FindClientsTyped DEF hand
  <2>2. ToWrite(w)' \subseteq ToWrite(w)
    <3>1. client[w] = NoClient /\ client'[w] = client[w]
      BY <1>2, FindClientsTyped DEF Typed, ClientInv, AtClient, FindClients
    <3> QED
      BY <1>2, <3>1, FindClientsTyped DEF ToWrite
  <2> QED
    BY <2>1, <2>2 DEF Spares
<1>3. ASSUME NEW d \in Clients, TakeClient(w, d) PROVE Spares(w, c)
  <2>1. disturbed \subseteq disturbed' /\ overruled' = overruled /\ row' = row /\ meeting' = meeting
    BY <1>3, TakeClientTyped DEF hand
  <2>2. ToWrite(w)' \subseteq ToWrite(w)
    BY <1>3, TakeClientTyped DEF ToWrite
  <2> QED
    BY <2>1, <2>2 DEF Spares
<1>4. CASE SaveMeeting(w)
  <2>1. /\ disturbed \subseteq disturbed' /\ overruled' = overruled /\ row' = row
        /\ \A d \in Clients \ ToWrite(w) : meeting'[d] = meeting[d]
    BY <1>0, <1>4, SaveMeetingTyped DEF hand
  <2>2. ToWrite(w)' \subseteq ToWrite(w)
    BY <1>0, <1>4, SaveMeetingTyped DEF ToWrite
  <2> QED
    BY <2>1, <2>2 DEF Spares
<1>5. CASE LoseMeeting(w)
  <2>1. disturbed \subseteq disturbed' /\ overruled' = overruled /\ row' = row /\ meeting' = meeting
    BY <1>5, LoseMeetingTyped
  <2>2. ToWrite(w)' \subseteq ToWrite(w)
    BY <1>5, LoseMeetingTyped DEF ToWrite
  <2> QED
    BY <2>1, <2>2 DEF Spares
<1>6. CASE Judge(w)
  <2>1. /\ disturbed \subseteq disturbed' /\ overruled' = overruled /\ meeting' = meeting
        /\ \A d \in Clients \ ToWrite(w) : row'[d] = row[d]
    BY <1>0, <1>6, JudgeTyped DEF hand
  <2>2. ToWrite(w)' \subseteq ToWrite(w)
    BY <1>6, JudgeTyped DEF ToWrite, Typed, ClientInv, AtClient
  <2> QED
    BY <2>1, <2>2 DEF Spares
<1>7. CASE FindOthers(w)
  <2>1. /\ row' = row /\ meeting' = meeting /\ disturbed \subseteq disturbed' /\ overruled' = overruled
        /\ disturbed' = disturbed \cup Contested(todo'[w])
    BY <1>7, FindOthersTyped DEF hand
  <2>2. ToWrite(w)' = todo'[w]
    <3>1. pc'[w] # "findClients" /\ client'[w] = NoClient
      BY <1>7, FindOthersTyped DEF Typed, ClientInv, AtClient
    <3> QED
      BY <3>1 DEF ToWrite
  <2>3. c \in todo'[w] => \A v \in Workers : c \notin ToWrite(v)
    BY <2>1 DEF Contested
  <2> QED
    BY <2>1, <2>2, <2>3 DEF Spares
<1>8. ASSUME NEW d \in Clients, WriteOther(w, d) PROVE Spares(w, c)
  <2>1. /\ disturbed \subseteq disturbed' /\ overruled' = overruled /\ meeting' = meeting
        /\ \A e \in Clients \ {d} : row'[e] = row[e]
    BY <1>8, WriteOtherTyped DEF hand
  <2>2. ToWrite(w)' \subseteq ToWrite(w) /\ d \in ToWrite(w)
    BY <1>8, WriteOtherTyped DEF ToWrite
  <2> QED
    BY <2>1, <2>2 DEF Spares
<1>9. CASE NoOthers(w) \/ OthersDone(w) \/ Fail(w)
  <2>1. disturbed \subseteq disturbed' /\ overruled' = overruled /\ row' = row /\ meeting' = meeting
    BY <1>9, EndTyped
  <2>2. ToWrite(w)' \subseteq ToWrite(w)
    BY <1>9, EndTyped DEF ToWrite
  <2> QED
    BY <2>1, <2>2 DEF Spares
<1> QED
  BY <1>1, <1>2, <1>3, <1>4, <1>5, <1>6, <1>7, <1>8, <1>9 DEF Handle

\* So one that another request v is about to write was not touched, and is not.
LEMMA Untouched ==
  ASSUME Typed, TaskInv, AloneInv, NEW w \in Workers, Handle(w),
         NEW v \in Workers \ {w}, NEW c \in Clients \ disturbed', c \in ToWrite(v)
  PROVE  /\ c \notin disturbed /\ c \notin ToWrite(w) /\ c \notin ToWrite(w)'
         /\ row'[c] = row[c] /\ meeting'[c] = meeting[c]
         /\ c \in overruled => c \in overruled'
<1>1. c \notin disturbed /\ (c \in overruled => c \in overruled')
  BY Elsewhere DEF Spares
<1>2. c \notin ToWrite(w)
  BY <1>1 DEF AloneInv
<1> QED
  BY <1>1, <1>2, Elsewhere DEF Spares

LEMMA OthersStill ==
  ASSUME NEW w \in Workers, Others(w), NEW v \in Workers \ {w}
  PROVE  Still(v)
BY DEF Others, Still

LEMMA AlwaysAlone == Spec => []AloneInv
<1>1. Init => AloneInv
  BY DEF Init, AloneInv, ToWrite
<1>2. Typed /\ TaskInv /\ AloneInv /\ [Next]_vars => AloneInv'
  <2> SUFFICES ASSUME Typed, TaskInv, AloneInv, [Next]_vars PROVE AloneInv'
    OBVIOUS
  <2>1. CASE UNCHANGED <<pc, on, lead, rows, todo, client, found, disturbed>>
    <3>1. \A v \in Workers : ToWrite(v)' = ToWrite(v)
      BY <2>1, StillFacts DEF Still
    <3> QED
      BY <2>1, <3>1 DEF AloneInv
  <2>2. ASSUME NEW l \in Leads, LeadChanges(l) PROVE AloneInv'
    BY <2>1, <2>2 DEF LeadChanges, locals
  <2>3. ASSUME NEW w \in Workers, Handle(w) PROVE AloneInv'
    <3> SUFFICES ASSUME NEW c \in Clients \ disturbed', NEW u \in Workers, NEW v \in Workers \ {u},
                        c \in ToWrite(u)', c \in ToWrite(v)'
                 PROVE  FALSE
      BY DEF AloneInv
    <3>1. \A x \in Workers \ {w} : ToWrite(x)' = ToWrite(x)
      BY <2>3, TaskStep, OthersStill, StillFacts
    <3>2. \A x \in Workers \ {w} : c \in ToWrite(x) => c \notin ToWrite(w)' /\ c \notin disturbed
      BY <2>3, Untouched
    <3>3. u # w /\ v # w
      BY <3>1, <3>2
    <3> QED
      BY <3>1, <3>2, <3>3 DEF AloneInv
  <2>4. ASSUME ByHand PROVE AloneInv'
    BY <2>1, <2>4 DEF ByHand
  <2> QED
    BY <2>1, <2>2, <2>3, <2>4, PeopleEffect, ExpireEffect DEF Next, vars
<1> QED
  BY <1>1, <1>2, AlwaysTyped, AlwaysTask, PTL DEF Spec

-----------------------------------------------------------------------------
(* What a request knows of the clients it has yet to judge, if they count. *)

Excused == overruled \cup disturbed

\* The last event of a lead shows it as it is.
Knows(w) ==
  events[on[w]] = 0 => lead[w] = Snapshot(stage[on[w]], attached[on[w]])

\* What was read of a client still says what the verdict needs.
Recalls(w, c) ==
  \/ row[c].status = rows[w][c].status /\ (Waits(row[c]) <=> Waits(rows[w][c]))
  \/ rows[w][c].status = "CU" /\ row[c].status = "EXPIRED"

Now(w) == ToJudge(w) \subseteq disturbed \/ Knows(w)
Recalling(w) == InLoop(w) => \A c \in ToJudge(w) \ Excused : Recalls(w, c)

NowInv == \A w \in Workers : Now(w) /\ Recalling(w)

LEMMA KnowsStays ==
  ASSUME NEW w \in Workers, Knows(w),
         on'[w] = on[w], lead'[w] = lead[w],
         \/ events'[on[w]] > 0
         \/ /\ events'[on[w]] = events[on[w]] /\ stage'[on[w]] = stage[on[w]]
            /\ attached'[on[w]] = attached[on[w]]
  PROVE  Knows(w)'
BY DEF Knows

LEMMA RecallsStays ==
  ASSUME NEW w \in Workers, NEW c \in Clients, Recalls(w, c), rows'[w] = rows[w],
         \/ row'[c] = row[c]
         \/ row'[c].status = row[c].status /\ row'[c].mark = row[c].mark
         \/ row[c].status = "CU" /\ row'[c].status = "EXPIRED"
  PROVE  Recalls(w, c)'
BY DEF Recalls, Waits

LEMMA HandNow ==
  ASSUME Typed, TaskInv, NowInv, ByHand, NEW w \in Workers
  PROVE  Now(w)' /\ Recalling(w)'
<1>1. Still(w) /\ on[w] \in Leads /\ Now(w) /\ Recalling(w)
  BY DEF ByHand, Still, NowInv, Typed, LocalType
<1>2. /\ ToJudge(w)' = ToJudge(w) /\ InLoop(w)' = InLoop(w) /\ ToJudge(w) \subseteq Clients
      /\ disturbed' = disturbed /\ Excused \subseteq Excused'
  BY <1>1, StillFacts, AheadFacts DEF ByHand, Excused
<1>3. Now(w)'
  BY <1>1, <1>2, KnowsStays DEF Now, ByHand, Still
<1>4. \A c \in Clients \ Excused' :
        \/ row'[c].status = row[c].status /\ row'[c].mark = row[c].mark
        \/ row[c].status = "CU" /\ row'[c].status = "EXPIRED"
  BY DEF ByHand, Excused
<1>5. Recalling(w)'
  BY <1>1, <1>2, <1>4, RecallsStays DEF Recalling, Still
<1> QED
  BY <1>3, <1>5

LEMMA ChangeNow ==
  ASSUME Typed, TaskInv, NowInv, NEW l \in Leads, LeadChanges(l), NEW w \in Workers
  PROVE  Now(w)' /\ Recalling(w)'
<1>1. Still(w) /\ on[w] \in Leads /\ Now(w) /\ Recalling(w)
  BY DEF LeadChanges, locals, Still, NowInv, Typed, LocalType
<1>2. /\ row' = row /\ disturbed' = disturbed /\ Excused' = Excused
      /\ ToJudge(w)' = ToJudge(w) /\ InLoop(w)' = InLoop(w) /\ ToJudge(w) \subseteq Clients
  BY <1>1, StillFacts, AheadFacts DEF LeadChanges, Excused
<1>3. \/ events'[on[w]] > 0
      \/ /\ events'[on[w]] = events[on[w]] /\ stage'[on[w]] = stage[on[w]]
         /\ attached'[on[w]] = attached[on[w]]
  BY <1>1, ChangesTyped
<1>4. Now(w)'
  BY <1>1, <1>2, <1>3, KnowsStays DEF Now, Still
<1>5. Recalling(w)'
  BY <1>1, <1>2, RecallsStays DEF Recalling, Still
<1> QED
  BY <1>4, <1>5

\* The step of a request leaves what the others know.
LEMMA OthersNow ==
  ASSUME Typed, TaskInv, AloneInv, NowInv, NEW w \in Workers, Handle(w), NEW v \in Workers \ {w}
  PROVE  Now(v)' /\ Recalling(v)'
<1>1. /\ Still(v) /\ on[v] \in Leads /\ Now(v) /\ Recalling(v)
      /\ ToJudge(v)' = ToJudge(v) /\ InLoop(v)' = InLoop(v)
  BY TaskStep, OthersStill, StillFacts DEF NowInv, Typed, LocalType
<1>2. ASSUME NEW c \in ToJudge(v) \ disturbed' PROVE
        /\ c \in Clients \ disturbed /\ row'[c] = row[c]
        /\ c \in overruled => c \in overruled'
        /\ Knows(v)'
  <2>1. c \in Clients /\ c \in ToWrite(v) /\ Lead[c] = on[v]
    BY AheadFacts
  <2>2. c \notin disturbed /\ row'[c] = row[c] /\ (c \in overruled => c \in overruled')
    BY <1>2, <2>1, Untouched
  <2>3. Knows(v)
    BY <1>1, <1>2, <2>2 DEF Now
  <2>4. events'[on[v]] = events[on[v]]
    <3>1. ASSUME NEW l \in Leads, Receive(w, l) PROVE events'[on[v]] = events[on[v]]
      <4>1. c \notin LinkedTo(l)
        BY <1>2, <2>1, <3>1, ReceiveTyped DEF Contested
      <4>2. on[v] # l
        BY <2>1, <4>1 DEF LinkedTo
      <4> QED
        BY <1>1, <3>1, <4>2, ReceiveTyped
    <3>2. CASE events' = events
      BY <3>2
    <3> QED
      BY <3>1, <3>2 DEF Handle, FindClients, TakeClient, SaveMeeting, LoseMeeting, Judge,
         FindOthers, WriteOther, NoOthers, OthersDone, Fail, amo
  <2>5. stage' = stage /\ attached' = attached
    BY DEF Handle, Receive, FindClients, TakeClient, SaveMeeting, LoseMeeting, Judge,
       FindOthers, WriteOther, NoOthers, OthersDone, Fail, amo
  <2>6. Knows(v)'
    BY <1>1, <2>1, <2>3, <2>4, <2>5, KnowsStays DEF Still
  <2> QED
    BY <2>1, <2>2, <2>6
<1>3. Now(v)'
  BY <1>1, <1>2 DEF Now
<1>4. ASSUME InLoop(v), NEW c \in ToJudge(v) \ Excused' PROVE Recalls(v, c)'
  <2>1. c \in Clients \ Excused /\ row'[c] = row[c]
    BY <1>2, <1>4 DEF Excused
  <2>2. Recalls(v, c)
    BY <1>1, <1>4, <2>1 DEF Recalling
  <2> QED
    BY <1>1, <2>1, <2>2, RecallsStays DEF Still
<1>5. Recalling(v)'
  BY <1>1, <1>4 DEF Recalling
<1> QED
  BY <1>3, <1>5

\* The steps of a request in its loop: there are ever fewer clients to judge.
LEMMA LoopNow ==
  ASSUME Typed, TaskInv, NowInv, NEW w \in Workers,
         ToJudge(w)' \subseteq ToJudge(w), InLoop(w),
         on'[w] = on[w], lead'[w] = lead[w], rows'[w] = rows[w],
         UNCHANGED <<stage, attached, events, overruled>>, disturbed \subseteq disturbed',
         \A c \in ToJudge(w)' : row'[c] = row[c]
  PROVE  Now(w)' /\ Recalling(w)'
<1>1. Now(w) /\ Recalling(w) /\ ToJudge(w) \subseteq Clients /\ Excused \subseteq Excused'
  BY AheadFacts DEF NowInv, Excused
<1>2. Now(w)'
  BY <1>1, KnowsStays DEF Now
<1>3. Recalling(w)'
  BY <1>1, RecallsStays DEF Recalling
<1> QED
  BY <1>2, <1>3

LEMMA OwnNow ==
  ASSUME Typed, TaskInv, NowInv, NEW w \in Workers, Handle(w)
  PROVE  Now(w)' /\ Recalling(w)'
<1>0. Now(w) /\ Task(w) /\ ToJudge(w) \subseteq Clients
  BY AheadFacts DEF NowInv, TaskInv
<1>1. ASSUME NEW l \in Leads, Receive(w, l) PROVE Now(w)' /\ Recalling(w)'
  BY <1>1, ReceiveTyped DEF Now, Knows, Recalling, InLoop
<1>2. CASE FindClients(w)
  <2>1. /\ rows'[w] = row /\ row' = row /\ disturbed' = disturbed /\ UNCHANGED amo
        /\ on'[w] = on[w] /\ lead'[w] = lead[w]
    BY <1>2, FindClientsTyped
  <2>2. ToJudge(w)' = ToJudge(w)
    BY <1>2, FindClientsTyped DEF ToJudge, Ahead, InLoop, LinkedTo
  <2>3. Now(w)'
    BY <1>0, <2>1, <2>2 DEF Now, Knows, amo
  <2> QED
    BY <2>1, <2>3 DEF Recalling, Recalls
<1>3. ASSUME NEW c \in Clients, TakeClient(w, c) PROVE Now(w)' /\ Recalling(w)'
  <2>1. InLoop(w) /\ ToJudge(w)' \subseteq ToJudge(w)
    BY <1>3, TakeClientTyped DEF InLoop, ToJudge, Ahead
  <2> QED
    BY <1>3, <2>1, TakeClientTyped, LoopNow DEF hand, amo
<1>4. CASE SaveMeeting(w) \/ LoseMeeting(w)
  <2>1. InLoop(w) /\ ToJudge(w)' \subseteq ToJudge(w)
    BY <1>4, SaveMeetingTyped, LoseMeetingTyped DEF InLoop, ToJudge, Ahead
  <2> QED
    BY <1>4, <2>1, SaveMeetingTyped, LoseMeetingTyped, LoopNow DEF hand, amo
<1>5. CASE Judge(w)
  <2>1. InLoop(w) /\ ToJudge(w)' = todo[w] /\ ToJudge(w)' \subseteq ToJudge(w)
    BY <1>5, JudgeTyped DEF InLoop, ToJudge, Ahead
  <2>2. \A c \in todo[w] : row'[c] = row[c]
    BY <1>0, <1>5, JudgeTyped DEF Task, Typed, LocalType
  <2> QED
    BY <1>5, <2>1, <2>2, JudgeTyped, LoopNow DEF hand, amo
<1>6. CASE FindOthers(w) \/ (\E c \in Clients : WriteOther(w, c))
           \/ NoOthers(w) \/ OthersDone(w) \/ Fail(w)
  <2>1. ~InLoop(w)' /\ pc'[w] # "findClients"
    BY <1>6, FindOthersTyped, WriteOtherTyped, EndTyped DEF InLoop
  <2> QED
    BY <2>1 DEF Now, Recalling, ToJudge, Ahead
<1> QED
  BY <1>1, <1>2, <1>3, <1>4, <1>5, <1>6 DEF Handle

LEMMA AlwaysNow == Spec => []NowInv
<1>1. Init => NowInv
  BY DEF Init, NowInv, Now, Recalling, InLoop, ToJudge, Ahead
<1>2. Typed /\ TaskInv /\ AloneInv /\ NowInv /\ [Next]_vars => NowInv'
  <2> SUFFICES ASSUME Typed, TaskInv, AloneInv, NowInv, [Next]_vars PROVE NowInv'
    OBVIOUS
  <2>1. CASE UNCHANGED vars
    BY <2>1 DEF vars, NowInv, Now, Knows, Recalling, Recalls, Excused, InLoop, ToJudge, Ahead,
       LinkedTo, Waits
  <2>2. ASSUME NEW l \in Leads, LeadChanges(l) PROVE NowInv'
    BY <2>2, ChangeNow DEF NowInv
  <2>3. ASSUME NEW w \in Workers, Handle(w) PROVE NowInv'
    BY <2>3, OwnNow, OthersNow DEF NowInv
  <2>4. ASSUME ByHand PROVE NowInv'
    BY <2>4, HandNow DEF NowInv
  <2> QED
    BY <2>1, <2>2, <2>3, <2>4, PeopleEffect, ExpireEffect DEF Next
<1> QED
  BY <1>1, <1>2, AlwaysTyped, AlwaysTask, AlwaysAlone, PTL DEF Spec

-----------------------------------------------------------------------------
(* The verdict.  A client of whose lead no event is to come has the row     *)
(* that the lead entitles it to, or is about to be judged.                 *)

Entitled(c) ==
  /\ ~(Lead[c] \in KC /\ stage[Lead[c]] = "closed")
  /\ Effective[c] \in attached[Lead[c]]

\* The verdict of VerdictFollowsLead on one client.
Settled(c) ==
  IF Lead[c] \in KC /\ stage[Lead[c]] = "closed" THEN row[c].status = "REJECTED"
  ELSE IF Effective[c] \in attached[Lead[c]]
  THEN \/ row[c].status \in {"CU", "EXPIRED"}
       \/ Waits(row[c])
       \/ row[c].status = "REJECTED" /\ row[c].mark = "deal"
  ELSE row[c].status \in {"REJECTED", "EXPIRED"}

Concerned == Clients \ (Sold \cup Excused)

Judged(c) == events[Lead[c]] = 0 => Settled(c) \/ \E w \in Workers : c \in ToJudge(w)

\* Whoever is about to be granted or excepted for another lead is entitled by
\* its own, unless that has changed again.
Yielding(w) ==
  pc[w] \in {"lifting", "excepting"} =>
     \A c \in todo[w] : c \in Concerned /\ events[Lead[c]] = 0 => Entitled(c)

VerdictInv ==
  /\ \A c \in Concerned : Judged(c)
  /\ \A w \in Workers : Yielding(w)

\* A step that changes neither the row nor the lead, unless an event is to come.
LEMMA JudgedStays ==
  ASSUME NEW c \in Clients, Judged(c), row'[c] = row[c],
         \/ events'[Lead[c]] > 0
         \/ /\ events'[Lead[c]] = events[Lead[c]] /\ stage'[Lead[c]] = stage[Lead[c]]
            /\ attached'[Lead[c]] = attached[Lead[c]],
         \A w \in Workers : c \in ToJudge(w) => c \in ToJudge(w)'
  PROVE  Judged(c)'
BY DEF Judged, Settled

LEMMA YieldingStays ==
  ASSUME NEW w \in Workers, Yielding(w), pc'[w] = pc[w], todo'[w] \subseteq todo[w],
         \A c \in todo'[w] \cap Concerned' :
            /\ c \in Concerned
            /\ \/ events'[Lead[c]] > 0
               \/ /\ events'[Lead[c]] = events[Lead[c]] /\ stage'[Lead[c]] = stage[Lead[c]]
                  /\ attached'[Lead[c]] = attached[Lead[c]]
  PROVE  Yielding(w)'
BY DEF Yielding, Entitled

\* The verdict of a request that has seen the lead as it is.
LEMMA JudgeSettles ==
  ASSUME Typed, TaskInv, NowInv, NEW w \in Workers, Judge(w),
         NEW c \in Clients, c = client[w], c \notin Excused, events[Lead[c]] = 0
  PROVE  Settled(c)'
<1>1. pc[w] = "verdict"
  BY JudgeTyped
<1>2. /\ row'[c] = IF Refused(w, c) THEN Rejected
                   ELSE IF Approved(w, c) THEN Granted ELSE row[c]
      /\ stage' = stage /\ attached' = attached
  BY <1>1, JudgeTyped DEF amo
<1>3. c \in ToJudge(w) /\ Lead[c] = on[w] /\ InLoop(w)
  BY <1>1, AheadFacts DEF InLoop
<1>4. Recalls(w, c)
  BY <1>1, <1>3 DEF NowInv, Recalling
<1>5. lead[w].stage = stage[Lead[c]] /\ lead[w].contacts = attached[Lead[c]]
  <2>1. Now(w) /\ c \notin disturbed
    BY DEF NowInv, Excused
  <2>2. lead[w] = Snapshot(stage[Lead[c]], attached[Lead[c]])
    BY <1>3, <2>1 DEF Now, Knows
  <2> QED
    BY <2>2 DEF Snapshot
<1>6. rows[w][c].status \in Statuses /\ row[c].status \in Statuses
  <2>1. rows[w][c] \in Row /\ row[c] \in Row
    BY DEF Typed, LocalType, RowType
  <2> QED
    BY <2>1, RowFacts
<1>7. KCStage(w, "closed") <=> Lead[c] \in KC /\ stage[Lead[c]] = "closed"
  BY <1>3, <1>5 DEF KCStage
<1>8. Attached(w, c) <=> Effective[c] \in attached[Lead[c]]
  BY <1>5 DEF Attached
<1>9. CASE KCStage(w, "closed")
  BY <1>2, <1>4, <1>7, <1>9, DataFacts DEF Settled, Refused, Approved, Recalls
<1>10. CASE ~KCStage(w, "closed") /\ ~Attached(w, c)
  BY <1>2, <1>4, <1>6, <1>7, <1>8, <1>10, DataFacts DEF Settled, Refused, Approved, Recalls, Statuses
<1>11. CASE ~KCStage(w, "closed") /\ Attached(w, c)
  <2>1. ~Refused(w, c)
    BY <1>11 DEF Refused
  <2>2. CASE Approved(w, c)
    BY <1>2, <1>7, <1>8, <1>11, <2>1, <2>2, DataFacts DEF Settled
  <2>3. CASE ~Approved(w, c)
    <3>1. row'[c] = row[c]
      BY <1>2, <2>1, <2>3
    <3>2. rows[w][c].status \in {"CU", "EXPIRED"} \/ Waits(rows[w][c])
      BY <1>6, <1>11, <2>3 DEF Approved, Statuses
    <3>3. row[c].status \in {"CU", "EXPIRED"} \/ Waits(row[c])
      BY <1>4, <3>2 DEF Recalls
    <3> QED
      BY <1>2, <1>7, <1>8, <1>11, <3>1, <3>3 DEF Settled, Waits
  <2> QED
    BY <2>2, <2>3
<1> QED
  BY <1>9, <1>10, <1>11

LEMMA HandVerdict ==
  ASSUME Typed, TaskInv, VerdictInv, ByHand
  PROVE  VerdictInv'
<1>1. \A w \in Workers : Still(w) /\ ToJudge(w)' = ToJudge(w)
  BY StillFacts DEF ByHand, Still
<1>2. Concerned' \subseteq Concerned \ overruled'
  BY DEF ByHand, Concerned, Excused
<1>3. ASSUME NEW c \in Concerned' PROVE Judged(c)'
  <2>1. Judged(c) /\ c \in Clients \ overruled'
    BY <1>2, <1>3 DEF VerdictInv, Concerned
  <2>2. Settled(c) => Settled(c)'
    BY <2>1 DEF ByHand, Settled, Waits
  <2> QED
    BY <1>1, <2>1, <2>2 DEF Judged, ByHand
<1>4. ASSUME NEW w \in Workers PROVE Yielding(w)'
  BY <1>2, YieldingStays DEF VerdictInv, ByHand
<1> QED
  BY <1>3, <1>4 DEF VerdictInv

LEMMA ChangeVerdict ==
  ASSUME Typed, TaskInv, VerdictInv, NEW l \in Leads, LeadChanges(l)
  PROVE  VerdictInv'
<1>1. \A w \in Workers : Still(w) /\ ToJudge(w)' = ToJudge(w)
  BY StillFacts DEF LeadChanges, locals, Still
<1>2. row' = row /\ Concerned' = Concerned /\ Concerned \subseteq Clients
  BY DEF LeadChanges, Concerned, Excused
<1>3. \A k \in Leads : \/ events'[k] > 0
                       \/ events'[k] = events[k] /\ stage'[k] = stage[k] /\ attached'[k] = attached[k]
  BY ChangesTyped
<1>4. \A c \in Clients : Lead[c] \in Leads
  BY LeadFacts
<1>5. ASSUME NEW c \in Concerned PROVE Judged(c)'
  BY <1>1, <1>2, <1>3, <1>4, JudgedStays DEF VerdictInv
<1>6. ASSUME NEW w \in Workers PROVE Yielding(w)'
  BY <1>1, <1>2, <1>3, <1>4, YieldingStays DEF VerdictInv, Still
<1> QED
  BY <1>2, <1>5, <1>6 DEF VerdictInv

\* A request that is about to write a client keeps what it knows about it.
LEMMA OthersYield ==
  ASSUME Typed, TaskInv, AloneInv, VerdictInv, NEW w \in Workers, Handle(w),
         NEW v \in Workers \ {w}
  PROVE  Yielding(v)'
<1>1. Still(v) /\ Yielding(v) /\ on[v] \in Leads
  BY TaskStep, OthersStill DEF VerdictInv, Typed, LocalType
<1>2. CASE pc[v] \in {"lifting", "excepting"}
  <2>1. ASSUME NEW c \in todo[v] \cap Concerned'
        PROVE  /\ c \in Concerned
               /\ events'[Lead[c]] = events[Lead[c]] /\ stage' = stage /\ attached' = attached
    <3>1. c \in Clients /\ c \in ToWrite(v) /\ c \notin disturbed' /\ c \notin overruled' /\ c \notin Sold
      BY <1>2, <2>1, AheadFacts DEF Concerned, Excused
    <3>2. c \notin disturbed /\ c \notin overruled
      BY <3>1, Untouched
    <3>3. ASSUME NEW l \in Leads, Receive(w, l) PROVE events'[Lead[c]] = events[Lead[c]]
      <4>1. c \notin LinkedTo(l)
        BY <3>1, <3>3, ReceiveTyped DEF Contested
      <4>2. Lead[c] # l /\ Lead[c] \in Leads
        BY <3>1, <4>1, LeadFacts DEF LinkedTo
      <4> QED
        BY <3>3, <4>2, ReceiveTyped
    <3>4. ASSUME events' = events PROVE events'[Lead[c]] = events[Lead[c]]
      BY <3>4
    <3>5. events'[Lead[c]] = events[Lead[c]]
      BY <3>3, <3>4 DEF Handle, FindClients, TakeClient, SaveMeeting, LoseMeeting, Judge,
         FindOthers, WriteOther, NoOthers, OthersDone, Fail, amo
    <3>6. stage' = stage /\ attached' = attached
      BY DEF Handle, Receive, FindClients, TakeClient, SaveMeeting, LoseMeeting, Judge,
         FindOthers, WriteOther, NoOthers, OthersDone, Fail, amo
    <3> QED
      BY <3>1, <3>2, <3>5, <3>6 DEF Concerned, Excused
  <2> QED
    BY <1>1, <2>1, YieldingStays DEF Still
<1>3. CASE pc[v] \notin {"lifting", "excepting"}
  BY <1>1, <1>3 DEF Yielding, Still
<1> QED
  BY <1>2, <1>3

\* The steps that leave the rows alone, and the lead of whoever is not judged.
LEMMA QuietVerdict ==
  ASSUME Typed, TaskInv, AloneInv, VerdictInv, NEW w \in Workers, Handle(w),
         UNCHANGED <<stage, attached, row>>,
         \A c \in Concerned' : c \in Concerned \/ c \in ToJudge(w)',
         \A c \in Concerned' :
            c \in ToJudge(w)' \/ (events'[Lead[c]] = events[Lead[c]] /\ c \notin ToJudge(w))
  PROVE  \A c \in Concerned' : Judged(c)'
<1> SUFFICES ASSUME NEW c \in Concerned', c \notin ToJudge(w)' PROVE Judged(c)'
  BY DEF Judged
<1>1. c \in Concerned /\ c \in Clients /\ Judged(c)
      /\ events'[Lead[c]] = events[Lead[c]] /\ c \notin ToJudge(w)
  BY DEF VerdictInv, Concerned
<1>2. \A v \in Workers \ {w} : ToJudge(v)' = ToJudge(v)
  BY TaskStep, OthersStill, StillFacts
<1> QED
  BY <1>1, <1>2, JudgedStays

\* What a client is that was found among the others of the phone.
LEMMA FoundEntitled ==
  ASSUME VerdictInv, NEW c \in Concerned, events[Lead[c]] = 0,
         \A w \in Workers : c \notin ToJudge(w),
         Waits(row[c]) \/ row[c].status = "CU"
  PROVE  Entitled(c)
<1>1. Settled(c)
  BY DEF VerdictInv, Judged
<1> QED
  BY <1>1 DEF Settled, Entitled, Waits

LEMMA FindOthersVerdict ==
  ASSUME Typed, TaskInv, AloneInv, VerdictInv, NEW w \in Workers, FindOthers(w)
  PROVE  (\A c \in Concerned' : Judged(c)') /\ Yielding(w)'
<1>1. /\ pc[w] = "clients" /\ todo[w] = {} /\ UNCHANGED <<amo, row, meeting, hand>>
      /\ disturbed' = disturbed \cup Contested(todo'[w])
      /\ \/ pc'[w] = "lifting" /\ todo'[w] = {c \in Clients : Waits(row[c])}
         \/ pc'[w] = "excepting" /\ \A c \in todo'[w] : row[c].status = "CU"
         \/ pc'[w] = "rejecting"
      /\ todo'[w] \subseteq Clients
  BY FindOthersTyped DEF Typed, LocalType
<1>2. Concerned' \subseteq Concerned
  BY <1>1 DEF Concerned, Excused, hand
<1>3. ToJudge(w) = {} /\ Handle(w)
  BY <1>1, AheadFacts DEF Handle
<1>4. \A c \in Concerned' : Judged(c)'
  BY <1>1, <1>2, <1>3, QuietVerdict DEF amo
<1>5. ASSUME NEW c \in todo'[w], c \in Concerned', events[Lead[c]] = 0,
             pc'[w] \in {"lifting", "excepting"}
      PROVE  Entitled(c)
  <2>1. \A v \in Workers : c \notin ToWrite(v)
    BY <1>1, <1>5 DEF Contested, Concerned, Excused
  <2>2. \A v \in Workers : c \notin ToJudge(v)
    BY <2>1, AheadFacts
  <2> QED
    BY <1>1, <1>2, <1>5, <2>2, FoundEntitled
<1>6. \A c \in Clients : Entitled(c)' <=> Entitled(c)
  BY <1>1 DEF Entitled, amo
<1>7. Yielding(w)'
  BY <1>1, <1>5, <1>6 DEF Yielding, amo
<1> QED
  BY <1>4, <1>7

LEMMA WriteOtherVerdict ==
  ASSUME Typed, TaskInv, AloneInv, VerdictInv, NEW w \in Workers, NEW c \in Clients, WriteOther(w, c)
  PROVE  (\A d \in Concerned' : Judged(d)') /\ Yielding(w)'
<1>1. /\ c \in todo[w] /\ pc'[w] = pc[w] /\ todo'[w] = todo[w] \ {c}
      /\ UNCHANGED <<amo, hand, disturbed>>
      /\ \A d \in Clients \ {c} : row'[d] = row[d]
      /\ \/ pc[w] = "lifting" /\ row'[c] = Granted
         \/ pc[w] = "excepting" /\ row'[c] = Excepted
         \/ pc[w] = "rejecting" /\ row'[c] = Uniqueness("REJECTED", "deal", "none")
  BY WriteOtherTyped
<1>2. Concerned' = Concerned /\ Concerned \subseteq Clients
  BY <1>1 DEF Concerned, Excused, hand
<1>3. ToJudge(w) = {} /\ \A v \in Workers \ {w} : ToJudge(v)' = ToJudge(v)
  BY <1>1, AheadFacts, WriteOtherTyped, OthersStill, StillFacts DEF InLoop
<1>4. ASSUME NEW d \in Concerned \ {c} PROVE Judged(d)'
  <2>1. Judged(d) /\ row'[d] = row[d] /\ d \in Clients
    BY <1>1, <1>2 DEF VerdictInv
  <2> QED
    BY <1>1, <1>3, <2>1, JudgedStays DEF amo
<1>5. ASSUME c \in Concerned, events[Lead[c]] = 0 PROVE Settled(c)'
  <2>1. CASE pc[w] \in {"lifting", "excepting"}
    <3>1. Entitled(c) /\ stage' = stage /\ attached' = attached
      BY <1>1, <1>5, <2>1 DEF VerdictInv, Yielding, amo
    <3>2. row'[c].status = "CU" \/ Waits(row'[c])
      BY <1>1, <2>1, DataFacts DEF Waits
    <3> QED
      BY <3>1, <3>2 DEF Entitled, Settled, Waits
  <2>2. CASE row'[c] = Uniqueness("REJECTED", "deal", "none")
    BY <2>2 DEF Settled, Uniqueness
  <2> QED
    BY <1>1, <2>1, <2>2
<1>6. c \in Concerned => Judged(c)'
  BY <1>1, <1>5 DEF Judged, amo
<1>7. Yielding(w)'
  BY <1>1, <1>2, YieldingStays DEF VerdictInv, amo
<1> QED
  BY <1>2, <1>4, <1>6, <1>7

LEMMA JudgeVerdict ==
  ASSUME Typed, TaskInv, AloneInv, NowInv, VerdictInv, NEW w \in Workers, Judge(w)
  PROVE  \A c \in Concerned' : Judged(c)'
<1>1. /\ pc[w] = "verdict" /\ pc'[w] = "clients" /\ client[w] \in Clients
      /\ UNCHANGED <<amo, hand, disturbed>> /\ todo'[w] = todo[w]
      /\ \A d \in Clients \ {client[w]} : row'[d] = row[d]
  BY JudgeTyped
<1>2. ToJudge(w) = todo[w] \cup {client[w]} /\ ToJudge(w)' = todo[w]
  BY <1>1, AheadFacts DEF ToJudge, Ahead, InLoop
<1>3. \A v \in Workers \ {w} : ToJudge(v)' = ToJudge(v)
  BY JudgeTyped, OthersStill, StillFacts
<1>4. Concerned' = Concerned /\ Concerned \subseteq Clients \ Excused
  BY <1>1 DEF Concerned, Excused, hand
<1>5. ASSUME NEW c \in Concerned, c # client[w] PROVE Judged(c)'
  <2>1. Judged(c) /\ c \in Clients /\ row'[c] = row[c]
    BY <1>1, <1>4, <1>5 DEF VerdictInv
  <2> QED
    BY <1>1, <1>2, <1>3, <1>5, <2>1, JudgedStays DEF amo
<1>6. ASSUME NEW c \in Concerned, c = client[w] PROVE Judged(c)'
  BY <1>1, <1>4, <1>6, JudgeSettles DEF Judged, amo
<1> QED
  BY <1>4, <1>5, <1>6

LEMMA OwnVerdict ==
  ASSUME Typed, TaskInv, AloneInv, NowInv, VerdictInv, NEW w \in Workers, Handle(w)
  PROVE  (\A c \in Concerned' : Judged(c)') /\ Yielding(w)'
<1>1. ASSUME NEW l \in Leads, Receive(w, l) PROVE (\A c \in Concerned' : Judged(c)') /\ Yielding(w)'
  <2>1. /\ UNCHANGED <<stage, attached, row>>
        /\ pc[w] = "idle" /\ pc'[w] = "findClients" /\ on'[w] = l
        /\ \A k \in Leads \ {l} : events'[k] = events[k]
        /\ overruled' = overruled \ LinkedTo(l)
        /\ disturbed' = (disturbed \ LinkedTo(l)) \cup Contested(LinkedTo(l))
    BY <1>1, ReceiveTyped
  <2>2. ToJudge(w) = {} /\ ToJudge(w)' = LinkedTo(l) \ Sold
    BY <2>1, AheadFacts DEF InLoop, ToJudge, Ahead, LinkedTo
  <2>3. ASSUME NEW c \in Concerned', c \notin ToJudge(w)'
        PROVE  c \in Concerned /\ events'[Lead[c]] = events[Lead[c]]
    <3>1. c \in Clients \ Sold /\ c \notin LinkedTo(l)
      BY <2>2, <2>3 DEF Concerned
    <3>2. Lead[c] \in Leads \ {l}
      BY <3>1, LeadFacts DEF LinkedTo
    <3> QED
      BY <2>1, <2>3, <3>1, <3>2 DEF Concerned, Excused
  <2> QED
    BY <2>1, <2>2, <2>3, QuietVerdict DEF Yielding
<1>2. CASE FindClients(w)
  <2>1. ToJudge(w)' = ToJudge(w)
    BY <1>2, FindClientsTyped DEF ToJudge, Ahead, InLoop, LinkedTo
  <2>2. Concerned' = Concerned /\ UNCHANGED <<stage, attached, row, events>> /\ pc'[w] = "clients"
    BY <1>2, FindClientsTyped DEF amo, hand, Concerned, Excused
  <2> QED
    BY <2>1, <2>2, QuietVerdict DEF Yielding
<1>3. ASSUME NEW c \in Clients, TakeClient(w, c)
      PROVE (\A d \in Concerned' : Judged(d)') /\ Yielding(w)'
  <2>1. ToJudge(w)' = ToJudge(w)
    <3>1. /\ pc[w] = "clients" /\ c \in todo[w] /\ todo'[w] = todo[w] \ {c}
          /\ client'[w] = c /\ pc'[w] \in {"meeting", "verdict"}
      BY <1>3, TakeClientTyped
    <3>2. ToJudge(w) = todo[w] /\ ToJudge(w)' = (todo[w] \ {c}) \cup {c}
      BY <3>1 DEF ToJudge, Ahead, InLoop
    <3> QED
      BY <3>1, <3>2
  <2>2. /\ Concerned' = Concerned /\ UNCHANGED <<stage, attached, row, events>>
        /\ pc'[w] \in {"meeting", "verdict"}
    BY <1>3, TakeClientTyped DEF amo, hand, Concerned, Excused
  <2> QED
    BY <2>1, <2>2, QuietVerdict DEF Yielding
<1>4. CASE SaveMeeting(w) \/ LoseMeeting(w)
  <2>1. ToJudge(w)' = ToJudge(w)
    BY <1>4, SaveMeetingTyped, LoseMeetingTyped DEF ToJudge, Ahead, InLoop
  <2>2. Concerned' = Concerned /\ UNCHANGED <<stage, attached, row, events>> /\ pc'[w] = "verdict"
    BY <1>4, SaveMeetingTyped, LoseMeetingTyped DEF amo, hand, Concerned, Excused
  <2> QED
    BY <2>1, <2>2, QuietVerdict DEF Yielding
<1>5. CASE Judge(w)
  BY <1>5, JudgeVerdict, JudgeTyped DEF Yielding
<1>6. CASE NoOthers(w) \/ OthersDone(w) \/ Fail(w)
  <2>1. /\ pc'[w] = "idle" /\ UNCHANGED <<stage, attached, events, row, overruled>>
        /\ disturbed \subseteq disturbed' /\ (ToWrite(w) \subseteq disturbed' \/ ToJudge(w) = {})
    BY <1>6, EndTyped, AheadFacts DEF InLoop
  <2>2. \A c \in Concerned' : c \in Concerned /\ c \notin ToJudge(w)
    BY <2>1, AheadFacts DEF Concerned, Excused
  <2> QED
    BY <2>1, <2>2, QuietVerdict DEF Yielding
<1> QED
  BY <1>1, <1>2, <1>3, <1>4, <1>5, <1>6, FindOthersVerdict, WriteOtherVerdict DEF Handle

LEMMA AlwaysVerdict == Spec => []VerdictInv
<1>1. Init => VerdictInv
  <2> SUFFICES ASSUME Init PROVE VerdictInv
    OBVIOUS
  <2>1. \A l \in Leads : events[l] = 1
    BY DEF Init
  <2>2. \A w \in Workers : pc[w] = "idle"
    BY DEF Init
  <2>3. \A c \in Clients : Lead[c] \in Leads
    BY LeadFacts
  <2> QED
    BY <2>1, <2>2, <2>3 DEF VerdictInv, Judged, Yielding, Concerned
<1>2. Typed /\ TaskInv /\ AloneInv /\ NowInv /\ VerdictInv /\ [Next]_vars => VerdictInv'
  <2> SUFFICES ASSUME Typed, TaskInv, AloneInv, NowInv, VerdictInv, [Next]_vars PROVE VerdictInv'
    OBVIOUS
  <2>1. CASE UNCHANGED vars
    <3>1. \A w \in Workers : Still(w) /\ ToJudge(w)' = ToJudge(w)
      BY <2>1, StillFacts DEF vars, Still
    <3>2. UNCHANGED <<stage, attached, events, row, pc, todo>> /\ Concerned' = Concerned
      BY <2>1 DEF vars, Concerned, Excused
    <3>3. ASSUME NEW c \in Concerned PROVE Judged(c)'
      BY <3>1, <3>2, JudgedStays DEF VerdictInv, Concerned
    <3>4. ASSUME NEW w \in Workers PROVE Yielding(w)'
      BY <3>2, YieldingStays DEF VerdictInv
    <3> QED
      BY <3>2, <3>3, <3>4 DEF VerdictInv
  <2>2. ASSUME NEW l \in Leads, LeadChanges(l) PROVE VerdictInv'
    BY <2>2, ChangeVerdict
  <2>3. ASSUME NEW w \in Workers, Handle(w) PROVE VerdictInv'
    BY <2>3, OwnVerdict, OthersYield DEF VerdictInv
  <2>4. ASSUME ByHand PROVE VerdictInv'
    BY <2>4, HandVerdict
  <2> QED
    BY <2>1, <2>2, <2>3, <2>4, PeopleEffect, ExpireEffect DEF Next
<1> QED
  BY <1>1, <1>2, AlwaysTyped, AlwaysTask, AlwaysAlone, AlwaysNow, PTL DEF Spec

\* However the requests are interleaved: when every event was delivered and
\* handled, the contacts of the lead have decided on each client that nobody
\* disturbed or overruled since its last event, whatever became of the meetings
\* and whatever the job, the brokers and the other leads of the phone did.
THEOREM ContactsDecide == Spec => []VerdictFollowsLead
<1>1. Typed /\ TaskInv /\ VerdictInv => VerdictFollowsLead
  <2> SUFFICES ASSUME Typed, TaskInv, VerdictInv, Quiet, NEW c \in Concerned PROVE Settled(c)
    BY DEF VerdictFollowsLead, Settled, Concerned, Excused
  <2>1. events[Lead[c]] = 0 /\ \A w \in Workers : pc[w] = "idle"
    BY LeadFacts DEF Quiet, Concerned
  <2>2. \A w \in Workers : ToJudge(w) = {}
    BY <2>1, AheadFacts DEF InLoop
  <2> QED
    BY <2>1, <2>2 DEF VerdictInv, Judged
<1> QED
  BY <1>1, AlwaysTyped, AlwaysTask, AlwaysVerdict, PTL

-----------------------------------------------------------------------------
(* Exceptions wait: no step takes a client out of its review but for a      *)
(* reason that was there.                                                  *)

WaitsOrLeaves(c) ==
  Waits(row[c]) /\ ~Waits(row'[c]) =>
     \/ row'[c].status = "REJECTED"
     \/ c \in overruled' \cup disturbed
     \/ /\ row'[c].status = "CU"
        /\ \/ reached[Lead[c]] \cap LiftStages # {}
           \/ \E l \in Leads : "closed" \in reached[l]

LEMMA JudgeWaits ==
  ASSUME Typed, TaskInv, NowInv, NEW w \in Workers, Judge(w), NEW c \in Clients
  PROVE  WaitsOrLeaves(c)
<1> SUFFICES ASSUME c = client[w], Waits(row[c]), c \notin Excused PROVE WaitsOrLeaves(c)
  <2>1. overruled' = overruled /\ (c # client[w] => row'[c] = row[c])
    BY JudgeTyped DEF hand
  <2> QED
    BY <2>1 DEF WaitsOrLeaves, Excused
<1>1. /\ pc[w] = "verdict"
      /\ row'[c] = IF Refused(w, c) THEN Rejected
                   ELSE IF Approved(w, c) THEN Granted ELSE row[c]
  BY JudgeTyped
<1>2. c \in ToJudge(w) /\ Lead[c] = on[w] /\ InLoop(w)
  BY <1>1, AheadFacts DEF InLoop
<1>3. Waits(rows[w][c])
  <2>1. Recalls(w, c)
    BY <1>2 DEF NowInv, Recalling
  <2> QED
    BY <2>1 DEF Recalls, Waits
<1>4. Approved(w, c) => lead[w].stage \in LiftStages
  BY <1>3 DEF Approved
<1>5. lead[w].stage \in reached[Lead[c]]
  BY <1>1, <1>2 DEF TaskInv, Task
<1>6. Approved(w, c) => reached[Lead[c]] \cap LiftStages # {}
  BY <1>4, <1>5
<1> QED
  BY <1>1, <1>6, DataFacts DEF WaitsOrLeaves

LEMMA WriteWaits ==
  ASSUME Typed, TaskInv, NEW w \in Workers, NEW c \in Clients, WriteOther(w, c), NEW d \in Clients
  PROVE  WaitsOrLeaves(d)
<1>1. /\ d # c => row'[d] = row[d]
      /\ \/ pc[w] = "lifting" /\ row'[c] = Granted
         \/ pc[w] = "excepting" /\ row'[c] = Excepted
         \/ pc[w] = "rejecting" /\ row'[c] = Uniqueness("REJECTED", "deal", "none")
  BY WriteOtherTyped
<1>2. pc[w] = "lifting" => \E l \in Leads : "closed" \in reached[l]
  <2>1. on[w] \in Leads
    BY DEF Typed, LocalType
  <2> QED
    BY <2>1 DEF TaskInv, Task
<1>3. Uniqueness("REJECTED", "deal", "none").status = "REJECTED" /\ Waits(Excepted)
  BY DEF Uniqueness, Waits, Excepted
<1> QED
  BY <1>1, <1>2, <1>3, DataFacts DEF WaitsOrLeaves

\* A client under review as an exception leaves it by a rejection, by somebody's
\* decision, or once its own lead was qualified or some lead closed with 143,
\* unless another request was about to write it when it was last turned to.
THEOREM ExceptionsWait == Spec => ExceptionWaits
<1>1. ASSUME Typed, TaskInv, NowInv, [Next]_vars, NEW c \in Clients PROVE WaitsOrLeaves(c)
  <2>1. CASE row' = row
    BY <2>1 DEF WaitsOrLeaves
  <2>2. ASSUME NEW l \in Leads, LeadChanges(l) PROVE row' = row
    BY <2>2 DEF LeadChanges
  <2>3. ASSUME NEW w \in Workers, Handle(w) PROVE WaitsOrLeaves(c)
    <3>1. CASE Judge(w)
      BY <1>1, <3>1, JudgeWaits
    <3>2. ASSUME NEW d \in Clients, WriteOther(w, d) PROVE WaitsOrLeaves(c)
      BY <1>1, <3>2, WriteWaits
    <3>3. CASE row' # row
      BY <2>3, <3>1, <3>2, <3>3 DEF Handle, Receive, FindClients, TakeClient, SaveMeeting,
        LoseMeeting, FindOthers, NoOthers, OthersDone, Fail
    <3> QED
      BY <2>1, <3>3
  <2>4. ASSUME ByHand PROVE WaitsOrLeaves(c)
    BY <2>4 DEF ByHand, WaitsOrLeaves, Waits
  <2> QED
    BY <1>1, <2>1, <2>2, <2>3, <2>4, PeopleEffect, ExpireEffect DEF Next, vars
<1>2. Typed /\ TaskInv /\ NowInv /\ [Next]_vars =>
        [\A c \in Clients : Waits(row[c]) /\ ~Waits(row'[c]) =>
           \/ row'[c].status = "REJECTED"
           \/ c \in overruled' \cup disturbed
           \/ /\ row'[c].status = "CU"
              /\ \/ reached[Lead[c]] \cap LiftStages # {}
                 \/ \E l \in Leads : "closed" \in reached[l]]_vars
  BY <1>1 DEF WaitsOrLeaves
<1> QED
  BY <1>2, AlwaysTyped, AlwaysTask, AlwaysNow, PTL DEF Spec, ExceptionWaits

-----------------------------------------------------------------------------
(* The meeting.  That of a client of whose lead no event is to come is as   *)
(* the lead says, or is about to be.                                       *)

\* The claim of MeetingFollowsLead on one client.
Met(c) ==
  /\ Lead[c] \in KC /\ stage[Lead[c]] = "held" =>
       \E i \in DOMAIN meeting[c] : meeting[c][i] = "held"
  /\ Lead[c] \in KC /\ stage[Lead[c]] = "closed" =>
       \A i \in DOMAIN meeting[c] : meeting[c][i] = "cancelled"

Imported(c) == events[Lead[c]] = 0 => Met(c) \/ \E w \in Workers : c \in ToImport(w)

Minded == Clients \ (Sold \cup disturbed \cup unsaved)

ImportInv == \A c \in Minded : Imported(c)

LEMMA ImportedStays ==
  ASSUME NEW c \in Clients, Imported(c), meeting'[c] = meeting[c],
         \/ events'[Lead[c]] > 0
         \/ events'[Lead[c]] = events[Lead[c]] /\ stage'[Lead[c]] = stage[Lead[c]],
         \A w \in Workers : c \in ToImport(w) => c \in ToImport(w)'
  PROVE  Imported(c)'
BY DEF Imported, Met

\* A step beside the requests.
LEMMA AsideImport ==
  ASSUME Typed, ImportInv, UNCHANGED <<meeting, disturbed, unsaved>>,
         UNCHANGED <<pc, on, lead, rows, todo, client, found>>,
         \A c \in Clients :
            \/ events'[Lead[c]] > 0
            \/ events'[Lead[c]] = events[Lead[c]] /\ stage'[Lead[c]] = stage[Lead[c]]
  PROVE  ImportInv'
<1>1. \A w \in Workers : ToImport(w)' = ToImport(w)
  BY StillFacts DEF Still
<1>2. Minded' = Minded /\ Minded \subseteq Clients
  BY DEF Minded
<1> QED
  BY <1>1, <1>2, ImportedStays DEF ImportInv

\* A step of w that sees to the meeting of no client but c at most.
LEMMA StepImport ==
  ASSUME Typed, TaskInv, ImportInv, NEW w \in Workers, Handle(w), NEW c \in Clients,
         UNCHANGED <<stage, events>>, Minded' \subseteq Minded \cup {c},
         \A d \in Clients \ {c} : meeting'[d] = meeting[d],
         \A d \in Minded' \ {c} : d \in ToImport(w) => d \in ToImport(w)',
         c \in Minded' => Imported(c)'
  PROVE  ImportInv'
<1> SUFFICES ASSUME NEW d \in Minded' \ {c} PROVE Imported(d)'
  BY DEF ImportInv
<1>1. d \in Clients /\ Imported(d)
  BY DEF Minded, ImportInv
<1>2. \A v \in Workers \ {w} : ToImport(v)' = ToImport(v)
  BY TaskStep, OthersStill, StillFacts
<1> QED
  BY <1>1, <1>2, ImportedStays

\* One that sees to no meeting.
LEMMA QuietImport ==
  ASSUME Typed, TaskInv, ImportInv, NEW w \in Workers, Handle(w),
         UNCHANGED <<stage, events, meeting>>, Minded' \subseteq Minded,
         \A c \in Minded' : c \in ToImport(w) => c \in ToImport(w)'
  PROVE  ImportInv'
<1> SUFFICES ASSUME NEW c \in Minded' PROVE Imported(c)'
  BY DEF ImportInv
<1>1. c \in Clients /\ Imported(c)
  BY DEF Minded, ImportInv
<1>2. \A v \in Workers \ {w} : ToImport(v)' = ToImport(v)
  BY TaskStep, OthersStill, StillFacts
<1> QED
  BY <1>1, <1>2, ImportedStays

\* The stage that a request knows is the one its client's lead is at.
LEMMA KnownStage ==
  ASSUME Typed, TaskInv, NowInv, NEW w \in Workers, NEW c \in ToJudge(w),
         c \notin disturbed, events[Lead[c]] = 0
  PROVE  \A s \in Stages : KCStage(w, s) <=> Lead[c] \in KC /\ stage[Lead[c]] = s
<1>1. Lead[c] = on[w] /\ Now(w)
  BY AheadFacts DEF NowInv
<1>2. lead[w] = Snapshot(stage[Lead[c]], attached[Lead[c]])
  BY <1>1 DEF Now, Knows
<1>3. lead[w].stage = stage[Lead[c]]
  BY <1>2 DEF Snapshot
<1> QED
  BY <1>1, <1>3 DEF KCStage

LEMMA TakeImport ==
  ASSUME Typed, TaskInv, NowInv, ImportInv, NEW w \in Workers, NEW c \in Clients, TakeClient(w, c)
  PROVE  ImportInv'
<1>1. /\ pc[w] = "clients" /\ c \in todo[w] /\ todo'[w] = todo[w] \ {c} /\ client'[w] = c
      /\ pc'[w] = IF KCStage(w, "held") \/ KCStage(w, "closed") THEN "meeting" ELSE "verdict"
      /\ UNCHANGED <<stage, events, meeting, disturbed, unsaved>>
  BY TakeClientTyped DEF amo
<1>2. Minded' = Minded
  BY <1>1 DEF Minded
<1>3. ToImport(w) = todo[w] /\ todo[w] \ {c} \subseteq ToImport(w)'
  BY <1>1 DEF ToImport, Ahead, InLoop
<1>4. ASSUME c \in Minded, events[Lead[c]] = 0 PROVE Met(c)' \/ c \in ToImport(w)'
  <2>1. c \in ToJudge(w) /\ c \notin disturbed /\ "held" \in Stages /\ "closed" \in Stages
    BY <1>1, <1>4, AheadFacts DEF Minded, Stages
  <2>2. CASE KCStage(w, "held") \/ KCStage(w, "closed")
    BY <1>1, <2>2 DEF ToImport, Ahead, InLoop
  <2>3. CASE ~(KCStage(w, "held") \/ KCStage(w, "closed"))
    BY <1>1, <1>4, <2>1, <2>3, KnownStage DEF Met
  <2> QED
    BY <2>2, <2>3
<1>5. c \in Minded' => Imported(c)'
  BY <1>1, <1>2, <1>4 DEF Imported
<1> QED
  BY <1>1, <1>2, <1>3, <1>5, StepImport DEF Handle

LEMMA SaveImport ==
  ASSUME Typed, TaskInv, NowInv, ImportInv, NEW w \in Workers, SaveMeeting(w)
  PROVE  ImportInv'
<1>1. PICK c \in Clients :
        /\ c = client[w] /\ pc[w] = "meeting" /\ pc'[w] = "verdict" /\ todo'[w] = todo[w]
        /\ \A d \in Clients \ {c} : meeting'[d] = meeting[d]
        /\ IF KCStage(w, "closed") THEN \A i \in DOMAIN meeting'[c] : meeting'[c][i] = "cancelled"
                                   ELSE \E i \in DOMAIN meeting'[c] : meeting'[c][i] = "held"
        /\ unsaved' = unsaved \ {c} /\ UNCHANGED <<stage, events, disturbed>>
  BY SaveMeetingTyped DEF amo
<1>2. Minded' \subseteq Minded \cup {c} /\ (c \in Minded' => c \notin disturbed)
  BY <1>1 DEF Minded
<1>3. ToImport(w) = todo[w] \cup {c} /\ ToImport(w)' = todo[w]
  BY <1>1 DEF ToImport, Ahead, InLoop
<1>4. ASSUME c \in Minded', events[Lead[c]] = 0 PROVE Met(c)'
  <2>1. c \in ToJudge(w) /\ "held" \in Stages /\ "closed" \in Stages
    BY <1>1, AheadFacts DEF Stages
  <2>2. /\ KCStage(w, "closed") <=> Lead[c] \in KC /\ stage'[Lead[c]] = "closed"
        /\ KCStage(w, "held") <=> Lead[c] \in KC /\ stage'[Lead[c]] = "held"
    BY <1>1, <1>2, <1>4, <2>1, KnownStage
  <2> QED
    BY <1>1, <2>2 DEF Met
<1>5. c \in Minded' => Imported(c)'
  BY <1>1, <1>4 DEF Imported
<1> QED
  BY <1>1, <1>2, <1>3, <1>5, StepImport DEF Handle

LEMMA OwnImport ==
  ASSUME Typed, TaskInv, AloneInv, NowInv, ImportInv, NEW w \in Workers, Handle(w)
  PROVE  ImportInv'
<1>1. ASSUME NEW l \in Leads, Receive(w, l) PROVE ImportInv'
  <2>1. /\ UNCHANGED <<stage, meeting, unsaved>>
        /\ pc[w] = "idle" /\ pc'[w] = "findClients" /\ on'[w] = l
        /\ \A k \in Leads \ {l} : events'[k] = events[k]
        /\ disturbed' = (disturbed \ LinkedTo(l)) \cup Contested(LinkedTo(l))
    BY <1>1, ReceiveTyped
  <2>2. ToImport(w) = {} /\ ToImport(w)' = LinkedTo(l) \ Sold
    BY <2>1 DEF InLoop, ToImport, Ahead, LinkedTo
  <2>3. \A v \in Workers \ {w} : ToImport(v)' = ToImport(v)
    BY <1>1, ReceiveTyped, OthersStill, StillFacts
  <2>4. ASSUME NEW c \in Minded' PROVE Imported(c)'
    <3>1. c \in Clients \ Sold
      BY <2>4 DEF Minded
    <3>2. CASE c \in LinkedTo(l)
      BY <2>2, <3>1, <3>2 DEF Imported
    <3>3. CASE c \notin LinkedTo(l)
      <4>1. Imported(c)
        BY <2>1, <2>4, <3>1, <3>3 DEF Minded, ImportInv
      <4>2. Lead[c] \in Leads \ {l}
        BY <3>1, <3>3, LeadFacts DEF LinkedTo
      <4> QED
        BY <2>1, <2>2, <2>3, <3>1, <4>1, <4>2, ImportedStays
    <3> QED
      BY <3>2, <3>3
  <2> QED
    BY <2>4 DEF ImportInv
<1>2. CASE FindClients(w)
  <2>1. ToImport(w)' = ToImport(w) /\ UNCHANGED <<stage, events, meeting, disturbed, unsaved>>
    BY <1>2, FindClientsTyped DEF ToImport, Ahead, InLoop, LinkedTo, amo
  <2> QED
    BY <2>1, QuietImport DEF Minded
<1>3. CASE LoseMeeting(w)
  <2>1. /\ pc[w] = "meeting" /\ pc'[w] = "verdict" /\ todo'[w] = todo[w]
        /\ unsaved' = unsaved \cup {client[w]} /\ UNCHANGED <<stage, events, meeting, disturbed>>
    BY <1>3, LoseMeetingTyped DEF amo
  <2>2. ToImport(w) = todo[w] \cup {client[w]} /\ ToImport(w)' = todo[w]
    BY <2>1 DEF ToImport, Ahead, InLoop
  <2>3. Minded' \subseteq Minded /\ client[w] \notin Minded'
    BY <2>1 DEF Minded
  <2> QED
    BY <2>1, <2>2, <2>3, QuietImport
<1>4. CASE Judge(w)
  <2>1. ToImport(w)' = ToImport(w) /\ UNCHANGED <<stage, events, meeting, disturbed, unsaved>>
    BY <1>4, JudgeTyped DEF ToImport, Ahead, InLoop, amo
  <2> QED
    BY <2>1, QuietImport DEF Minded
<1>5. CASE FindOthers(w)
  <2>1. /\ ToImport(w) = {} /\ UNCHANGED <<stage, events, meeting, unsaved>>
        /\ disturbed \subseteq disturbed'
    BY <1>5, FindOthersTyped DEF ToImport, Ahead, InLoop, amo
  <2>2. Minded' \subseteq Minded
    BY <2>1 DEF Minded
  <2> QED
    BY <2>1, <2>2, QuietImport DEF Minded
<1>6. ASSUME NEW c \in Clients, WriteOther(w, c) PROVE ImportInv'
  <2>1. ToImport(w) = {} /\ UNCHANGED <<stage, events, meeting, disturbed, unsaved>>
    BY <1>6, WriteOtherTyped DEF ToImport, Ahead, InLoop, amo
  <2> QED
    BY <2>1, QuietImport DEF Minded
<1>7. CASE NoOthers(w) \/ OthersDone(w) \/ Fail(w)
  <2>1. /\ UNCHANGED <<stage, events, meeting, unsaved>> /\ disturbed \subseteq disturbed'
        /\ ToWrite(w) \subseteq disturbed' \/ ToJudge(w) = {}
    BY <1>7, EndTyped, AheadFacts DEF InLoop
  <2>2. Minded' \subseteq Minded /\ \A c \in Minded' : c \notin ToImport(w)
    BY <2>1, AheadFacts DEF Minded
  <2> QED
    BY <2>1, <2>2, QuietImport
<1> QED
  BY <1>1, <1>2, <1>3, <1>4, <1>5, <1>6, <1>7, TakeImport, SaveImport DEF Handle

LEMMA AlwaysImport == Spec => []ImportInv
<1>1. Init => ImportInv
  <2> SUFFICES ASSUME Init PROVE ImportInv
    OBVIOUS
  <2>1. \A c \in Minded : events[Lead[c]] = 1
    BY LeadFacts DEF Init, Minded
  <2> QED
    BY <2>1 DEF ImportInv, Imported
<1>2. Typed /\ TaskInv /\ AloneInv /\ NowInv /\ ImportInv /\ [Next]_vars => ImportInv'
  <2> SUFFICES ASSUME Typed, TaskInv, AloneInv, NowInv, ImportInv, [Next]_vars PROVE ImportInv'
    OBVIOUS
  <2>1. CASE UNCHANGED vars
    BY <2>1, AsideImport DEF vars
  <2>2. ASSUME NEW l \in Leads, LeadChanges(l) PROVE ImportInv'
    <3>1. UNCHANGED <<meeting, disturbed, unsaved, pc, on, lead, rows, todo, client, found>>
      BY <2>2 DEF LeadChanges, locals
    <3>2. \A c \in Clients : \/ events'[Lead[c]] > 0
                             \/ events'[Lead[c]] = events[Lead[c]] /\ stage'[Lead[c]] = stage[Lead[c]]
      BY <2>2, ChangesTyped, LeadFacts
    <3> QED
      BY <3>1, <3>2, AsideImport
  <2>3. ASSUME NEW w \in Workers, Handle(w) PROVE ImportInv'
    BY <2>3, OwnImport
  <2>4. ASSUME ByHand PROVE ImportInv'
    BY <2>4, AsideImport DEF ByHand
  <2> QED
    BY <2>1, <2>2, <2>3, <2>4, PeopleEffect, ExpireEffect DEF Next
<1> QED
  BY <1>1, <1>2, AlwaysTyped, AlwaysTask, AlwaysAlone, AlwaysNow, PTL DEF Spec

\* When every event was handled, a client has a held meeting if the call centre's
\* lead says so, and none but cancelled ones if that lead was closed, unless two
\* requests met on it or its own last meeting write failed.
THEOREM MeetingsAgree == Spec => []MeetingFollowsLead
<1>1. Typed /\ TaskInv /\ ImportInv => MeetingFollowsLead
  <2> SUFFICES ASSUME Typed, TaskInv, ImportInv, Quiet, NEW c \in Minded PROVE Met(c)
    BY DEF MeetingFollowsLead, Met, Minded
  <2>1. events[Lead[c]] = 0 /\ \A w \in Workers : pc[w] = "idle"
    BY LeadFacts DEF Quiet, Minded
  <2>2. \A w \in Workers : ToImport(w) = {}
    BY <2>1 DEF ToImport, Ahead, InLoop
  <2> QED
    BY <2>1, <2>2 DEF ImportInv, Imported
<1> QED
  BY <1>1, AlwaysTyped, AlwaysTask, AlwaysImport, PTL

=============================================================================
