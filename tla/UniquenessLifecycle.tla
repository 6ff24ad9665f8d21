------------------------ MODULE UniquenessLifecycle ------------------------
(***************************************************************************)
(* What happens to the uniqueness of a client after it was fixed.          *)
(*                                                                         *)
(* amoCRM posts an event whenever a lead changes; the event carries only   *)
(* the id that matters here.  A webhook request reads the lead, reads the  *)
(* rows of `clients` linked to it, and writes its verdict on each of them  *)
(* by id; then it looks for other rows of the same phone.  Every read and  *)
(* every write is awaited, so requests interleave, and the lead and the    *)
(* rows may change under all of them.  Beside them the hourly job expires  *)
(* the grants that lapsed, brokers extend theirs, and managers overrule.   *)
(*                                                                         *)
(* All clients of the model have one phone, each has a broker of its own.  *)
(***************************************************************************)
EXTENDS Naturals, FiniteSets, Sequences

CONSTANTS
    Workers,      \* webhook requests handled at one time
    Clients,      \* rows of `clients`
    NoClient,
    Leads, KC,    \* leads of amoCRM; those of the call centre's pipeline
    Lead,         \* Client.amoLeadId
    Brokers,      \* contacts of brokers in amoCRM
    Effective,    \* contact of the broker the uniqueness belongs to
    Team,         \* contacts of the creator and of the responsible broker
    Sold,         \* clients with a paid deal
    Nearby,       \* contacts that may be attached to each lead (bounds the model)
    Happenings    \* how often a lead changes, a date goes by, a broker extends, a
                  \* manager decides, or a request or a meeting fails (bounds it)

ASSUME ConstantsAssumption ==
    /\ NoClient \notin Clients
    /\ Leads # {} /\ KC \subseteq Leads
    /\ Lead \in [Clients -> Leads]
    /\ Effective \in [Clients -> Brokers]
    /\ Team \in [Clients -> SUBSET Brokers]
    /\ \A c \in Clients : Effective[c] \in Team[c]
    /\ \A c, d \in Clients :
           Lead[c] = Lead[d] /\ Effective[c] = Effective[d] => c = d
    /\ Sold \subseteq Clients
    /\ Nearby \in [Leads -> SUBSET Brokers]
    /\ \A c \in Clients : Effective[c] \in Nearby[Lead[c]]
    /\ Happenings \in Nat

VARIABLES
    stage, attached,   \* of each lead, in amoCRM
    reached,           \* the stages a lead has ever been at
    events,            \* per lead: events amoCRM has to deliver
    row,               \* uniqueness columns of each client
    meeting,           \* meetings imported from the client's lead
    pc, on, lead, rows, todo, client, found,   \* locals of a webhook request
    extending,         \* clients whose extension has passed its checks
    overruled,         \* history: clients somebody decided on, or whose mark an
                       \* extension erased, since an event of their lead was received
    disturbed,         \* history: clients whose last event was lost, or was
                       \* handled while another request was about to write them
    unsaved,           \* history: clients whose last meeting write failed
    happenings

amo    == <<stage, attached, reached, events>>
locals == <<pc, on, lead, rows, todo, client, found>>
hand   == <<extending, overruled, happenings>>
vars   == <<stage, attached, reached, events, row, meeting, pc, on, lead, rows,
            todo, client, found, extending, overruled, disturbed, unsaved,
            happenings>>

----------------------------------------------------------------------------
(* Data.                                                                   *)

\* Stages the code tells apart.  "held" and "closed" are 142 and 143.
StagesOf(l) == {"active", "held", "closed"}
               \cup (IF l \in KC THEN {"qualified"} ELSE {"thinking", "deal"})
\* exceptionLiftStatuses
LiftStages == {"qualified", "held"}

Statuses == {"CU", "UR", "REJECTED", "EXPIRED"}
\* What the code and the properties read in uniquenessReason.
Marks    == {"plain", "exception", "deal"}
Expiries == {"none", "future", "past"}
Row      == [status : Statuses, mark : Marks, expiry : Expiries]

Uniqueness(s, m, e) == [status |-> s, mark |-> m, expiry |-> e]
Granted  == Uniqueness("CU", "plain", "future")
Rejected == Uniqueness("REJECTED", "plain", "none")
Excepted == Uniqueness("UR", "exception", "none")
Waits(r) == r.status = "UR" /\ r.mark = "exception"

LinkedTo(l) == {c \in Clients : Lead[c] = l}
OnLead(c, contacts) == Team[c] \cap contacts # {}

AnyLead == CHOOSE l \in Leads : TRUE
Snapshot(s, contacts) == [stage |-> s, contacts |-> contacts]

\* The broker's contact is attached when the client is fixed.
Init ==
    /\ stage = [l \in Leads |-> "active"]
    /\ attached \in {f \in [Leads -> SUBSET Brokers] : \A l \in Leads : f[l] \subseteq Nearby[l]}
    /\ \A c \in Clients : Effective[c] \in attached[Lead[c]]
    /\ reached = [l \in Leads |-> {"active"}]
    /\ events = [l \in Leads |-> 1]
    /\ row \in [Clients -> {Granted, Excepted, Uniqueness("UR", "plain", "future")}]
    /\ meeting = [c \in Clients |-> <<>>]
    /\ pc = [w \in Workers |-> "idle"]
    /\ on = [w \in Workers |-> AnyLead]
    /\ lead = [w \in Workers |-> Snapshot("active", {})]
    /\ rows = [w \in Workers |-> [c \in Clients |-> Granted]]
    /\ todo = [w \in Workers |-> {}]
    /\ client = [w \in Workers |-> NoClient]
    /\ found = [w \in Workers |-> 0]
    /\ extending = {}
    /\ overruled = {} /\ disturbed = {} /\ unsaved = {}
    /\ happenings = 0

Happen == happenings < Happenings /\ happenings' = happenings + 1

----------------------------------------------------------------------------
(* amoCRM: a lead changes, and one more event about it is to be delivered. *)

Move(l, s) ==
    /\ s \in StagesOf(l) \ {stage[l]}
    /\ stage' = [stage EXCEPT ![l] = s]
    /\ reached' = [reached EXCEPT ![l] = @ \cup {s}]
    /\ UNCHANGED attached

AttachOrDetach(l, b) ==
    /\ attached' = [attached EXCEPT ![l] =
                       IF b \in @ THEN @ \ {b} ELSE @ \cup {b}]
    /\ UNCHANGED <<stage, reached>>

LeadChanges(l) ==
    /\ Happen
    /\ \/ \E s \in StagesOf(l) : Move(l, s)
       \/ \E b \in Nearby[l] : AttachOrDetach(l, b)
    /\ events' = [events EXCEPT ![l] = @ + 1]
    /\ UNCHANGED <<row, meeting, locals, extending, overruled, disturbed, unsaved>>

----------------------------------------------------------------------------
(* One webhook request.                                                    *)

Goto(w, p) == pc' = [pc EXCEPT ![w] = p]

\* What a request read is forgotten with it.
Finish(w) ==
    /\ Goto(w, "idle")
    /\ lead' = [lead EXCEPT ![w] = Snapshot("active", {})]
    /\ rows' = [rows EXCEPT ![w] = [c \in Clients |-> Granted]]
    /\ todo' = [todo EXCEPT ![w] = {}]
    /\ client' = [client EXCEPT ![w] = NoClient]
    /\ found' = [found EXCEPT ![w] = 0]
    /\ on' = [on EXCEPT ![w] = AnyLead]

\* The clients that a request may yet write.
ToWrite(w) ==
    IF pc[w] = "findClients" THEN LinkedTo(on[w]) \ Sold
    ELSE todo[w] \cup ({client[w]} \ {NoClient})
Contested(S) == {c \in S : \E v \in Workers : c \in ToWrite(v)}

\* The event is taken, and the lead is read when amoCRM answers.  For the history
\* this makes up for what was done to its clients before, unless another request
\* is about to write them.
Receive(w, l) ==
    /\ pc[w] = "idle" /\ events[l] > 0
    /\ events' = [events EXCEPT ![l] = @ - 1]
    /\ on' = [on EXCEPT ![w] = l]
    /\ lead' = [lead EXCEPT ![w] = Snapshot(stage[l], attached[l])]
    /\ Goto(w, "findClients")
    /\ overruled' = overruled \ LinkedTo(l)
    /\ disturbed' = (disturbed \ LinkedTo(l)) \cup Contested(LinkedTo(l))
    /\ UNCHANGED <<stage, attached, reached, row, meeting, rows, todo,
                   client, found, extending, happenings, unsaved>>

\* A client with a paid deal is passed over.
FindClients(w) ==
    /\ pc[w] = "findClients"
    /\ rows' = [rows EXCEPT ![w] = row]
    /\ todo' = [todo EXCEPT ![w] = LinkedTo(on[w]) \ Sold]
    /\ Goto(w, "clients")
    /\ UNCHANGED <<amo, row, meeting, on, lead, client, found, hand, disturbed, unsaved>>

KCStage(w, s)  == on[w] \in KC /\ lead[w].stage = s
Attached(w, c) == Effective[c] \in lead[w].contacts

\* The next client, in the order the database returned them.  After 142 its
\* imported meeting is looked for (0: there is none).
TakeClient(w, c) ==
    /\ pc[w] = "clients" /\ c \in todo[w]
    /\ todo' = [todo EXCEPT ![w] = @ \ {c}]
    /\ client' = [client EXCEPT ![w] = c]
    /\ \E i \in IF KCStage(w, "held") /\ meeting[c] # <<>> THEN DOMAIN meeting[c] ELSE {0} :
           found' = [found EXCEPT ![w] = i]
    /\ Goto(w, IF KCStage(w, "held") \/ KCStage(w, "closed") THEN "meeting" ELSE "verdict")
    /\ UNCHANGED <<amo, row, meeting, on, lead, rows, hand, disturbed, unsaved>>

\* upsertKcMeeting: the meeting that was found is completed, or one is created.
Held(w, m) == IF found[w] = 0 THEN Append(m, "held") ELSE [m EXCEPT ![found[w]] = "held"]

\* cancelKcMeeting: one updateMany over all that were imported from the lead.
Cancelled(m) == [i \in DOMAIN m |-> "cancelled"]

\* Faulty on purpose: the meeting of a closed lead stays.
SaveMeetingHeld(w) ==
    LET c == client[w] IN
    /\ pc[w] = "meeting"
    /\ meeting' = IF KCStage(w, "closed") THEN meeting ELSE [meeting EXCEPT ![c] = Held(w, @)]
    /\ unsaved' = unsaved \ {c}
    /\ Goto(w, "verdict")
    /\ UNCHANGED <<amo, row, on, lead, rows, todo, client, found, hand, disturbed>>

\* After 142 the meeting was held, after 143 it is cancelled.
SaveMeeting(w) ==
    LET c == client[w] IN
    /\ pc[w] = "meeting"
    /\ meeting' = [meeting EXCEPT ![c] = IF KCStage(w, "closed") THEN Cancelled(@) ELSE Held(w, @)]
    /\ unsaved' = unsaved \ {c}
    /\ Goto(w, "verdict")
    /\ UNCHANGED <<amo, row, on, lead, rows, todo, client, found, hand, disturbed>>

\* A failure of the search or of the write is only logged ("the meeting must not
\* bring the handling of the webhook down").
LoseMeeting(w) ==
    /\ pc[w] = "meeting" /\ Happen
    /\ unsaved' = unsaved \cup {client[w]}
    /\ Goto(w, "verdict")
    /\ UNCHANGED <<amo, row, meeting, on, lead, rows, todo, client, found, extending,
                   overruled, disturbed>>

\* What becomes of the row of c: judged by what the request read, written by id.
Refused(w, c) ==
    IF KCStage(w, "closed") THEN rows[w][c].status # "REJECTED"
    ELSE ~Attached(w, c) /\ rows[w][c].status \in {"CU", "UR"}

\* Faulty on purpose: only a review is ended by attaching the broker.
ApprovedFirst(w, c) ==
    /\ ~KCStage(w, "closed") /\ Attached(w, c)
    /\ rows[w][c].status = "UR"
    /\ Waits(rows[w][c]) => lead[w].stage \in LiftStages

\* Faulty on purpose: an exception is lifted by being attached.
ApprovedAtOnce(w, c) ==
    /\ ~KCStage(w, "closed") /\ Attached(w, c)
    /\ rows[w][c].status \in {"REJECTED", "UR"}

Approved(w, c) ==
    /\ ~KCStage(w, "closed") /\ Attached(w, c)
    /\ rows[w][c].status \in {"REJECTED", "UR"}
    /\ Waits(rows[w][c]) => lead[w].stage \in LiftStages

\* Faulty on purpose: the loop does not move on from its client.
JudgeStays(w) ==
    LET c == client[w] IN
    /\ pc[w] = "verdict"
    /\ row' = [row EXCEPT ![c] = IF Refused(w, c) THEN Rejected
                                 ELSE IF Approved(w, c) THEN Granted ELSE @]
    /\ Goto(w, "clients")
    /\ UNCHANGED <<amo, meeting, on, lead, rows, todo, client, found, hand, disturbed, unsaved>>

Judge(w) ==
    LET c == client[w] IN
    /\ pc[w] = "verdict"
    /\ row' = [row EXCEPT ![c] = IF Refused(w, c) THEN Rejected
                                 ELSE IF Approved(w, c) THEN Granted ELSE @]
    /\ client' = [client EXCEPT ![w] = NoClient]
    /\ found' = [found EXCEPT ![w] = 0]
    /\ Goto(w, "clients")
    /\ UNCHANGED <<amo, meeting, on, lead, rows, todo, hand, disturbed, unsaved>>

\* After its own clients a request turns to others of the same phone: to those
\* that wait for a lead closed with 143 to fail, or, on a sales lead that got
\* ahead, to those of brokers who are not on it.  It reads their rows afresh.
Released(w) == {c \in Clients : lead[w].stage = "closed" /\ Waits(row[c])}
Parallel(w, statuses) ==
    {c \in Clients : row[c].status \in statuses /\ ~OnLead(c, lead[w].contacts)}

FindOthers(w) ==
    /\ pc[w] = "clients" /\ todo[w] = {}
    /\ \/ /\ lead[w].stage = "closed" /\ LinkedTo(on[w]) # {}
          /\ todo' = [todo EXCEPT ![w] = Released(w)]
          /\ Goto(w, "lifting")
       \/ /\ lead[w].stage = "thinking"
          /\ todo' = [todo EXCEPT ![w] = Parallel(w, {"CU"})]
          /\ Goto(w, "excepting")
       \/ /\ lead[w].stage = "deal"
          /\ todo' = [todo EXCEPT ![w] = Parallel(w, {"CU", "UR"})]
          /\ Goto(w, "rejecting")
    /\ disturbed' = disturbed \cup Contested(todo'[w])
    /\ UNCHANGED <<amo, row, meeting, on, lead, rows, client, found, hand, unsaved>>

Written == [lifting   |-> Granted,
            excepting |-> Excepted,
            rejecting |-> Uniqueness("REJECTED", "deal", "none")]

WriteOther(w, c) ==
    /\ pc[w] \in DOMAIN Written /\ c \in todo[w]
    /\ row' = [row EXCEPT ![c] = Written[pc[w]]]
    /\ todo' = [todo EXCEPT ![w] = @ \ {c}]
    /\ UNCHANGED <<amo, meeting, pc, on, lead, rows, client, found, hand, disturbed, unsaved>>

\* A sales lead none of whose clients is known has its phones looked up in
\* amoCRM, and none may be found.
NoOthers(w) ==
    /\ pc[w] = "clients" /\ todo[w] = {}
    /\ lead[w].stage \in {"closed", "thinking", "deal"} => LinkedTo(on[w]) = {}
    /\ Finish(w)
    /\ UNCHANGED <<amo, row, meeting, hand, disturbed, unsaved>>

OthersDone(w) ==
    /\ pc[w] \in DOMAIN Written /\ todo[w] = {}
    /\ Finish(w)
    /\ UNCHANGED <<amo, row, meeting, hand, disturbed, unsaved>>

\* amoCRM or the database fails, and the event is answered with 200 and lost.
Fail(w) ==
    /\ pc[w] # "idle" /\ Happen
    /\ Finish(w)
    /\ disturbed' = IF pc[w] \in DOMAIN Written THEN disturbed ELSE disturbed \cup ToWrite(w)
    /\ UNCHANGED <<amo, row, meeting, extending, overruled, unsaved>>

Handle(w) ==
    \/ \E l \in Leads : Receive(w, l)
    \/ FindClients(w)
    \/ \E c \in Clients : TakeClient(w, c)
    \/ SaveMeeting(w) \/ LoseMeeting(w) \/ Judge(w)
    \/ FindOthers(w)
    \/ \E c \in Clients : WriteOther(w, c)
    \/ NoOthers(w) \/ OthersDone(w)
    \/ Fail(w)

----------------------------------------------------------------------------
(* Time, brokers and managers.                                             *)

Lapse(c) ==
    /\ row[c].expiry = "future" /\ Happen
    /\ row' = [row EXCEPT ![c].expiry = "past"]
    /\ UNCHANGED <<amo, meeting, locals, extending, overruled, disturbed, unsaved>>

Overdue == {c \in Clients : row[c].status = "CU" /\ row[c].expiry = "past"}

\* handleFixationExpiry: one updateMany, which checks what it writes.
Expire ==
    /\ Overdue # {}
    /\ row' = [c \in Clients |-> IF c \in Overdue
                                 THEN Uniqueness("EXPIRED", "plain", "past") ELSE row[c]]
    /\ UNCHANGED <<amo, meeting, locals, hand, disturbed, unsaved>>

\* extendUniqueness: the status is checked ...
CheckExtension(c) ==
    /\ row[c].status = "CU" /\ c \notin extending /\ Happen
    /\ extending' = extending \cup {c}
    /\ UNCHANGED <<amo, row, meeting, locals, overruled, disturbed, unsaved>>

\* ... and then the date and the reason are written, whatever it is by now:
\* the mark of an exception or of a deal made in between is lost.
Extend(c) ==
    /\ c \in extending
    /\ extending' = extending \ {c}
    /\ row' = [row EXCEPT ![c].mark = "plain", ![c].expiry = "future"]
    /\ overruled' = IF row[c].mark # "plain" THEN overruled \cup {c} ELSE overruled
    /\ UNCHANGED <<amo, meeting, locals, happenings, disturbed, unsaved>>

Overrule(c, r) ==
    /\ Happen
    /\ row' = [row EXCEPT ![c] = r]
    /\ overruled' = overruled \cup {c}
    /\ UNCHANGED <<amo, meeting, locals, extending, disturbed, unsaved>>

\* resolveUniqueness leaves the date as it was.
Resolve(c) ==
    \E s \in {"CU", "REJECTED"} :
        Overrule(c, Uniqueness(s, "plain", row[c].expiry))

\* setClientUniquenessStatus of the administrator.
SetStatus(c) ==
    \/ Overrule(c, Granted) \/ Overrule(c, Rejected)
    \/ Overrule(c, Uniqueness("UR", "plain", row[c].expiry))

People(c) == CheckExtension(c) \/ Extend(c) \/ Resolve(c) \/ SetStatus(c)

Next ==
    \/ \E l \in Leads : LeadChanges(l)
    \/ \E w \in Workers : Handle(w)
    \/ \E c \in Clients : Lapse(c) \/ People(c)
    \/ Expire

Spec == Init /\ [][Next]_vars

----------------------------------------------------------------------------
(* Properties.                                                             *)

TypeOK ==
    /\ stage \in [Leads -> {"active", "qualified", "held", "closed", "thinking", "deal"}]
    /\ attached \in [Leads -> SUBSET Brokers]
    /\ events \in [Leads -> Nat]
    /\ row \in [Clients -> Row]
    /\ \A c \in Clients : \A i \in DOMAIN meeting[c] :
           meeting[c][i] \in {"held", "cancelled"}
    /\ pc \in [Workers -> {"idle", "findClients", "clients", "meeting",
                           "verdict", "lifting", "excepting", "rejecting"}]
    /\ on \in [Workers -> Leads]
    /\ rows \in [Workers -> [Clients -> Row]]
    /\ todo \in [Workers -> SUBSET Clients]
    /\ client \in [Workers -> Clients \cup {NoClient}]
    /\ \A w \in Workers : client[w] \in Clients <=> pc[w] \in {"meeting", "verdict"}
    /\ \A w \in Workers : found[w] \in 0..(IF client[w] \in Clients
                                           THEN Len(meeting[client[w]]) ELSE 0)
    /\ overruled \cup disturbed \cup unsaved \cup extending \subseteq Clients

\* Every event was delivered and handled, and nobody is in the middle of
\* an extension.
Quiet ==
    /\ \A w \in Workers : pc[w] = "idle"
    /\ \A l \in Leads : events[l] = 0
    /\ extending = {}

\* When everything was handled, the contacts of the lead decide ("amoCRM
\* contacts are the source of truth of uniqueness", webhooks.service.ts:1023):
\* the broker on an open lead has the client unless the grant ran out, an
\* exception waits, or a deal on a sales lead took it away; the broker off it, or
\* on a closed one of the call centre, has not.  It holds whatever became of the
\* meetings, and again from the first event that no other request disturbs.
\* For a client under review the repository contradicts itself: see ReviewStays.
VerdictFollowsLead ==
    Quiet => \A c \in Clients \ (Sold \cup overruled \cup disturbed) :
        LET l == Lead[c]  r == row[c] IN
        IF l \in KC /\ stage[l] = "closed" THEN r.status = "REJECTED"
        ELSE IF Effective[c] \in attached[l]
        THEN \/ r.status \in {"CU", "EXPIRED"}
             \/ Waits(r)
             \/ r.status = "REJECTED" /\ r.mark = "deal"
        ELSE r.status \in {"REJECTED", "EXPIRED"}

\* When everything was handled, a client whose lead of the call centre was held
\* has a meeting that was held, and all that were imported from a closed lead are
\* cancelled (upsertKcMeeting, cancelKcMeeting), unless its own last meeting
\* write failed; what managers and extensions do to the row does not matter.
MeetingFollowsLead ==
    Quiet => \A c \in Clients \ (Sold \cup disturbed \cup unsaved) :
        /\ Lead[c] \in KC /\ stage[Lead[c]] = "held" =>
               \E i \in DOMAIN meeting[c] : meeting[c][i] = "held"
        /\ Lead[c] \in KC /\ stage[Lead[c]] = "closed" =>
               \A i \in DOMAIN meeting[c] : meeting[c][i] = "cancelled"

\* "UNDER_REVIEW stays in the absence of the broker" (webhooks.service.ts:721-722),
\* and a call centre that does not confirm the broker may "leave it as it is: the
\* status expires after thirty days" (docs/регламент-уникальности-простыми-
\* словами.md:186).  No run checks this, the code does the contrary: whatever
\* event comes next rejects the client ("KC_DID_NOT_ATTACH", :1027-1044), by the
\* later rule in the comment at :1018-1023, and VerdictFollowsLead states that.
ReviewStays ==
    [][\A w \in Workers :
          /\ pc[w] = "verdict" /\ pc'[w] = "clients"
          /\ row[client[w]].status = "UR" /\ lead[w].stage # "closed"
          => row'[client[w]].status # "REJECTED"]_vars

\* The mark in the meeting's comment is there "so that records do not double"
\* (comment of upsertKcMeeting): one meeting per broker and lead.  No run
\* checks this: two requests that both found no meeting create one each.
OneMeeting == \A c \in Clients : Len(meeting[c]) <= 1

\* A client under review as an exception leaves that state by a rejection, by a
\* manager, or once its own lead was qualified or some lead was closed with
\* 143: being attached is not enough (the comment above exceptionLiftStatuses).
\* Two requests about to write it at one time may break this.
ExceptionWaits ==
    [][\A c \in Clients : Waits(row[c]) /\ ~Waits(row'[c]) =>
          \/ row'[c].status = "REJECTED"
          \/ c \in overruled' \cup disturbed
          \/ /\ row'[c].status = "CU"
             /\ \/ reached[Lead[c]] \cap LiftStages # {}
                \/ \E l \in Leads : "closed" \in reached[l]]_vars

\* A client whose deal is paid is the broker's for ever; webhooks leave its
\* status alone (the comment above upsertKcMeeting).  No run checks this: the
\* code lets other branches write the row of a sold client.
SoldUntouched ==
    [][(\E w \in Workers : pc'[w] # pc[w] \/ todo'[w] # todo[w]) =>
          \A c \in Sold : row'[c] = row[c]]_vars

\* "EXPIRED is not touched: a timeout must not be overwritten" (same comment).
\* No run checks this: a closed lead rejects an expired client too.
ExpiredUntouched ==
    [][(\E w \in Workers : pc'[w] # pc[w] \/ todo'[w] # todo[w]) =>
          \A c \in Clients : row[c].status = "EXPIRED" => row'[c] = row[c]]_vars

\* A client is unique for thirty days: a grant has a date to run out on.  No run
\* checks this: a manager who resolves a waiting exception leaves its date empty.
GrantHasEnd == \A c \in Clients : row[c].status = "CU" => row[c].expiry # "none"

=============================================================================
