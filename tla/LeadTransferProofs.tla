------------------------- MODULE LeadTransferProofs -------------------------
(***************************************************************************)
(* Proofs about LeadTransfer, for any number of brokers, phones, rows,     *)
(* leads and interactive requests, and any bounds.                         *)
(***************************************************************************)
EXTENDS LeadTransfer, TLAPS

UiSteps   == {"idle", "ask", "check", "create", "reflect", "assert", "send",
              "wait", "settle", "done"}
CronSteps == {"idle", "recover", "batch", "check", "ask", "reflect", "equip",
              "claim", "assert", "send", "wait", "settle"}
Outcomes  == Refusals \cup {"contact", "reconcile"}

\* The types of the tables.
Tables ==
  /\ row \in [Rows -> Row \cup {None}]
  /\ lead \in [Leads -> Lead \cup {None}]
  /\ indexed \subseteq Posted
  /\ wire \subseteq Stored
  /\ tried \subseteq Rows /\ touched \subseteq Rows
  /\ \A l \in Posted : lead[l].row \in Stored
  /\ contact \subseteq Brokers
  /\ lease \in [Phones -> Procs \cup {None, Dead}]
  /\ now \in Nat

\* How the columns of a row go together.
RowShape ==
  \A r \in Stored :
     /\ row[r].lead # None => row[r].st = "SYNCED"
     /\ row[r].st = "SYNCED" => row[r].err = "none"
     /\ row[r].err \in Markers => row[r].st = "FAILED"

\* The types of the writers' locals.
Locals ==
  /\ pc \in [Procs -> UiSteps \cup CronSteps]
  /\ job \in [Procs -> Rows \cup {None}]
  /\ who \in [Procs -> Brokers \cup {None}]
  /\ tel \in [Procs -> Phones \cup {None}]
  /\ listed \in [Procs -> SUBSET Leads]
  /\ out \in [Procs -> Leads \cup Outcomes \cup {None}]
  /\ \A u \in Uis : pc[u] \in UiSteps
  /\ pc[Cron] \in CronSteps
  /\ \A u \in Uis : pc[u] \notin {"idle", "done"} => who[u] \in Brokers /\ tel[u] \in Phones
  /\ pc[Cron] \notin {"idle", "recover", "batch"} => tel[Cron] \in Phones
  /\ pc[Cron] \notin {"idle", "recover", "batch"} => who[Cron] \in Brokers

Marked(r) == row[r].lead = None /\ row[r].err \in Markers
Linked(r) == row[r].lead # None

\* A row that the job may still try: no POST for it was ever left open.
Retryable(r) ==
  /\ r \in Stored
  /\ row[r].lead = None
  /\ row[r].st \in {"FAILED", "PENDING"}
  /\ row[r].err \notin Markers \cup {"unsafe"}
  /\ row[r].err = "none" => row[r].st = "PENDING"
  /\ row[r].att < MaxAttempts

\* What the job read is still so: rows read for a retry stay retryable until
\* the job itself writes them, whatever administrators do meanwhile.
Entry(r) ==
  /\ batch[r] \in Row
  /\ batch[r].broker = row[r].broker /\ batch[r].phone = row[r].phone
  /\ pc[Cron] = "recover" => batch[r].err \in Markers
  /\ pc[Cron] # "recover" =>
       /\ batch[r].err \notin Markers
       /\ batch[r].st \in {"FAILED", "PENDING"}
       /\ batch[r].att < MaxAttempts
       /\ ~ LegacyAmbiguous(batch[r]) => Retryable(r)

CronInv ==
  /\ DOMAIN batch \subseteq Stored
  /\ \A r \in DOMAIN batch : Entry(r)
  /\ pc[Cron] = "idle" => DOMAIN batch = {}
  /\ pc[Cron] \notin {"idle", "recover", "batch"} =>
       /\ snap \in Row /\ snap.att < MaxAttempts
       /\ job[Cron] \in Stored \ DOMAIN batch
       /\ row[job[Cron]].broker = who[Cron] /\ row[job[Cron]].phone = tel[Cron]
  /\ pc[Cron] \in {"check", "ask", "reflect", "equip", "claim"} => Retryable(job[Cron])

\* Writers that stored the marker in a row and have not settled it yet.
Holds(x) == \/ pc[x] \in {"assert", "send", "wait", "settle"}
            \/ x \in Uis /\ pc[x] = "reflect"

\* A held row carries the marker or was linked by a recovery, and has one holder.
HeldRow(x) ==
  /\ job[x] \in Stored
  /\ row[job[x]].broker = who[x] /\ row[job[x]].phone = tel[x]
  /\ Marked(job[x]) \/ Linked(job[x])

HoldInv ==
  /\ \A x \in Procs : Holds(x) => HeldRow(x)
  /\ \A x, y \in Procs : Holds(x) /\ Holds(y) /\ job[x] = job[y] => x = y

Typed == Tables /\ RowShape /\ Locals /\ CronInv /\ HoldInv

-----------------------------------------------------------------------------
(* What the operators of the model do to the table and to the locals.      *)

\* A write keeps the table typed, and the broker and the phone of the row.
LEMMA WriteEffect ==
  ASSUME Tables, NEW r \in Stored, NEW st \in {"SYNCED", "PENDING", "FAILED"},
         NEW err \in Errors, NEW att \in 0 .. MaxAttempts, NEW l \in Leads \cup {None},
         Write(r, st, err, att, l)
  PROVE  /\ row' \in [Rows -> Row \cup {None}]
         /\ Stored' = Stored
         /\ \A q \in Rows \ {r} : row'[q] = row[q]
         /\ row'[r].st = st /\ row'[r].err = err /\ row'[r].att = att /\ row'[r].lead = l
         /\ row'[r].broker = row[r].broker /\ row'[r].phone = row[r].phone
         /\ row'[r] \in Row /\ row'[r] # None
<1>1. r \in Rows /\ row[r] \in Row
  BY DEF Tables, Stored
<1> DEFINE new == [row[r] EXCEPT !.st = st, !.err = err, !.att = att, !.lead = l]
<1>2. row' = [row EXCEPT ![r] = new]
  BY <1>1 DEF Write, Tables
<1>3. /\ new \in Row /\ new.st = st /\ new.err = err /\ new.att = att /\ new.lead = l
      /\ new.broker = row[r].broker /\ new.phone = row[r].phone
  BY <1>1 DEF Row
<1>4. new # None
  BY <1>3, RecordsAssumption
<1> HIDE DEF new
<1>5. row'[r] = new /\ \A q \in Rows \ {r} : row'[q] = row[q]
  BY <1>1, <1>2 DEF Tables
<1>6. row' \in [Rows -> Row \cup {None}]
  BY <1>1, <1>2, <1>3 DEF Tables
<1>7. Stored' = Stored
  BY <1>1, <1>4, <1>5 DEF Stored
<1> QED
  BY <1>3, <1>4, <1>5, <1>6, <1>7

\* So does an insert, which adds its row to the table.
LEMMA InsertEffect ==
  ASSUME Tables, NEW r \in Rows, NEW u \in Uis, who[u] \in Brokers, tel[u] \in Phones,
         NEW st \in {"SYNCED", "PENDING", "FAILED"},
         NEW err \in Errors, NEW att \in 0 .. MaxAttempts, NEW l \in Leads \cup {None},
         NewRow(r, u, st, err, att, l)
  PROVE  /\ row' \in [Rows -> Row \cup {None}]
         /\ r \notin Stored /\ Stored' = Stored \cup {r}
         /\ \A q \in Rows \ {r} : row'[q] = row[q]
         /\ row'[r].st = st /\ row'[r].err = err /\ row'[r].att = att /\ row'[r].lead = l
         /\ row'[r].broker = who[u] /\ row'[r].phone = tel[u]
         /\ row'[r] \in Row /\ row'[r] # None
<1> DEFINE new == [broker |-> who[u], phone |-> tel[u], born |-> now,
                   st |-> st, err |-> err, att |-> att, lead |-> l]
<1>1. row[r] = None /\ row' = [row EXCEPT ![r] = new]
  BY DEF NewRow
<1>2. new \in Row
  BY DEF Row, Tables
<1>3. new # None
  BY <1>2, RecordsAssumption
<1>4. /\ new.st = st /\ new.err = err /\ new.att = att /\ new.lead = l
      /\ new.broker = who[u] /\ new.phone = tel[u]
  OBVIOUS
<1> HIDE DEF new
<1>5. row'[r] = new /\ \A q \in Rows \ {r} : row'[q] = row[q]
  BY <1>1 DEF Tables
<1>6. row' \in [Rows -> Row \cup {None}]
  BY <1>1, <1>2 DEF Tables
<1>7. r \notin Stored /\ Stored' = Stored \cup {r}
  BY <1>1, <1>3, <1>5 DEF Stored
<1> QED
  BY <1>2, <1>3, <1>4, <1>5, <1>6, <1>7

\* The locals of the other writers stay.
Elsewhere(x) ==
  \A y \in Procs \ {x} :
    /\ pc'[y] = pc[y] /\ job'[y] = job[y] /\ who'[y] = who[y] /\ tel'[y] = tel[y]
    /\ listed'[y] = listed[y] /\ out'[y] = out[y]

\* A writer that is through forgets its locals, and at most its own lease goes.
LEMMA LeaveEffect ==
  ASSUME Tables, Locals, NEW x \in Procs, NEW step, NEW left \in {None, Dead},
         x \in Uis => step = "done", x = Cron => step \in {"batch", "idle"},
         Leave(x, step, left)
  PROVE  /\ Locals' /\ Elsewhere(x) /\ pc'[x] = step /\ job'[x] = None /\ tel'[x] = None
         /\ out'[x] = None
         /\ lease' \in [Phones -> Procs \cup {None, Dead}]
         /\ \A p \in Phones : lease'[p] = lease[p] \/ lease'[p] \in {None, Dead}
         /\ ~ Holds(x)'
<1>1. /\ pc' = [pc EXCEPT ![x] = step] /\ job' = [job EXCEPT ![x] = None]
      /\ who' = [who EXCEPT ![x] = None] /\ tel' = [tel EXCEPT ![x] = None]
      /\ listed' = [listed EXCEPT ![x] = {}] /\ out' = [out EXCEPT ![x] = None]
  BY DEF Leave, Goto
<1>2. /\ pc'[x] = step /\ job'[x] = None /\ tel'[x] = None /\ who'[x] = None
      /\ out'[x] = None /\ Elsewhere(x)
  BY <1>1 DEF Locals, Elsewhere
<1>3. Uis \subseteq Procs /\ Cron \in Procs /\ Cron \notin Uis /\ Procs = Uis \cup {Cron}
  BY ConstantsAssumption DEF Procs
<1>4. step \in UiSteps \cup CronSteps
  BY <1>3 DEF UiSteps, CronSteps
<1>5. Locals'
  <2>1. /\ pc' \in [Procs -> UiSteps \cup CronSteps] /\ job' \in [Procs -> Rows \cup {None}]
        /\ who' \in [Procs -> Brokers \cup {None}] /\ tel' \in [Procs -> Phones \cup {None}]
        /\ listed' \in [Procs -> SUBSET Leads]
        /\ out' \in [Procs -> Leads \cup Outcomes \cup {None}]
    BY <1>1, <1>4 DEF Locals
  <2>2. \A u \in Uis : pc'[u] \in UiSteps
    BY <1>2, <1>3 DEF Locals, Elsewhere, UiSteps
  <2>3. pc'[Cron] \in CronSteps
    BY <1>2, <1>3 DEF Locals, Elsewhere, CronSteps
  <2>4. \A u \in Uis : pc'[u] \notin {"idle", "done"} => who'[u] \in Brokers /\ tel'[u] \in Phones
    BY <1>2, <1>3 DEF Locals, Elsewhere
  <2>5. pc'[Cron] \notin {"idle", "recover", "batch"} =>
          tel'[Cron] \in Phones /\ who'[Cron] \in Brokers
    BY <1>2, <1>3 DEF Locals, Elsewhere
  <2> QED
    BY <2>1, <2>2, <2>3, <2>4, <2>5 DEF Locals
<1>6. /\ lease' \in [Phones -> Procs \cup {None, Dead}]
      /\ \A p \in Phones : lease'[p] = lease[p] \/ lease'[p] \in {None, Dead}
  BY DEF Leave, Tables, Locals
<1>7. ~ Holds(x)'
  BY <1>2, <1>3 DEF Holds
<1> QED
  BY <1>2, <1>5, <1>6, <1>7

-----------------------------------------------------------------------------
(* The types and the bookkeeping of rows hold in every reachable state.    *)

\* No step takes a row away, or changes its broker or its phone.
RowsStay ==
  /\ row' \in [Rows -> Row \cup {None}]
  /\ \A r \in Stored : /\ row'[r] # None
                       /\ row'[r].broker = row[r].broker
                       /\ row'[r].phone = row[r].phone

\* A row that has its marker or its link keeps one or the other.
Sticks(r) == Marked(r) \/ Linked(r) => Marked(r)' \/ Linked(r)'

CronStays ==
  /\ batch' = batch /\ snap' = snap
  /\ pc'[Cron] = pc[Cron] /\ job'[Cron] = job[Cron]
  /\ who'[Cron] = who[Cron] /\ tel'[Cron] = tel[Cron]

LEMMA ProcsFacts == /\ Uis \subseteq Procs /\ Cron \in Procs /\ Cron \notin Uis
                    /\ Procs = Uis \cup {Cron}
BY ConstantsAssumption DEF Procs

LEMMA StoredGrows == RowsStay => Stored \subseteq Stored'
BY DEF RowsStay, Stored

\* What the job knows of its rows survives the steps of the others.
LEMMA CronKept ==
  ASSUME Typed, RowsStay, CronStays, \A r \in Stored : Retryable(r) => Retryable(r)'
  PROVE  CronInv'
<1>1. Stored \subseteq Stored'
  BY StoredGrows
<1>2. ASSUME NEW r \in DOMAIN batch PROVE Entry(r)'
  <2>1. r \in Stored /\ Entry(r)
    BY DEF Typed, CronInv
  <2>2. batch'[r] = batch[r] /\ row'[r].broker = row[r].broker /\ row'[r].phone = row[r].phone
    BY <2>1 DEF RowsStay, CronStays
  <2>3. LegacyAmbiguous(batch'[r]) <=> LegacyAmbiguous(batch[r])
    BY <2>2
  <2> QED
    BY <2>1, <2>2, <2>3 DEF Entry, CronStays
<1>3. ASSUME pc[Cron] \notin {"idle", "recover", "batch"}
      PROVE  /\ job[Cron] \in Stored
             /\ row'[job[Cron]].broker = row[job[Cron]].broker
             /\ row'[job[Cron]].phone = row[job[Cron]].phone
  BY <1>3 DEF Typed, CronInv, RowsStay
<1> QED
  BY <1>1, <1>2, <1>3 DEF Typed, CronInv, CronStays

\* A step of x leaves the rows that the others hold to them.
LEMMA HoldKept ==
  ASSUME Typed, RowsStay, NEW x \in Procs, Elsewhere(x),
         \A y \in Procs \ {x} : Holds(y) => Sticks(job[y]),
         Holds(x)' => HeldRow(x)' /\ \A y \in Procs \ {x} : Holds(y) => job[y] # job'[x]
  PROVE  HoldInv'
<1>1. \A y \in Procs \ {x} : Holds(y)' <=> Holds(y)
  BY DEF Elsewhere, Holds
<1>2. \A y \in Procs \ {x} : job'[y] = job[y] /\ who'[y] = who[y] /\ tel'[y] = tel[y]
  BY DEF Elsewhere
<1>3. ASSUME NEW y \in Procs, Holds(y)' PROVE HeldRow(y)'
  <2>1. CASE y = x
    BY <1>3, <2>1
  <2>2. CASE y # x
    <3>1. Holds(y) /\ HeldRow(y) /\ Sticks(job[y])
      BY <1>1, <1>3, <2>2 DEF Typed, HoldInv
    <3>2. job[y] \in Stored /\ job[y] \in Stored'
      BY <3>1, StoredGrows DEF HeldRow
    <3>3. Marked(job[y])' \/ Linked(job[y])' <=>
            (row'[job'[y]].lead = None /\ row'[job'[y]].err \in Markers) \/ row'[job'[y]].lead # None
      BY <1>2, <2>2 DEF Marked, Linked
    <3> QED
      BY <1>2, <2>2, <3>1, <3>2, <3>3 DEF HeldRow, Sticks, Marked, Linked, RowsStay
  <2> QED
    BY <2>1, <2>2
<1>4. ASSUME NEW y \in Procs, NEW z \in Procs, Holds(y)', Holds(z)', job'[y] = job'[z]
      PROVE  y = z
  BY <1>1, <1>2, <1>4 DEF Typed, HoldInv
<1> QED
  BY <1>3, <1>4 DEF HoldInv

\* Steps that leave the table alone.
LEMMA TableUnchanged ==
  ASSUME Typed, row' = row
  PROVE  /\ RowsStay /\ RowShape' /\ Stored' = Stored
         /\ \A r \in Stored : Retryable(r) => Retryable(r)'
         /\ \A r : Sticks(r)
BY DEF Typed, RowsStay, RowShape, Retryable, Sticks, Marked, Linked, Stored, Tables

\* The interactive steps that write no row.
LEMMA UiMoves ==
  ASSUME Typed, NEW u \in Uis,
         \/ \E b \in Brokers, p \in Phones : UiStart(u, b, p)
         \/ UiNoVerdict(u) \/ UiProceed(u) \/ UiCheck(u) \/ UiReflect(u)
  PROVE  Typed' /\ RowsStay
<1>1. /\ row' = row /\ lead' = lead /\ indexed' = indexed /\ wire' = wire /\ now' = now
      /\ batch' = batch /\ snap' = snap /\ touched' = touched /\ tried' = tried
  BY DEF UiStart, UiNoVerdict, UiProceed, UiCheck, UiReflect, amo, cron, local
<1>2. u \in Procs /\ u # Cron
  BY ProcsFacts
<1>3. /\ contact' \subseteq Brokers /\ lease' \in [Phones -> Procs \cup {None, Dead}]
      /\ Locals' /\ Elsewhere(u)
      /\ Holds(u)' => Holds(u) /\ job'[u] = job[u] /\ who'[u] = who[u] /\ tel'[u] = tel[u]
  <2>1. CASE \E b \in Brokers, p \in Phones : UiStart(u, b, p)
    <3>1. PICK b \in Brokers, p \in Phones : UiStart(u, b, p)
      BY <2>1
    <3>2. /\ pc' = [pc EXCEPT ![u] = "ask"] /\ who' = [who EXCEPT ![u] = b]
          /\ tel' = [tel EXCEPT ![u] = p] /\ job' = job /\ listed' = listed
          /\ lease' = [lease EXCEPT ![p] = u]
          /\ \E o \in {None, "contact"} : out' = [out EXCEPT ![u] = o]
          /\ contact' \subseteq Brokers
      BY <3>1 DEF UiStart, Goto, Typed, Tables
    <3> QED
      BY <1>2, <3>2, ProcsFacts DEF Typed, Tables, Locals, Elsewhere, Holds, UiSteps, Outcomes
  <2>2. CASE UiProceed(u)
    <3>1. /\ pc' = [pc EXCEPT ![u] = "check"] /\ listed' = [listed EXCEPT ![u] = Known(tel[u])]
          /\ who' = who /\ tel' = tel /\ job' = job /\ lease' = lease /\ out' = out
          /\ contact' = contact /\ pc[u] = "ask"
      BY <2>2 DEF UiProceed, Goto
    <3>2. Known(tel[u]) \subseteq Leads
      BY DEF Known, Typed, Tables, Posted
    <3> QED
      BY <1>2, <3>1, <3>2, ProcsFacts DEF Typed, Tables, Locals, Elsewhere, Holds, UiSteps
  <2>3. CASE Quit(u) /\ contact' = contact
    BY <1>2, <2>3, LeaveEffect DEF Quit, Typed, Tables
  <2>4. CASE /\ \/ pc[u] = "check" /\ Goto(u, "create")
                \/ /\ pc[u] = "reflect"
                   /\ \E s \in {"settle", "assert"} : Goto(u, s)
             /\ UNCHANGED <<lease, local>> /\ contact' = contact
    <3>1. PICK s \in {"create", "settle", "assert"} :
            /\ pc' = [pc EXCEPT ![u] = s]
            /\ s # "create" => pc[u] = "reflect"
            /\ s = "create" => pc[u] = "check"
      BY <2>4 DEF Goto
    <3>2. /\ who' = who /\ tel' = tel /\ job' = job /\ lease' = lease /\ out' = out
          /\ contact' = contact /\ listed' = listed
      BY <2>4 DEF local
    <3> QED
      BY <1>2, <3>1, <3>2, ProcsFacts DEF Typed, Tables, Locals, Elsewhere, Holds, UiSteps
  <2>5. UiNoVerdict(u) => Quit(u) /\ contact' = contact
    BY DEF UiNoVerdict
  <2>6. UiCheck(u) => \/ Quit(u) /\ contact' = contact
                      \/ pc[u] = "check" /\ Goto(u, "create") /\ UNCHANGED <<lease, local>> /\ contact' = contact
    BY DEF UiCheck
  <2>7. UiReflect(u) => \/ Quit(u) /\ contact' = contact
                        \/ /\ pc[u] = "reflect"
                           /\ \E s \in {"settle", "assert"} : Goto(u, s)
                           /\ UNCHANGED <<lease, local>> /\ contact' = contact
    BY DEF UiReflect
  <2> QED
    BY <2>1, <2>2, <2>3, <2>4, <2>5, <2>6, <2>7
<1>4. Tables' /\ RowShape'
  BY <1>1, <1>3, TableUnchanged DEF Typed, Tables, Posted, Stored
<1>5. RowsStay /\ CronStays
  BY <1>1, <1>2, <1>3, ProcsFacts, TableUnchanged DEF CronStays, Elsewhere
<1>6. CronInv'
  BY <1>1, <1>5, CronKept, TableUnchanged
<1>7. HoldInv'
  <2>1. Holds(u)' => HeldRow(u)' /\ \A y \in Procs \ {u} : Holds(y) => job[y] # job'[u]
    BY <1>1, <1>2, <1>3 DEF Typed, HoldInv, HeldRow, Stored, Marked, Linked
  <2> QED
    BY <1>1, <1>2, <1>3, <1>5, <2>1, HoldKept, TableUnchanged
<1> QED
  BY <1>3, <1>4, <1>5, <1>6, <1>7 DEF Typed

\* An insert leaves the other rows as they are, a write all but one.
LEMMA OtherRows ==
  ASSUME Typed, RowsStay, NEW r \in Rows, \A q \in Rows \ {r} : row'[q] = row[q],
         Stored' \subseteq Stored \cup {r},
         r \in Stored' =>
           /\ row'[r].lead # None => row'[r].st = "SYNCED"
           /\ row'[r].st = "SYNCED" => row'[r].err = "none"
           /\ row'[r].err \in Markers => row'[r].st = "FAILED"
  PROVE  /\ RowShape'
         /\ \A q \in Rows \ {r} : Sticks(q) /\ (Retryable(q) => Retryable(q)')
<1>1. \A q \in Rows \ {r} : q \in Stored <=> q \in Stored'
  BY DEF Stored
<1>2. RowShape'
  <2> SUFFICES ASSUME NEW q \in Stored'
               PROVE  /\ row'[q].lead # None => row'[q].st = "SYNCED"
                      /\ row'[q].st = "SYNCED" => row'[q].err = "none"
                      /\ row'[q].err \in Markers => row'[q].st = "FAILED"
    BY DEF RowShape, Markers
  <2>1. CASE q = r
    BY <2>1
  <2>2. CASE q # r
    BY <1>1, <2>2 DEF Typed, RowShape, Stored
  <2> QED
    BY <2>1, <2>2
<1> QED
  BY <1>1, <1>2 DEF Retryable, Sticks, Marked, Linked

LEMMA UiInserts ==
  ASSUME Typed, NEW u \in Uis,
         UiAlarm(u) \/ UiRecordOnly(u) \/ \E r \in Rows : UiCreate(u, r)
  PROVE  Typed' /\ RowsStay
<1>1. u \in Procs /\ u # Cron
  BY ProcsFacts
<1>2. /\ pc[u] \in {"ask", "create"} /\ who[u] \in Brokers /\ tel[u] \in Phones
      /\ ~ Holds(u)
  BY <1>1 DEF UiAlarm, UiRecordOnly, UiCreate, Typed, Locals, Holds
<1>3. /\ indexed' = indexed /\ wire' = wire /\ now' = now /\ contact' = contact
      /\ batch' = batch /\ snap' = snap /\ touched' = touched /\ tried' = tried
  BY DEF UiAlarm, UiRecordOnly, UiCreate, amo, cron
\* The lead of an alarm may get another contact.
<1>4. /\ lead' \in [Leads -> Lead \cup {None}] /\ Posted' = Posted
      /\ \A l \in Posted : lead'[l].row = lead[l].row
  <2>1. CASE lead' = lead
    BY <2>1 DEF Typed, Tables, Posted
  <2>2. CASE \E l \in In(tel[u], "kc") : lead' = [lead EXCEPT ![l].contacts = @ \cup {who[u]}]
    <3>1. PICK l \in In(tel[u], "kc") : lead' = [lead EXCEPT ![l].contacts = @ \cup {who[u]}]
      BY <2>2
    <3>2. l \in Posted /\ lead[l] \in Lead
      BY DEF In, Known, Typed, Tables, Posted
    <3> DEFINE new == [lead[l] EXCEPT !.contacts = @ \cup {who[u]}]
    <3>3. lead' = [lead EXCEPT ![l] = new]
      BY <3>1
    <3>4. new \in Lead /\ new.row = lead[l].row
      BY <1>2, <3>2 DEF Lead
    <3>5. new # None
      BY <3>4, RecordsAssumption
    <3> HIDE DEF new
    <3> QED
      BY <3>2, <3>3, <3>4, <3>5 DEF Typed, Tables, Posted
  <2>3. lead' = lead \/ \E l \in In(tel[u], "kc") : lead' = [lead EXCEPT ![l].contacts = @ \cup {who[u]}]
    BY DEF UiAlarm, UiRecordOnly, UiCreate, amo
  <2> QED
    BY <2>1, <2>2, <2>3
<1>5. ASSUME NEW r \in Rows, NEW st, NEW err, NEW att, NEW l,
             NewRow(r, u, st, err, att, l),
             <<st, err, att>> \in {<<"SYNCED", "none", 0>>, <<"FAILED", "inProgress", MaxAttempts>>},
             l \in Leads \cup {None}, l # None => st = "SYNCED"
      PROVE  /\ RowsStay /\ RowShape' /\ r \notin Stored /\ Stored' = Stored \cup {r}
             /\ \A q \in Stored : Sticks(q) /\ (Retryable(q) => Retryable(q)')
             /\ row'[r].broker = who[u] /\ row'[r].phone = tel[u]
             /\ row'[r].lead = l /\ row'[r].err = err
  <2>1. /\ st \in {"SYNCED", "PENDING", "FAILED"} /\ err \in Errors
        /\ att \in 0 .. MaxAttempts
    BY <1>5, ConstantsAssumption DEF Errors, Markers
  <2>2. /\ row' \in [Rows -> Row \cup {None}]
        /\ r \notin Stored /\ Stored' = Stored \cup {r}
        /\ \A q \in Rows \ {r} : row'[q] = row[q]
        /\ row'[r].st = st /\ row'[r].err = err /\ row'[r].att = att /\ row'[r].lead = l
        /\ row'[r].broker = who[u] /\ row'[r].phone = tel[u]
    BY <1>2, <1>5, <2>1, InsertEffect DEF Typed
  <2>3. RowsStay
    BY <2>2 DEF RowsStay, Stored
  <2>4. /\ row'[r].lead # None => row'[r].st = "SYNCED"
        /\ row'[r].st = "SYNCED" => row'[r].err = "none"
        /\ row'[r].err \in Markers => row'[r].st = "FAILED"
    BY <1>5, <2>2 DEF Markers
  <2>5. /\ RowShape'
        /\ \A q \in Rows \ {r} : Sticks(q) /\ (Retryable(q) => Retryable(q)')
    BY <2>2, <2>3, <2>4, OtherRows
  <2> QED
    BY <2>2, <2>3, <2>5 DEF Stored
<1>6. /\ lease' \in [Phones -> Procs \cup {None, Dead}] /\ Locals' /\ Elsewhere(u)
      /\ RowsStay /\ RowShape' /\ Stored \subseteq Stored'
      /\ \A q \in Stored : Sticks(q) /\ (Retryable(q) => Retryable(q)')
      /\ Holds(u)' => HeldRow(u)' /\ job'[u] \notin Stored
  <2>1. CASE UiAlarm(u) \/ UiRecordOnly(u)
    <3>1. Quit(u)
      BY <2>1 DEF UiAlarm, UiRecordOnly
    <3>2. /\ lease' \in [Phones -> Procs \cup {None, Dead}] /\ Locals' /\ Elsewhere(u)
          /\ ~ Holds(u)'
      BY <1>1, <3>1, LeaveEffect DEF Quit, Typed
    <3>3. \/ row' = row
          \/ \E r \in Rows, l \in Leads \cup {None} : NewRow(r, u, "SYNCED", "none", 0, l)
      BY <2>1 DEF UiAlarm, UiRecordOnly, In, Known, Typed, Tables, Posted
    <3>4. CASE row' = row
      BY <3>2, <3>4, TableUnchanged
    <3>5. CASE \E r \in Rows, l \in Leads \cup {None} : NewRow(r, u, "SYNCED", "none", 0, l)
      BY <1>5, <3>2, <3>5
    <3> QED
      BY <3>3, <3>4, <3>5
  <2>2. CASE \E r \in Rows : UiCreate(u, r)
    <3>1. PICK r \in Rows : UiCreate(u, r)
      BY <2>2
    <3>2. /\ RowsStay /\ RowShape' /\ r \notin Stored /\ Stored' = Stored \cup {r}
          /\ \A q \in Stored : Sticks(q) /\ (Retryable(q) => Retryable(q)')
          /\ row'[r].broker = who[u] /\ row'[r].phone = tel[u]
          /\ row'[r].lead = None /\ row'[r].err = "inProgress"
      BY <1>5, <3>1 DEF UiCreate
    <3>3. /\ pc' = [pc EXCEPT ![u] = "reflect"] /\ job' = [job EXCEPT ![u] = r]
          /\ lease' = lease /\ who' = who /\ tel' = tel /\ listed' = listed /\ out' = out
      BY <3>1 DEF UiCreate, Goto
    <3>4. Locals' /\ Elsewhere(u)
      BY <1>1, <1>2, <3>3, ProcsFacts DEF Typed, Locals, Elsewhere, UiSteps
    <3>5. HeldRow(u)' /\ job'[u] \notin Stored
      BY <1>1, <3>2, <3>3 DEF HeldRow, Marked, Markers, Typed, Locals
    <3> QED
      BY <3>2, <3>3, <3>4, <3>5 DEF Typed, Tables
  <2> QED
    BY <2>1, <2>2
<1>7. Tables'
  BY <1>3, <1>4, <1>6 DEF Typed, Tables, RowsStay, Posted
<1>8. CronInv'
  BY <1>1, <1>3, <1>6, CronKept, ProcsFacts DEF CronStays, Elsewhere
<1>9. HoldInv'
  <2>1. \A y \in Procs \ {u} : Holds(y) => job[y] \in Stored
    BY DEF Typed, HoldInv, HeldRow
  <2> QED
    BY <1>1, <1>6, <2>1, HoldKept
<1> QED
  BY <1>6, <1>7, <1>8, <1>9 DEF Typed

\* The row that a settling writer leaves behind.
LEMMA SettledRow ==
  ASSUME Typed, NEW r \in Stored, Marked(r),
         NEW st \in {"SYNCED", "PENDING", "FAILED"}, NEW err \in Errors,
         NEW att \in 0 .. MaxAttempts, NEW l \in Leads \cup {None},
         l # None => st = "SYNCED", st = "SYNCED" => err = "none",
         err \in Markers => st = "FAILED",
         Write(r, st, err, att, l)
  PROVE  /\ RowsStay /\ RowShape' /\ Stored' = Stored
         /\ \A q \in Rows \ {r} : Sticks(q)
         /\ \A q \in Stored : Retryable(q) => Retryable(q)'
<1>1. /\ row' \in [Rows -> Row \cup {None}] /\ Stored' = Stored
      /\ \A q \in Rows \ {r} : row'[q] = row[q]
      /\ row'[r].st = st /\ row'[r].err = err /\ row'[r].att = att /\ row'[r].lead = l
      /\ row'[r].broker = row[r].broker /\ row'[r].phone = row[r].phone
      /\ row'[r] # None
  BY WriteEffect DEF Typed
<1>2. RowsStay /\ r \in Rows
  BY <1>1 DEF RowsStay, Stored
<1>3. /\ RowShape'
      /\ \A q \in Rows \ {r} : Sticks(q) /\ (Retryable(q) => Retryable(q)')
  BY <1>1, <1>2, OtherRows
<1>4. ~ Retryable(r)
  BY DEF Retryable, Marked, Markers
<1> QED
  BY <1>1, <1>2, <1>3, <1>4 DEF Stored

LEMMA UiSettles ==
  ASSUME Typed, NEW u \in Uis, UiSettle(u)
  PROVE  Typed' /\ RowsStay
<1>1. u \in Procs /\ u # Cron /\ Holds(u)
  BY ProcsFacts DEF UiSettle, Holds
<1> DEFINE r == job[u]
<1>2. r \in Stored /\ r \in Rows /\ row[r] \in Row
  BY <1>1 DEF Typed, HoldInv, HeldRow, Tables, Stored
<1>3. /\ lead' = lead /\ indexed' = indexed /\ wire' = wire /\ now' = now
      /\ contact' = contact /\ batch' = batch /\ snap' = snap /\ tried' = tried
      /\ Quit(u) /\ Touch({r})
  BY DEF UiSettle, amo
<1>4. touched' \subseteq Rows
  <2>1. touched' = touched \cup ({r} \cap (DOMAIN batch \cup {job[Cron]}))
    BY <1>3 DEF Touch
  <2> QED
    BY <1>2, <2>1 DEF Typed, Tables
<1>5. /\ Locals' /\ Elsewhere(u) /\ ~ Holds(u)'
      /\ lease' \in [Phones -> Procs \cup {None, Dead}]
  BY <1>1, <1>3, LeaveEffect DEF Quit, Typed
<1>6. /\ RowsStay /\ RowShape' /\ Stored' = Stored
      /\ \A q \in Rows \ {r} : Sticks(q)
      /\ \A q \in Stored : Retryable(q) => Retryable(q)'
  <2>1. CASE row' = row
    BY <2>1, TableUnchanged
  <2>2. CASE InProgress(r) /\ \E l \in Leads : Write(r, "SYNCED", "none", 1, l)
    <3>1. PICK l \in Leads : Write(r, "SYNCED", "none", 1, l)
      BY <2>2
    <3>2. Marked(r) /\ "none" \in Errors /\ "none" \notin Markers /\ 1 \in 0 .. MaxAttempts
      BY <2>2, ConstantsAssumption DEF InProgress, Marked, Errors, Markers
    <3> QED
      BY <1>2, <3>1, <3>2, SettledRow
  <2>3. CASE InProgress(r) /\ Write(r, "PENDING", "contact", 0, None)
    <3>1. Marked(r) /\ "contact" \in Errors /\ "contact" \notin Markers /\ 0 \in 0 .. MaxAttempts
      BY <2>3, ConstantsAssumption DEF InProgress, Marked, Errors, Markers
    <3> QED
      BY <1>2, <2>3, <3>1, SettledRow
  <2>4. CASE InProgress(r) /\ \E o \in Refusals : Write(r, "FAILED", o, 1, None)
    <3>1. PICK o \in Refusals : Write(r, "FAILED", o, 1, None)
      BY <2>4
    <3>2. Marked(r) /\ o \in Errors /\ 1 \in 0 .. MaxAttempts
      BY <2>4, ConstantsAssumption DEF InProgress, Marked, Errors, Refusals, Markers
    <3> QED
      BY <1>2, <3>1, <3>2, SettledRow
  <2>5. CASE InProgress(r) /\ Write(r, "FAILED", "reconcile", MaxAttempts, None)
    <3>1. Marked(r) /\ "reconcile" \in Errors /\ MaxAttempts \in 0 .. MaxAttempts
      BY <2>5, ConstantsAssumption DEF InProgress, Marked, Errors, Markers
    <3> QED
      BY <1>2, <2>5, <3>1, SettledRow
  <2>6. \/ row' = row
        \/ /\ InProgress(r)
           /\ \/ \E l \in Leads : Write(r, "SYNCED", "none", 1, l)
              \/ Write(r, "PENDING", "contact", 0, None)
              \/ \E o \in Refusals : Write(r, "FAILED", o, 1, None)
              \/ Write(r, "FAILED", "reconcile", MaxAttempts, None)
    BY DEF UiSettle
  <2> QED
    BY <2>1, <2>2, <2>3, <2>4, <2>5, <2>6
<1>7. Tables'
  BY <1>3, <1>4, <1>5, <1>6 DEF Typed, Tables, RowsStay, Posted
<1>8. CronInv'
  BY <1>1, <1>3, <1>5, <1>6, CronKept, ProcsFacts DEF CronStays, Elsewhere
<1>9. HoldInv'
  <2>1. \A y \in Procs \ {u} : Holds(y) => job[y] \in Rows \ {r}
    BY <1>1 DEF Typed, HoldInv, HeldRow, Stored
  <2>2. \A y \in Procs \ {u} : Holds(y) => Sticks(job[y])
    BY <1>6, <2>1
  <2> QED
    BY <1>1, <1>5, <1>6, <2>2, HoldKept
<1> QED
  BY <1>5, <1>6, <1>7, <1>8, <1>9 DEF Typed

\* The steps of a request to amoCRM write no row; the sender holds its own.
LEMMA PostSteps ==
  ASSUME Typed, NEW x \in Procs, PostStep(x)
  PROVE  Typed' /\ RowsStay
<1>1. /\ row' = row /\ lead' = lead /\ indexed' = indexed /\ now' = now
      /\ contact' = contact /\ lease' = lease
      /\ batch' = batch /\ snap' = snap /\ touched' = touched
      /\ job' = job /\ who' = who /\ tel' = tel /\ listed' = listed
  BY DEF PostStep, AssertOwned, FailBeforePost, Send, Reply, Refuse, NoAnswer, amo, cron, local
<1>2. pc[x] \in {"assert", "send", "wait"}
  BY DEF PostStep, AssertOwned, FailBeforePost, Send, Reply, Refuse, NoAnswer
<1>3. Holds(x) /\ HeldRow(x)
  BY <1>2 DEF Typed, HoldInv, Holds
<1>4. /\ \E s \in {"send", "wait", "settle"} : pc' = [pc EXCEPT ![x] = s]
      /\ \/ out' = out
         \/ \E o \in Leads \cup Outcomes : out' = [out EXCEPT ![x] = o]
  BY DEF PostStep, AssertOwned, FailBeforePost, Send, Reply, Refuse, NoAnswer, Outcome, Goto,
         Outcomes, Posted, local
<1>5. wire' \subseteq Stored /\ tried' \subseteq Rows
  BY <1>3 DEF PostStep, AssertOwned, FailBeforePost, Send, Reply, Refuse, NoAnswer, amo,
              HeldRow, Typed, Tables, Stored
<1>6. Locals' /\ Elsewhere(x) /\ Holds(x)'
  <2>1. /\ pc' \in [Procs -> UiSteps \cup CronSteps]
        /\ \A y \in Procs \ {x} : pc'[y] = pc[y] /\ out'[y] = out[y]
        /\ pc'[x] \in {"send", "wait", "settle"}
    BY <1>4 DEF Typed, Locals, UiSteps, CronSteps
  <2>2. out' \in [Procs -> Leads \cup Outcomes \cup {None}]
    BY <1>4 DEF Typed, Locals
  <2>3. /\ \A u \in Uis : pc'[u] \in UiSteps
        /\ pc'[Cron] \in CronSteps
    BY <2>1, ProcsFacts DEF Typed, Locals, UiSteps, CronSteps
  <2>4. /\ \A u \in Uis : pc'[u] \notin {"idle", "done"} => who'[u] \in Brokers /\ tel'[u] \in Phones
        /\ pc'[Cron] \notin {"idle", "recover", "batch"} =>
             who'[Cron] \in Brokers /\ tel'[Cron] \in Phones
    BY <1>1, <1>2, <2>1, ProcsFacts DEF Typed, Locals
  <2> QED
    BY <1>1, <2>1, <2>2, <2>3, <2>4 DEF Typed, Locals, Elsewhere, Holds
<1>7. Tables' /\ RowShape'
  BY <1>1, <1>5, TableUnchanged DEF Typed, Tables, Posted
<1>8. CronInv'
  <2>1. CASE x # Cron
    BY <1>1, <1>6, <2>1, TableUnchanged, CronKept, ProcsFacts DEF CronStays, Elsewhere
  <2>2. CASE x = Cron
    <3>1. pc[Cron] \notin {"idle", "recover", "batch"} /\ pc'[Cron] \in {"send", "wait", "settle"}
      BY <1>2, <1>4, <2>2 DEF Typed, Locals
    <3>2. \A r \in DOMAIN batch : Entry(r)'
      BY <1>1, <3>1, TableUnchanged DEF Typed, CronInv, Entry, LegacyAmbiguous, Retryable
    <3> QED
      BY <1>1, <3>1, <3>2, TableUnchanged DEF Typed, CronInv
  <2> QED
    BY <2>1, <2>2
<1>9. HoldInv'
  <2>1. HeldRow(x)' /\ \A y \in Procs \ {x} : Holds(y) => job[y] # job'[x]
    BY <1>1, <1>3, TableUnchanged DEF Typed, HoldInv, HeldRow, Marked, Linked
  <2> QED
    BY <1>1, <1>6, <2>1, HoldKept, TableUnchanged
<1> QED
  BY <1>1, <1>6, <1>7, <1>8, <1>9, TableUnchanged DEF Typed

\* What may be written to the columns of a row.
Columns(st, err, att, l) ==
  /\ st \in {"SYNCED", "PENDING", "FAILED"} /\ err \in Errors
  /\ att \in 0 .. MaxAttempts /\ l \in Leads \cup {None}
  /\ l # None => st = "SYNCED"
  /\ st = "SYNCED" => err = "none"
  /\ err \in Markers => st = "FAILED"

LEMMA WrittenRow ==
  ASSUME Typed, NEW r \in Stored, NEW st, NEW err, NEW att, NEW l, Columns(st, err, att, l),
         Write(r, st, err, att, l)
  PROVE  /\ RowsStay /\ RowShape' /\ Stored' = Stored
         /\ \A q \in Rows \ {r} : /\ row'[q] = row[q] /\ Sticks(q)
                                  /\ Retryable(q) => Retryable(q)'
         /\ row'[r].st = st /\ row'[r].err = err /\ row'[r].att = att /\ row'[r].lead = l
<1>1. /\ row' \in [Rows -> Row \cup {None}] /\ Stored' = Stored
      /\ \A q \in Rows \ {r} : row'[q] = row[q]
      /\ row'[r].st = st /\ row'[r].err = err /\ row'[r].att = att /\ row'[r].lead = l
      /\ row'[r].broker = row[r].broker /\ row'[r].phone = row[r].phone
      /\ row'[r] # None
  BY WriteEffect DEF Typed, Columns
<1>2. RowsStay /\ r \in Rows
  BY <1>1 DEF RowsStay, Stored
<1>3. /\ RowShape'
      /\ \A q \in Rows \ {r} : Sticks(q) /\ (Retryable(q) => Retryable(q)')
  BY <1>1, <1>2, OtherRows DEF Columns
<1> QED
  BY <1>1, <1>2, <1>3

\* The row the job works on is in nobody else's hands.
LEMMA CronsOwnRow ==
  ASSUME Typed, pc[Cron] \notin {"idle", "recover", "batch"}
  PROVE  /\ job[Cron] \in Stored /\ job[Cron] \in Rows /\ job[Cron] \notin DOMAIN batch
         /\ \A y \in Procs \ {Cron} : Holds(y) => job[y] \in Rows \ {job[Cron]}
<1>1. job[Cron] \in Stored /\ job[Cron] \in Rows /\ job[Cron] \notin DOMAIN batch
  BY DEF Typed, CronInv, Stored
<1>2. ASSUME NEW y \in Procs \ {Cron}, Holds(y) PROVE job[y] \in Rows \ {job[Cron]}
  <2>1. HeldRow(y)
    BY <1>2 DEF Typed, HoldInv
  <2>2. CASE Holds(Cron)
    BY <1>2, <2>1, <2>2, ProcsFacts DEF Typed, HoldInv, HeldRow, Stored
  <2>3. CASE ~ Holds(Cron)
    <3>1. pc[Cron] \in {"check", "ask", "reflect", "equip", "claim"}
      BY <2>3 DEF Typed, Locals, CronSteps, Holds
    <3>2. Retryable(job[Cron])
      BY <3>1 DEF Typed, CronInv
    <3> QED
      BY <2>1, <3>2 DEF HeldRow, Retryable, Marked, Linked, Stored
  <2> QED
    BY <2>2, <2>3
<1> QED
  BY <1>1, <1>2

\* The job is through with a row, which it may have written.
LEMMA CronEndsRow ==
  ASSUME Typed, pc[Cron] \notin {"idle", "recover", "batch"},
         \/ row' = row
         \/ \E st, err, att, l : Columns(st, err, att, l) /\ Write(job[Cron], st, err, att, l),
         EndRun \/ (NextRow /\ UNCHANGED cron),
         UNCHANGED amo, contact' \subseteq Brokers, tried' = tried
  PROVE  Typed' /\ RowsStay
<1>1. /\ job[Cron] \in Stored /\ job[Cron] \in Rows /\ job[Cron] \notin DOMAIN batch
      /\ \A y \in Procs \ {Cron} : Holds(y) => job[y] \in Rows \ {job[Cron]}
  BY CronsOwnRow
<1>2. /\ RowsStay /\ RowShape' /\ Stored' = Stored
      /\ \A q \in Rows \ {job[Cron]} : Sticks(q) /\ (Retryable(q) => Retryable(q)')
  <2>1. CASE row' = row
    BY <2>1, TableUnchanged DEF Retryable
  <2>2. CASE \E st, err, att, l : Columns(st, err, att, l) /\ Write(job[Cron], st, err, att, l)
    BY <1>1, <2>2, WrittenRow
  <2> QED
    BY <2>1, <2>2
<1>3. \E step \in {"batch", "idle"} : Leave(Cron, step, None)
  BY DEF EndRun, NextRow
<1>4. /\ Locals' /\ Elsewhere(Cron) /\ ~ Holds(Cron)' /\ pc'[Cron] \in {"batch", "idle"}
      /\ lease' \in [Phones -> Procs \cup {None, Dead}]
  BY <1>3, LeaveEffect, ProcsFacts DEF Typed
<1>5. touched' \subseteq Rows /\ (batch' = batch \/ DOMAIN batch' = {})
  BY DEF EndRun, NextRow, Leave, cron, Empty, Typed, Tables
<1>6. Tables'
  BY <1>2, <1>4, <1>5 DEF Typed, Tables, RowsStay, Posted, amo
<1>7. pc'[Cron] = "batch" => pc[Cron] # "recover" /\ batch' = batch
  <2>1. EndRun => pc'[Cron] = "idle"
    BY ProcsFacts DEF EndRun, Leave, Goto, Typed, Locals
  <2> QED
    BY <2>1 DEF cron
<1>8. pc'[Cron] = "idle" => DOMAIN batch' = {}
  <2>1. NextRow => pc'[Cron] = "batch"
    BY ProcsFacts DEF NextRow, Leave, Goto, Typed, Locals
  <2>2. EndRun => DOMAIN batch' = {}
    BY DEF EndRun, Empty
  <2> QED
    BY <2>1, <2>2
<1>9. CronInv'
  <2>1. ASSUME NEW q \in DOMAIN batch, batch' = batch PROVE Entry(q)'
    <3>1. q \in Stored /\ q \in Rows \ {job[Cron]} /\ Entry(q)
      BY <1>1 DEF Typed, CronInv, Stored
    <3>2. row'[q].broker = row[q].broker /\ row'[q].phone = row[q].phone
      BY <1>2, <3>1 DEF RowsStay
    <3>3. (LegacyAmbiguous(batch[q]))' <=> LegacyAmbiguous(batch[q])
      BY <2>1
    <3> QED
      BY <1>2, <1>4, <2>1, <3>1, <3>2, <3>3 DEF Entry
  <2>2. DOMAIN batch' \subseteq Stored'
    BY <1>2, <1>5 DEF Typed, CronInv
  <2> QED
    BY <1>4, <1>5, <1>8, <2>1, <2>2 DEF CronInv
<1>10. HoldInv'
  BY <1>1, <1>2, <1>4, HoldKept, ProcsFacts
<1> QED
  BY <1>2, <1>4, <1>6, <1>9, <1>10 DEF Typed

\* The job goes on with its row, which it may have claimed.
LEMMA CronGoesOn ==
  ASSUME Typed, pc[Cron] \notin {"idle", "recover", "batch"},
         NEW step \in {"ask", "reflect", "equip", "claim", "assert"}, Goto(Cron, step),
         job' = job, who' = who, tel' = tel, out' = out, lease' = lease,
         \E s \in SUBSET Leads : listed' = listed \/ listed' = [listed EXCEPT ![Cron] = s],
         UNCHANGED cron, UNCHANGED amo, contact' \subseteq Brokers, tried' = tried,
         \/ row' = row
         \/ \E st, err, att, l : Columns(st, err, att, l) /\ Write(job[Cron], st, err, att, l),
         IF step = "assert" THEN Marked(job[Cron])' ELSE Retryable(job[Cron])'
  PROVE  Typed' /\ RowsStay
<1>1. /\ job[Cron] \in Stored /\ job[Cron] \in Rows /\ job[Cron] \notin DOMAIN batch
      /\ \A y \in Procs \ {Cron} : Holds(y) => job[y] \in Rows \ {job[Cron]}
  BY CronsOwnRow
<1>2. /\ RowsStay /\ RowShape' /\ Stored' = Stored
      /\ \A q \in Rows \ {job[Cron]} : Sticks(q) /\ (Retryable(q) => Retryable(q)')
  <2>1. CASE row' = row
    BY <2>1, TableUnchanged DEF Retryable
  <2>2. CASE \E st, err, att, l : Columns(st, err, att, l) /\ Write(job[Cron], st, err, att, l)
    BY <1>1, <2>2, WrittenRow
  <2> QED
    BY <2>1, <2>2
<1>3. Locals' /\ Elsewhere(Cron) /\ pc'[Cron] = step
  BY ProcsFacts DEF Goto, Typed, Locals, Elsewhere, CronSteps
<1>4. Tables'
  BY <1>2 DEF Typed, Tables, RowsStay, Posted, amo, cron
<1>5. CronInv'
  <2>1. ASSUME NEW q \in DOMAIN batch PROVE Entry(q)'
    <3>1. q \in Stored /\ q \in Rows \ {job[Cron]} /\ Entry(q)
      BY <1>1 DEF Typed, CronInv, Stored
    <3>2. row'[q].broker = row[q].broker /\ row'[q].phone = row[q].phone
      BY <1>2, <3>1 DEF RowsStay
    <3>3. batch' = batch /\ ((LegacyAmbiguous(batch[q]))' <=> LegacyAmbiguous(batch[q]))
      BY DEF cron
    <3> QED
      BY <1>2, <1>3, <3>1, <3>2, <3>3 DEF Entry
  <2>2. batch' = batch /\ snap' = snap /\ job' = job /\ who' = who /\ tel' = tel
    BY DEF cron
  <2>3. /\ row'[job[Cron]].broker = row[job[Cron]].broker
        /\ row'[job[Cron]].phone = row[job[Cron]].phone
    BY <1>1, <1>2 DEF RowsStay
  <2>4. step # "assert" => Retryable(job[Cron])'
    OBVIOUS
  <2>5. /\ snap' \in Row /\ snap'.att < MaxAttempts /\ DOMAIN batch' \subseteq Stored'
        /\ job'[Cron] \in (Stored \ DOMAIN batch)'
        /\ row'[job'[Cron]].broker = who'[Cron] /\ row'[job'[Cron]].phone = tel'[Cron]
    BY <1>1, <1>2, <2>2, <2>3 DEF Typed, CronInv
  <2> QED
    BY <1>3, <2>1, <2>2, <2>4, <2>5 DEF CronInv
<1>6. HoldInv'
  <2>1. ASSUME Holds(Cron)'
        PROVE  HeldRow(Cron)' /\ \A y \in Procs \ {Cron} : Holds(y) => job[y] # job'[Cron]
    <3>1. step = "assert"
      BY <1>3, <2>1, ProcsFacts DEF Holds
    <3>2. Marked(job[Cron])' /\ job' = job /\ who' = who /\ tel' = tel
      BY <3>1
    <3>3. /\ row'[job[Cron]].broker = row[job[Cron]].broker
          /\ row'[job[Cron]].phone = row[job[Cron]].phone
      BY <1>1, <1>2 DEF RowsStay
    <3>4. row[job[Cron]].broker = who[Cron] /\ row[job[Cron]].phone = tel[Cron]
      BY DEF Typed, CronInv
    <3> QED
      BY <1>1, <1>2, <3>2, <3>3, <3>4 DEF HeldRow, Marked
  <2> QED
    BY <1>1, <1>2, <1>3, <2>1, HoldKept, ProcsFacts
<1> QED
  BY <1>2, <1>3, <1>4, <1>5, <1>6 DEF Typed

\* The steps of the job from the check of its row to the claim.
LEMMA CronVisits ==
  ASSUME Typed,
         \/ CronCheck \/ CronNoVerdict \/ CronResolve \/ CronProceed
         \/ CronReflect \/ CronEquip \/ CronClaim
  PROVE  Typed' /\ RowsStay
<1> DEFINE r == job[Cron]
<1>1. pc[Cron] \in {"check", "ask", "reflect", "equip", "claim"}
  BY DEF CronCheck, CronNoVerdict, CronResolve, CronProceed, CronReflect, CronEquip, CronClaim
<1>2. Retryable(r) /\ r \in Rows /\ row[r] \in Row /\ pc[Cron] \notin {"idle", "recover", "batch"}
  BY <1>1 DEF Typed, CronInv, Retryable, Stored, Tables
<1>3. /\ snap \in Row /\ snap.att < MaxAttempts /\ who[Cron] \in Brokers
      /\ contact \subseteq Brokers
  BY <1>1 DEF Typed, CronInv, Locals, Tables
<1>4. /\ snap.att + 1 \in 0 .. MaxAttempts /\ row[r].att + 1 \in 0 .. MaxAttempts
      /\ row[r].att \in 0 .. MaxAttempts /\ MaxAttempts \in 0 .. MaxAttempts
  BY <1>2, <1>3, ConstantsAssumption DEF Retryable, Row
<1>5. ASSUME Defer, UNCHANGED <<contact, cron, amo, tried>> PROVE Typed' /\ RowsStay
  <2>1. row' = row \/ \E st \in {"FAILED", "PENDING"} : Write(r, st, "recheck", snap.att + 1, None)
    BY <1>5 DEF Defer
  <2>2. \A st \in {"FAILED", "PENDING"} : Columns(st, "recheck", snap.att + 1, None)
    BY <1>4 DEF Columns, Errors, Markers
  <2>3. NextRow /\ UNCHANGED cron
    BY <1>5 DEF Defer
  <2> QED
    BY <1>2, <1>3, <1>5, <2>1, <2>2, <2>3, CronEndsRow
<1>6. ASSUME NEW kind \in Refusals \cup {"unsafe"}, FailBefore(kind),
             contact' = contact, UNCHANGED <<amo, tried>>
      PROVE  Typed' /\ RowsStay
  <2>1. \E st \in {"FAILED", "PENDING"}, err \in Refusals \cup {"unsafe", "recheck"} :
          Write(r, st, err, row[r].att + 1, None)
    BY <1>2, <1>6 DEF FailBefore, Retryable
  <2>2. \A st \in {"FAILED", "PENDING"}, err \in Refusals \cup {"unsafe", "recheck"} :
          Columns(st, err, row[r].att + 1, None)
    BY <1>4 DEF Columns, Errors, Markers, Refusals
  <2>3. EndRun \/ (NextRow /\ UNCHANGED cron)
    BY <1>6 DEF FailBefore
  <2> QED
    BY <1>2, <1>3, <1>6, <2>1, <2>2, <2>3, CronEndsRow
<1>7. CASE CronCheck
  <2>1. CASE Defer
    BY <1>5, <1>7, <2>1 DEF CronCheck
  <2>2. CASE Goto(Cron, "ask") /\ UNCHANGED <<row, lease, local>>
    BY <1>2, <1>3, <1>7, <2>2, CronGoesOn, TableUnchanged DEF CronCheck, local, Retryable, Stored
  <2> QED
    BY <1>7, <2>1, <2>2 DEF CronCheck
<1>8. CASE CronNoVerdict
  BY <1>6, <1>8 DEF CronNoVerdict
<1>9. CASE CronResolve
  <2>1. PICK l \in In(tel[Cron], Rule(tel[Cron])) :
          IF Duplicate(r, row[r].broker, l)
          THEN FailBefore("unsafe")
          ELSE Write(r, "SYNCED", "none", row[r].att + 1, l) /\ NextRow /\ UNCHANGED cron
    BY <1>9 DEF CronResolve
  <2>2. l \in Leads
    BY DEF In, Known, Typed, Tables, Posted
  <2>3. Columns("SYNCED", "none", row[r].att + 1, l)
    BY <1>4, <2>2 DEF Columns, Errors, Markers
  <2>4. contact' = contact /\ UNCHANGED amo /\ tried' = tried
    BY <1>9 DEF CronResolve
  <2>5. CASE FailBefore("unsafe")
    BY <1>6, <2>4, <2>5
  <2>6. CASE Write(r, "SYNCED", "none", row[r].att + 1, l) /\ NextRow /\ UNCHANGED cron
    BY <1>2, <1>3, <2>3, <2>4, <2>6, CronEndsRow
  <2> QED
    BY <2>1, <2>5, <2>6
<1>10. CASE CronProceed
  <2>1. Known(tel[Cron]) \in SUBSET Leads
    BY DEF Known, Typed, Tables, Posted
  <2> QED
    BY <1>2, <1>3, <1>10, <2>1, CronGoesOn DEF CronProceed, Retryable, Stored
<1>11. CASE CronReflect
  <2>1. CASE Defer
    BY <1>5, <1>11, <2>1 DEF CronReflect
  <2>2. CASE Goto(Cron, "equip") /\ UNCHANGED <<row, lease, local>>
    BY <1>2, <1>3, <1>11, <2>2, CronGoesOn DEF CronReflect, local, Retryable, Stored
  <2> QED
    BY <1>11, <2>1, <2>2 DEF CronReflect
<1>12. CASE CronEquip
  <2>1. CASE FailBefore("safe") /\ UNCHANGED contact
    BY <1>6, <1>12, <2>1 DEF CronEquip, Refusals
  <2>2. CASE /\ contact' = contact \cup {who[Cron]} /\ Goto(Cron, "claim")
             /\ UNCHANGED <<row, lease, local, cron>>
    BY <1>2, <1>3, <1>12, <2>2, CronGoesOn DEF CronEquip, local, Retryable, Stored
  <2>3. CASE /\ Write(r, "PENDING", "contact", row[r].att, row[r].lead)
             /\ NextRow /\ UNCHANGED <<contact, cron>>
    <3>1. Columns("PENDING", "contact", row[r].att, row[r].lead)
      BY <1>2, <1>4 DEF Columns, Errors, Markers, Retryable
    <3> QED
      BY <1>2, <1>3, <1>12, <2>3, <3>1, CronEndsRow DEF CronEquip
  <2> QED
    BY <1>12, <2>1, <2>2, <2>3 DEF CronEquip
<1>13. CASE CronClaim
  <2>1. Columns("FAILED", "inProgress", MaxAttempts, None)
    BY <1>4 DEF Columns, Errors, Markers
  <2>2. CASE /\ Write(r, "FAILED", "inProgress", MaxAttempts, None)
             /\ Goto(Cron, "assert") /\ UNCHANGED <<lease, local>>
    <3>1. Marked(r)'
      BY <1>2, <2>1, <2>2, WrittenRow DEF Marked, Markers, local, Retryable
    <3> QED
      BY <1>2, <1>3, <1>13, <2>1, <2>2, <3>1, CronGoesOn DEF CronClaim, local
  <2>3. CASE NextRow /\ UNCHANGED row
    BY <1>2, <1>3, <1>13, <2>3, CronEndsRow DEF CronClaim
  <2> QED
    BY <1>13, <2>2, <2>3 DEF CronClaim
<1> QED
  BY <1>7, <1>8, <1>9, <1>10, <1>11, <1>12, <1>13

\* The job settles the row it holds.
LEMMA CronSettles ==
  ASSUME Typed, CronSettle
  PROVE  Typed' /\ RowsStay
<1> DEFINE r == job[Cron]
<1>1. pc[Cron] = "settle" /\ pc[Cron] \notin {"idle", "recover", "batch"}
  BY DEF CronSettle
<1>2. snap \in Row /\ snap.att < MaxAttempts /\ contact \subseteq Brokers
  BY <1>1 DEF Typed, CronInv, Tables
<1>3. snap.att + 1 \in 0 .. MaxAttempts /\ MaxAttempts \in 0 .. MaxAttempts
  BY <1>2, ConstantsAssumption DEF Row
<1>4. \/ row' = row
      \/ \E l \in Leads : Write(r, "SYNCED", "none", snap.att + 1, l)
      \/ \E err \in Refusals \cup {"recheck"} : Write(r, "FAILED", err, snap.att + 1, None)
      \/ Write(r, "FAILED", "reconcile", MaxAttempts, None)
  BY DEF CronSettle
<1>5. /\ \A l \in Leads : Columns("SYNCED", "none", snap.att + 1, l)
      /\ \A err \in Refusals \cup {"recheck"} : Columns("FAILED", err, snap.att + 1, None)
      /\ Columns("FAILED", "reconcile", MaxAttempts, None)
  BY <1>3 DEF Columns, Errors, Markers, Refusals
<1>6. /\ EndRun \/ (NextRow /\ UNCHANGED cron)
      /\ UNCHANGED amo /\ contact' = contact /\ tried' = tried
  BY DEF CronSettle
<1> QED
  BY <1>1, <1>2, <1>4, <1>5, <1>6, CronEndsRow

\* The job reads the rows of a run, and drops them one by one.
LEMMA CronReads ==
  ASSUME Typed,
         \/ CronStart \/ CronSelect \/ CronFinish
         \/ \E r \in Rows : CronRecover(r) \/ CronPark(r) \/ CronPick(r)
  PROVE  Typed' /\ RowsStay
<1>1. /\ lead' = lead /\ indexed' = indexed /\ wire' = wire /\ now' = now
      /\ contact' = contact /\ tried' = tried
  BY DEF CronStart, CronSelect, CronFinish, CronRecover, CronPark, CronPick, amo
<1>2. pc[Cron] \in {"idle", "recover", "batch"} /\ ~ Holds(Cron)
  BY ProcsFacts DEF CronStart, CronSelect, CronFinish, CronRecover, CronPark, CronPick, Holds
\* The row that is recovered or parked.
<1>3. /\ RowsStay /\ RowShape' /\ Stored' = Stored
      /\ \A y \in Procs \ {Cron} : Holds(y) => Sticks(job[y])
      /\ \/ row' = row
         \/ pc[Cron] = "recover" /\ pc'[Cron] = "recover"
         \/ \E r \in Rows : /\ CronPark(r)
                            /\ \A q \in Stored \ {r} : Retryable(q) => Retryable(q)'
  <2>1. CASE row' = row
    BY <2>1, TableUnchanged
  <2>2. CASE \E r \in Rows, l \in Leads :
                /\ r \in DOMAIN batch /\ row[r].lead = None
                /\ pc[Cron] = "recover" /\ pc' = pc
                /\ Write(r, "SYNCED", "none", row[r].att, l)
    <3>1. PICK r \in Rows, l \in Leads :
                /\ r \in DOMAIN batch /\ row[r].lead = None
                /\ Write(r, "SYNCED", "none", row[r].att, l)
      BY <2>2
    <3>2. r \in Stored /\ row[r] \in Row
      BY <3>1 DEF Typed, CronInv, Tables, Stored
    <3>3. Columns("SYNCED", "none", row[r].att, l)
      BY <3>2 DEF Columns, Row, Errors, Markers
    <3>4. /\ RowsStay /\ RowShape' /\ Stored' = Stored
          /\ \A q \in Rows \ {r} : Sticks(q)
          /\ row'[r].lead = l
      BY <3>1, <3>2, <3>3, WrittenRow
    <3>5. Sticks(r)
      BY <3>4, ConstantsAssumption DEF Sticks, Linked
    <3>6. \A y \in Procs : Holds(y) => job[y] \in Rows
      BY DEF Typed, HoldInv, HeldRow, Stored
    <3> QED
      BY <2>2, <3>4, <3>5, <3>6
  <2>3. CASE \E r \in Rows :
                /\ CronPark(r) /\ r \in DOMAIN batch /\ row[r].lead = None
                /\ Write(r, "FAILED", "reconcile", MaxAttempts, None)
    <3>1. PICK r \in Rows :
                /\ CronPark(r) /\ r \in DOMAIN batch /\ row[r].lead = None
                /\ Write(r, "FAILED", "reconcile", MaxAttempts, None)
      BY <2>3
    <3>2. r \in Stored
      BY <3>1 DEF Typed, CronInv
    <3>3. Columns("FAILED", "reconcile", MaxAttempts, None)
      BY ConstantsAssumption DEF Columns, Errors, Markers
    <3>4. /\ RowsStay /\ RowShape' /\ Stored' = Stored
          /\ \A q \in Rows \ {r} : Sticks(q) /\ (Retryable(q) => Retryable(q)')
          /\ row'[r].lead = None /\ row'[r].err = "reconcile"
      BY <3>1, <3>2, <3>3, WrittenRow
    <3>5. Sticks(r)
      BY <3>4 DEF Sticks, Marked, Markers
    <3>6. \A y \in Procs : Holds(y) => job[y] \in Rows
      BY DEF Typed, HoldInv, HeldRow, Stored
    <3> QED
      BY <3>1, <3>4, <3>5, <3>6 DEF Stored
  <2>4. \/ row' = row
        \/ \E r \in Rows, l \in Leads :
                /\ r \in DOMAIN batch /\ row[r].lead = None
                /\ pc[Cron] = "recover" /\ pc' = pc
                /\ Write(r, "SYNCED", "none", row[r].att, l)
        \/ \E r \in Rows :
                /\ CronPark(r) /\ r \in DOMAIN batch /\ row[r].lead = None
                /\ Write(r, "FAILED", "reconcile", MaxAttempts, None)
    BY DEF CronStart, CronSelect, CronFinish, CronRecover, CronPark, CronPick
  <2> QED
    BY <2>1, <2>2, <2>3, <2>4 DEF Typed, Locals
<1>4. /\ Locals' /\ Elsewhere(Cron) /\ ~ Holds(Cron)'
      /\ lease' \in [Phones -> Procs \cup {None, Dead}] /\ touched' \subseteq Rows
  <2>1. CASE EndRun
    <3>1. touched' = {} /\ Leave(Cron, "idle", None)
      BY <2>1 DEF EndRun
    <3> QED
      BY <3>1, LeaveEffect, ProcsFacts DEF Typed
  <2>2. CASE /\ \/ pc' = pc
                \/ \E s \in {"recover", "batch"} : Goto(Cron, s)
             /\ UNCHANGED <<lease, local, touched>>
    BY <1>2, <2>2, ProcsFacts DEF Goto, Typed, Tables, Locals, Elsewhere, Holds, CronSteps, local
  <2>3. CASE \E r \in Rows : /\ CronPick(r) /\ r \in DOMAIN batch
                             /\ lease[batch[r].phone] = None
    <3>1. PICK r \in Rows : /\ CronPick(r) /\ r \in DOMAIN batch
                            /\ lease[batch[r].phone] = None
      BY <2>3
    <3>2. batch[r].broker \in Brokers /\ batch[r].phone \in Phones
      BY <3>1 DEF Typed, CronInv, Entry, Row
    <3>3. /\ lease' = [lease EXCEPT ![batch[r].phone] = Cron]
          /\ job' = [job EXCEPT ![Cron] = r] /\ who' = [who EXCEPT ![Cron] = batch[r].broker]
          /\ tel' = [tel EXCEPT ![Cron] = batch[r].phone]
          /\ pc' = [pc EXCEPT ![Cron] = "check"]
          /\ listed' = listed /\ out' = out /\ touched' = touched
      BY <3>1 DEF CronPick, Goto
    <3> QED
      BY <3>2, <3>3, ProcsFacts DEF Typed, Tables, Locals, Elsewhere, Holds, CronSteps
  <2>4. \/ EndRun
        \/ /\ \/ pc' = pc
              \/ \E s \in {"recover", "batch"} : Goto(Cron, s)
           /\ UNCHANGED <<lease, local, touched>>
        \/ \E r \in Rows : /\ CronPick(r) /\ r \in DOMAIN batch
                           /\ lease[batch[r].phone] = None
    <3>1. CronStart \/ CronSelect \/ CronFinish =>
            \/ EndRun
            \/ /\ \E s \in {"recover", "batch"} : Goto(Cron, s)
               /\ UNCHANGED <<lease, local, touched>>
      BY DEF CronStart, CronSelect, CronFinish
    <3>2. \A r \in Rows : CronRecover(r) =>
            EndRun \/ (pc' = pc /\ UNCHANGED <<lease, local, touched>>)
      <4> TAKE r \in Rows
      <4> HAVE CronRecover(r)
      <4> QED
        BY Zenon DEF CronRecover
    <3>3. \A r \in Rows : CronPark(r) => pc' = pc /\ UNCHANGED <<lease, local, touched>>
      BY DEF CronPark
    <3>4. \A r \in Rows : CronPick(r) =>
            \/ pc' = pc /\ UNCHANGED <<lease, local, touched>>
            \/ r \in DOMAIN batch /\ lease[batch[r].phone] = None
      BY DEF CronPick, local
    <3> QED
      BY <3>1, <3>2, <3>3, <3>4
  <2> QED
    BY <2>1, <2>2, <2>3, <2>4
<1>5. Tables'
  BY <1>1, <1>3, <1>4 DEF Typed, Tables, RowsStay, Posted
<1>6. HoldInv'
  BY <1>3, <1>4, HoldKept, ProcsFacts
<1>7. CronInv'
  <2>1. CASE CronStart
    <3>1. /\ row' = row /\ pc'[Cron] = "recover"
          /\ batch' = [r \in {r \in Stored : Recoverable(r)} |-> row[r]]
      BY <2>1, ProcsFacts DEF CronStart, Goto, Typed, Locals
    <3>2. \A r \in DOMAIN batch' :
            r \in Stored /\ batch'[r] = row[r] /\ row[r] \in Row /\ row[r].err \in Markers
      BY <3>1 DEF Stored, Typed, Tables, Recoverable
    <3>3. \A r \in DOMAIN batch' : Entry(r)'
      BY <3>1, <3>2 DEF Entry
    <3> QED
      BY <1>3, <3>1, <3>2, <3>3 DEF CronInv
  <2>2. CASE CronSelect
    <3>1. /\ row' = row /\ pc'[Cron] = "batch"
          /\ batch' = [r \in {r \in Stored : Candidate(r)} |-> row[r]]
      BY <2>2, ProcsFacts DEF CronSelect, Goto, Typed, Locals
    <3>2. \A r \in DOMAIN batch' :
            r \in Stored /\ batch'[r] = row[r] /\ row[r] \in Row /\ Candidate(r)
      BY <3>1 DEF Stored, Typed, Tables
    <3>3. ASSUME NEW r \in DOMAIN batch' PROVE Entry(r)'
      <4>1. ~ LegacyAmbiguous(row[r]) => Retryable(r)
        BY <3>2 DEF LegacyAmbiguous, Candidate, Retryable
      <4>2. ~ (LegacyAmbiguous(batch[r]))' => Retryable(r)'
        BY <3>1, <3>2, <4>1, TableUnchanged DEF LegacyAmbiguous
      <4> QED
        BY <3>1, <3>2, <4>2 DEF Entry, Candidate
    <3> QED
      BY <1>3, <3>1, <3>2, <3>3 DEF CronInv
  <2>3. CASE EndRun
    <3>1. pc'[Cron] = "idle" /\ DOMAIN batch' = {}
      BY <2>3, ProcsFacts DEF EndRun, Leave, Goto, Empty, Typed, Locals
    <3> QED
      BY <3>1 DEF CronInv
\* A subset of what was read remains, and none of it was written.
  <2>4. ASSUME NEW D \in SUBSET (DOMAIN batch), batch' = [q \in D |-> batch[q]],
               pc'[Cron] = pc[Cron] \/ (pc[Cron] = "batch" /\ pc'[Cron] = "check"),
               pc[Cron] = "recover" \/ \A q \in D : Retryable(q) => Retryable(q)'
        PROVE  D \subseteq Stored' /\ \A q \in D : Entry(q)'
    <3>1. ASSUME NEW q \in D PROVE Entry(q)'
      <4>1. q \in Stored /\ Entry(q) /\ batch'[q] = batch[q]
        BY <2>4 DEF Typed, CronInv
      <4>2. row'[q].broker = row[q].broker /\ row'[q].phone = row[q].phone
        BY <1>3, <4>1 DEF RowsStay
      <4>3. (LegacyAmbiguous(batch[q]))' <=> LegacyAmbiguous(batch[q])
        BY <4>1
      <4> QED
        BY <2>4, <4>1, <4>2, <4>3 DEF Entry
    <3> QED
      BY <1>3, <3>1 DEF Typed, CronInv
  <2>5. CASE \E r \in Rows : CronRecover(r) /\ ~ EndRun
    <3>1. PICK r \in Rows : CronRecover(r) /\ ~ EndRun
      BY <2>5
    <3>2. /\ batch' = [q \in DOMAIN batch \ {r} |-> batch[q]]
          /\ pc[Cron] = "recover" /\ pc' = pc
      <4>1. \/ EndRun
            \/ /\ batch' = [q \in DOMAIN batch \ {r} |-> batch[q]]
               /\ pc[Cron] = "recover" /\ pc' = pc
        BY <3>1, Zenon DEF CronRecover
      <4> QED
        BY <3>1, <4>1
    <3>3. DOMAIN batch \ {r} \subseteq Stored' /\ \A q \in DOMAIN batch \ {r} : Entry(q)'
      BY <2>4, <3>2
    <3> QED
      BY <3>2, <3>3 DEF CronInv
  <2>6. CASE \E r \in Rows : CronPark(r)
    <3>1. PICK r \in Rows : CronPark(r)
      BY <2>6
    <3>2. /\ batch' = [q \in Others(r) |-> batch[q]] /\ r \in DOMAIN batch
          /\ pc[Cron] = "batch" /\ pc' = pc
      BY <3>1 DEF CronPark
    <3>3. Others(r) \subseteq DOMAIN batch \ {r}
      BY DEF Others
    <3>4. \A q \in Stored \ {r} : Retryable(q) => Retryable(q)'
      <4>1. CASE row' = row
        BY <4>1, TableUnchanged
      <4>2. CASE Write(r, "FAILED", "reconcile", MaxAttempts, None)
        <5>1. Columns("FAILED", "reconcile", MaxAttempts, None) /\ r \in Stored
          BY <3>2, ConstantsAssumption DEF Columns, Errors, Markers, Typed, CronInv
        <5> QED
          BY <4>2, <5>1, WrittenRow DEF Stored
      <4> QED
        BY <3>1, <4>1, <4>2 DEF CronPark
    <3>5. \A q \in Others(r) : Retryable(q) => Retryable(q)'
      BY <3>3, <3>4 DEF Typed, CronInv
    <3>6. Others(r) \subseteq Stored' /\ \A q \in Others(r) : Entry(q)'
      BY <2>4, <3>2, <3>3, <3>5
    <3> QED
      BY <3>2, <3>6 DEF CronInv
  <2>7. CASE \E r \in Rows : CronPick(r)
    <3>1. PICK r \in Rows : CronPick(r)
      BY <2>7
    <3>2. /\ batch' = [q \in Others(r) |-> batch[q]] /\ r \in DOMAIN batch
          /\ pc[Cron] = "batch" /\ row' = row /\ ~ LegacyAmbiguous(batch[r])
      BY <3>1 DEF CronPick
    <3>3. Others(r) \subseteq DOMAIN batch \ {r}
      BY DEF Others
    <3>4. \/ pc' = pc
          \/ /\ pc'[Cron] = "check" /\ snap' = batch[r] /\ job'[Cron] = r
             /\ who'[Cron] = batch[r].broker /\ tel'[Cron] = batch[r].phone
      BY <3>1, ProcsFacts DEF CronPick, Goto, Typed, Locals
    <3>5. Others(r) \subseteq Stored' /\ \A q \in Others(r) : Entry(q)'
      BY <2>4, <3>2, <3>3, <3>4, TableUnchanged DEF Typed, CronInv
    <3>6. Entry(r) /\ r \in Stored /\ Retryable(r)
      BY <3>2 DEF Typed, CronInv, Entry
    <3>7. pc'[Cron] = "check" => Retryable(job[Cron])'
      BY <3>2, <3>4, <3>6 DEF Retryable, Stored
    <3> QED
      BY <1>3, <3>2, <3>3, <3>4, <3>5, <3>6, <3>7 DEF CronInv, Entry
  <2>8. CronFinish => EndRun
    BY DEF CronFinish
  <2> QED
    BY <2>1, <2>2, <2>3, <2>5, <2>6, <2>7, <2>8
<1> QED
  BY <1>3, <1>4, <1>5, <1>6, <1>7 DEF Typed

\* What others do to the rows.
LEMMA TableSteps ==
  ASSUME Typed, Requeue \/ \E r \in Rows : AdminRetry(r)
  PROVE  /\ Typed' /\ RowsStay
         /\ \A r \in Stored : Sticks(r)
<1>1. /\ lead' = lead /\ indexed' = indexed /\ wire' = wire /\ now' = now
      /\ contact' = contact /\ lease' = lease /\ pc' = pc
      /\ batch' = batch /\ snap' = snap /\ tried' = tried
      /\ job' = job /\ who' = who /\ tel' = tel /\ listed' = listed /\ out' = out
  BY DEF Requeue, AdminRetry, local
<1>2. touched' \subseteq Rows
  BY DEF Requeue, AdminRetry, Touch, Typed, Tables, DeadLetters, Stored
<1>3. /\ RowsStay /\ RowShape' /\ Stored' = Stored
      /\ \A q \in Stored : Sticks(q) /\ (Retryable(q) => Retryable(q)')
  <2>1. CASE Requeue
    <3> DEFINE fresh(r) == [row[r] EXCEPT !.st = "PENDING", !.att = 0, !.err = "none"]
    <3>1. \A r \in Rows : row'[r] = IF r \in DeadLetters THEN fresh(r) ELSE row[r]
      BY <2>1 DEF Requeue
    <3>2. \A r \in DeadLetters : r \in Stored /\ row[r] \in Row /\ row[r].err = "auth" /\ row[r].lead = None
      BY DEF DeadLetters, Stored, Typed, Tables
    <3>3. ASSUME NEW r \in DeadLetters
          PROVE  /\ fresh(r) \in Row /\ fresh(r) # None
                 /\ fresh(r).broker = row[r].broker /\ fresh(r).phone = row[r].phone
                 /\ fresh(r).lead = row[r].lead /\ fresh(r).err = "none"
                 /\ fresh(r).st = "PENDING" /\ fresh(r).att = 0
      <4>1. /\ fresh(r) \in Row
            /\ fresh(r).broker = row[r].broker /\ fresh(r).phone = row[r].phone
            /\ fresh(r).lead = row[r].lead /\ fresh(r).err = "none"
            /\ fresh(r).st = "PENDING" /\ fresh(r).att = 0
        <5>1. 0 \in 0 .. MaxAttempts /\ "none" \in Errors
          BY ConstantsAssumption DEF Errors
        <5> QED
          BY <3>2, <5>1 DEF Row
      <4> QED
        BY <4>1, RecordsAssumption
    <3> HIDE DEF fresh
    <3>4. row' \in [Rows -> Row \cup {None}]
      <4>1. DOMAIN row' = Rows /\ row' = [r \in Rows |-> row'[r]]
        BY <2>1 DEF Requeue
      <4>2. \A r \in Rows : row'[r] \in Row \cup {None}
        BY <3>1, <3>3 DEF Typed, Tables
      <4> QED
        BY <4>1, <4>2
    <3>5. RowsStay /\ Stored' = Stored
      <4>1. ASSUME NEW r \in Stored
            PROVE  /\ row'[r] # None
                   /\ row'[r].broker = row[r].broker /\ row'[r].phone = row[r].phone
        <5>1. CASE r \in DeadLetters
          BY <3>1, <3>3, <5>1 DEF Stored
        <5>2. CASE r \notin DeadLetters
          BY <3>1, <5>2 DEF Stored
        <5> QED
          BY <5>1, <5>2
      <4>2. \A r \in Rows : r \notin Stored => row'[r] = None
        BY <3>1, <3>2 DEF Stored
      <4> QED
        BY <3>4, <4>1, <4>2 DEF RowsStay, Stored
    <3>6. ASSUME NEW r \in Stored
          PROVE  /\ row'[r].lead # None => row'[r].st = "SYNCED"
                 /\ row'[r].st = "SYNCED" => row'[r].err = "none"
                 /\ row'[r].err \in Markers => row'[r].st = "FAILED"
                 /\ Sticks(r) /\ (Retryable(r) => Retryable(r)')
      <4>1. r \in Rows
        BY DEF Stored
      <4>2. CASE r \in DeadLetters
        <5>1. row'[r] = fresh(r)
          BY <3>1, <4>1, <4>2
        <5>2. 0 < MaxAttempts
          BY ConstantsAssumption
        <5> QED
          BY <3>2, <3>3, <3>5, <4>2, <5>1, <5>2 DEF Sticks, Marked, Linked, Markers, Retryable
      <4>3. CASE r \notin DeadLetters
        BY <3>1, <3>5, <4>1, <4>3 DEF Sticks, Marked, Linked, Retryable, Typed, RowShape
      <4> QED
        BY <4>2, <4>3
    <3> QED
      BY <3>5, <3>6 DEF RowShape
  <2>2. CASE \E r \in Rows : AdminRetry(r)
    <3>1. PICK r \in Rows : AdminRetry(r)
      BY <2>2
    <3>2. r \in Stored /\ row[r] \in Row /\ row[r].st = "FAILED" /\ row[r].lead = None
      BY <3>1 DEF AdminRetry, Typed, Tables, Stored
    <3>3. CASE \E l \in Leads : Write(r, "SYNCED", "none", row[r].att, l) /\ ~ Retryable(r)
      <4>1. PICK l \in Leads : Write(r, "SYNCED", "none", row[r].att, l)
        BY <3>3
      <4>2. Columns("SYNCED", "none", row[r].att, l)
        BY <3>2 DEF Columns, Errors, Markers, Row
      <4>3. /\ RowsStay /\ RowShape' /\ Stored' = Stored /\ row'[r].lead = l
            /\ \A q \in Rows \ {r} : Sticks(q) /\ (Retryable(q) => Retryable(q)')
        BY <3>2, <4>1, <4>2, WrittenRow
      <4>4. Sticks(r)
        BY <4>3, ConstantsAssumption DEF Sticks, Linked
      <4> QED
        BY <3>3, <4>3, <4>4 DEF Stored
    <3>4. CASE \E err \in {"recheck", "none"} :
                 Write(r, "PENDING", err, 0, None) /\ row[r].err \notin Markers
      <4>1. PICK err \in {"recheck", "none"} : Write(r, "PENDING", err, 0, None)
        BY <3>4
      <4>2. Columns("PENDING", err, 0, None) /\ 0 < MaxAttempts
        BY ConstantsAssumption DEF Columns, Errors, Markers
      <4>3. /\ RowsStay /\ RowShape' /\ Stored' = Stored
            /\ row'[r].lead = None /\ row'[r].st = "PENDING" /\ row'[r].err = err /\ row'[r].att = 0
            /\ \A q \in Rows \ {r} : Sticks(q) /\ (Retryable(q) => Retryable(q)')
        BY <3>2, <4>1, <4>2, WrittenRow
      <4>4. Sticks(r) /\ Retryable(r)'
        BY <3>2, <3>4, <4>2, <4>3 DEF Sticks, Marked, Linked, Retryable, Markers
      <4> QED
        BY <4>3, <4>4 DEF Stored
    <3>5. \/ \E l \in Leads : Write(r, "SYNCED", "none", row[r].att, l) /\ ~ Retryable(r)
          \/ \E err \in {"recheck", "none"} :
                 Write(r, "PENDING", err, 0, None) /\ row[r].err \notin Markers
      <4>1. CASE /\ row[r].err # "recheck"
                 /\ \/ row[r].err \in Markers \cup {"unsafe"}
                    \/ row[r].err = "none" /\ row[r].st = "FAILED"
        <5>1. ~ Retryable(r)
          BY <4>1 DEF Retryable
        <5> QED
          BY <3>1, <4>1, <5>1 DEF AdminRetry
      <4>2. CASE ~ (/\ row[r].err # "recheck"
                    /\ \/ row[r].err \in Markers \cup {"unsafe"}
                       \/ row[r].err = "none" /\ row[r].st = "FAILED")
        BY <3>1, <4>2 DEF AdminRetry, Markers
      <4> QED
        BY <4>1, <4>2
    <3> QED
      BY <3>3, <3>4, <3>5
  <2> QED
    BY <2>1, <2>2
<1>4. Tables' /\ Locals'
  BY <1>1, <1>2, <1>3 DEF Typed, Tables, Locals, RowsStay, Posted
<1>5. CronInv'
  BY <1>1, <1>3, CronKept DEF CronStays
<1>6. HoldInv'
  <2>1. ASSUME Holds(Cron)' PROVE HeldRow(Cron)' /\ \A y \in Procs \ {Cron} : Holds(y) => job[y] # job'[Cron]
    <3>1. Holds(Cron) /\ HeldRow(Cron)
      BY <1>1, <2>1, ProcsFacts DEF Typed, HoldInv, Holds
    <3>2. Sticks(job[Cron]) /\ job[Cron] \in Stored
      BY <1>3, <3>1 DEF HeldRow
    <3> QED
      BY <1>1, <1>3, <3>1, <3>2, ProcsFacts DEF Typed, HoldInv, HeldRow, RowsStay, Sticks, Marked, Linked
  <2>2. \A y \in Procs : Holds(y) => Sticks(job[y])
    BY <1>3 DEF Typed, HoldInv, HeldRow
  <2> QED
    BY <1>1, <1>3, <2>1, <2>2, HoldKept, ProcsFacts DEF Elsewhere
<1> QED
  BY <1>3, <1>4, <1>5, <1>6 DEF Typed

\* amoCRM, its staff, and time.
LEMMA WorldSteps ==
  ASSUME Typed,
         \/ \E r \in Rows : Drop(r) \/ (\E l \in Leads : Accept(r, l))
         \/ \E x \in Procs : Crash(x)
         \/ \E p \in Phones : Lapse(p)
         \/ \E l \in Leads : Index(l) \/ (\E s \in LaterStages : Advance(l, s))
         \/ Tick
  PROVE  Typed' /\ RowsStay
<1>1. /\ row' = row /\ contact' = contact /\ tried' = tried
      /\ RowsStay /\ RowShape' /\ Stored' = Stored
      /\ \A r \in Stored : Retryable(r) => Retryable(r)'
      /\ \A r : Sticks(r)
  BY TableUnchanged DEF Drop, Accept, Crash, Lapse, Index, Advance, Tick
<1>2. CASE \E x \in Procs : Crash(x)
  <2>1. PICK x \in Procs : Crash(x)
    BY <1>2
  <2>2. \E step \in {"idle", "done"} : /\ Leave(x, step, Dead)
                                       /\ x = Cron => step = "idle" /\ batch' = Empty /\ touched' = {}
                                       /\ x # Cron => step = "done" /\ UNCHANGED cron
        /\ UNCHANGED amo
    BY <2>1 DEF Crash
  <2>3. /\ Locals' /\ Elsewhere(x) /\ ~ Holds(x)' /\ pc'[x] \in {"idle", "done"}
        /\ lease' \in [Phones -> Procs \cup {None, Dead}]
    BY <2>2, LeaveEffect, ProcsFacts DEF Typed
  <2>4. Tables'
    BY <1>1, <2>2, <2>3 DEF Typed, Tables, Posted, amo, cron
  <2>5. HoldInv'
    BY <1>1, <2>3, HoldKept
  <2>6. CronInv'
    <3>1. CASE x = Cron
      <4>1. DOMAIN batch' = {} /\ pc'[Cron] = "idle"
        BY <2>2, <2>3, <3>1 DEF Empty, Locals, CronSteps
      <4> QED
        BY <4>1 DEF CronInv
    <3>2. CASE x # Cron
      BY <1>1, <2>2, <2>3, <3>2, CronKept, ProcsFacts DEF CronStays, Elsewhere, cron
    <3> QED
      BY <3>1, <3>2
  <2> QED
    BY <1>1, <2>3, <2>4, <2>5, <2>6 DEF Typed
<1>3. CASE ~ \E x \in Procs : Crash(x)
  <2>1. /\ pc' = pc /\ job' = job /\ who' = who /\ tel' = tel /\ listed' = listed /\ out' = out
        /\ batch' = batch /\ snap' = snap /\ touched' = touched
    BY <1>3 DEF Drop, Accept, Lapse, Index, Advance, Tick, local, cron
  <2>2. lease' \in [Phones -> Procs \cup {None, Dead}] /\ now' \in Nat /\ wire' \subseteq Stored
    BY <1>3 DEF Drop, Accept, Lapse, Index, Advance, Tick, amo, Typed, Tables
  <2>3. /\ lead' \in [Leads -> Lead \cup {None}] /\ indexed' \subseteq Posted'
        /\ \A l \in Posted' : lead'[l].row \in Stored
    <3>1. CASE lead' = lead
      <4>1. indexed' \subseteq Posted
        BY <1>3, <3>1 DEF Drop, Accept, Lapse, Index, Advance, Tick, amo, Typed, Tables
      <4> QED
        BY <3>1, <4>1 DEF Typed, Tables, Posted
    <3>2. CASE \E r \in Rows, l \in Leads : Accept(r, l)
      <4>1. PICK r \in Rows, l \in Leads : Accept(r, l)
        BY <3>2
      <4> DEFINE new == [row |-> r, stage |-> "kc", born |-> now, contacts |-> {row[r].broker}]
      <4>2. lead' = [lead EXCEPT ![l] = new] /\ indexed' = indexed /\ r \in Stored /\ row[r] \in Row
        BY <4>1 DEF Accept, Typed, Tables, Stored
      <4>3. new \in Lead /\ new.row = r
        BY <4>2 DEF Lead, Stages, Row, Typed, Tables
      <4>4. new # None
        BY <4>3, RecordsAssumption
      <4> HIDE DEF new
      <4> QED
        BY <4>2, <4>3, <4>4 DEF Typed, Tables, Posted
    <3>3. CASE \E l \in Leads, s \in LaterStages : Advance(l, s)
      <4>1. PICK l \in Leads, s \in LaterStages : Advance(l, s)
        BY <3>3
      <4> DEFINE new == [lead[l] EXCEPT !.stage = s]
      <4>2. lead' = [lead EXCEPT ![l] = new] /\ indexed' = indexed /\ l \in Posted /\ lead[l] \in Lead
        BY <4>1 DEF Advance, Typed, Tables, Posted
      <4>3. new \in Lead /\ new.row = lead[l].row
        BY <4>2, ConstantsAssumption DEF Lead, Stages
      <4>4. new # None
        BY <4>3, RecordsAssumption
      <4> HIDE DEF new
      <4> QED
        BY <4>2, <4>3, <4>4 DEF Typed, Tables, Posted
    <3> QED
      BY <1>3, <3>1, <3>2, <3>3 DEF Drop, Lapse, Index, Tick, amo
  <2>4. Tables' /\ Locals'
    BY <1>1, <2>1, <2>2, <2>3 DEF Typed, Tables, Locals
  <2>5. CronInv'
    BY <1>1, <2>1, CronKept DEF CronStays
  <2>6. HoldInv'
    BY <1>1, <2>1 DEF Typed, HoldInv, HeldRow, Holds, Marked, Linked
  <2> QED
    BY <1>1, <2>4, <2>5, <2>6 DEF Typed
<1> QED
  BY <1>2, <1>3

LEMMA StepTyped ==
  ASSUME Typed, [Next]_vars
  PROVE  Typed' /\ RowsStay
<1>1. CASE \E u \in Uis, b \in Brokers, p \in Phones : UiStart(u, b, p)
  BY <1>1, UiMoves
<1>2. CASE \E u \in Uis : UiStep(u)
  BY <1>2, UiMoves, UiInserts, UiSettles DEF UiStep
<1>3. CASE \E x \in Procs : PostStep(x)
  BY <1>3, PostSteps
<1>4. CASE CronStep
  BY <1>4, CronReads, CronVisits, CronSettles DEF CronStep
<1>5. CASE World
  BY <1>5, TableSteps, WorldSteps DEF World
<1>6. CASE UNCHANGED vars
  <2>1. /\ row' = row /\ lead' = lead /\ indexed' = indexed /\ wire' = wire
        /\ contact' = contact /\ lease' = lease /\ pc' = pc /\ job' = job /\ who' = who
        /\ tel' = tel /\ listed' = listed /\ out' = out /\ batch' = batch /\ snap' = snap
        /\ touched' = touched /\ now' = now /\ tried' = tried
    BY <1>6 DEF vars
  <2>2. Tables' /\ RowShape' /\ Locals'
    BY <2>1, TableUnchanged DEF Typed, Tables, Locals, Posted
  <2>3. CronInv'
    BY <2>1, CronKept, TableUnchanged DEF CronStays
  <2>4. HoldInv'
    BY <2>1 DEF Typed, HoldInv, HeldRow, Holds, Marked, Linked, Stored
  <2> QED
    BY <2>1, <2>2, <2>3, <2>4, TableUnchanged DEF Typed
<1> QED
  BY <1>1, <1>2, <1>3, <1>4, <1>5, <1>6 DEF Next

LEMMA TypedStep == Typed /\ [Next]_vars => Typed'
BY StepTyped

LEMMA TypedInit == Init => Typed
<1> SUFFICES ASSUME Init PROVE Typed
  OBVIOUS
<1>1. Stored = {} /\ Posted = {}
  BY DEF Init, Stored, Posted
<1>2. Tables /\ RowShape
  BY <1>1, ConstantsAssumption DEF Init, Tables, RowShape
<1>3. Locals
  BY ProcsFacts DEF Init, Locals, UiSteps, CronSteps
<1>4. CronInv
  BY <1>1, ProcsFacts DEF Init, CronInv, Empty
<1>5. HoldInv
  BY DEF Init, HoldInv, Holds
<1> QED
  BY <1>2, <1>3, <1>4, <1>5 DEF Typed

LEMMA AlwaysTyped == Spec => []Typed
BY TypedInit, TypedStep, PTL DEF Spec

\* The table, the leads, the requests in flight and the leases keep their types.
THEOREM TypeCorrect == Spec => []TypeOK
<1>1. Typed => TypeOK
  BY DEF Typed, Tables, TypeOK, Stored
<1> QED
  BY <1>1, AlwaysTyped, PTL

-----------------------------------------------------------------------------
(* What a step may do to a stored row.                                     *)

\* A row gets a lead that lists its broker, or the one its writer was given,
\* unless another row of the broker has that lead.
GetsLead(r, l) ==
  /\ row'[r].lead = l /\ row'[r].st = "SYNCED" /\ l \in Leads
  /\ ~ Duplicate(r, row[r].broker, l)
  /\ \/ l \in Posted /\ PhoneOf(l) = row[r].phone /\ row[r].broker \in lead[l].contacts
     \/ \E x \in Procs : pc[x] = "settle" /\ job[x] = r /\ out[x] = l

\* A writer learned that nothing was created for the row.
GetsRefusal(r) ==
  \E x \in Procs : /\ pc[x] = "settle" /\ job[x] = r
                   /\ out[x] \in Refusals \cup {"contact"}

RowStep(r) ==
  \/ row'[r] = row[r]
  \/ ~ Marked(r) /\ ~ Linked(r) /\ row[r].st # "SYNCED"
  \/ Marked(r) /\ Marked(r)'
  \/ Marked(r) /\ \E l \in Leads : GetsLead(r, l)
  \/ Marked(r) /\ GetsRefusal(r)

\* A lead that recovery finds was listed for the phone and the broker.
LEMMA FoundLead ==
  ASSUME Typed, NEW p, NEW b, NEW w, NEW l, Found(p, b, w, l)
  PROVE  l \in Posted /\ l \in Leads /\ PhoneOf(l) = p /\ b \in lead[l].contacts
<1>1. l \in Matches(p, b, w)
  BY DEF Found
<1> QED
  BY <1>1 DEF Matches, Known, Typed, Tables, Posted

LEMMA WriteIsOne ==
  ASSUME Typed, NEW q \in Stored, NEW st, NEW err, NEW att, NEW l, Write(q, st, err, att, l)
  PROVE  \A r \in Stored : r # q => row'[r] = row[r]
BY DEF Write, Typed, Tables, Stored

LEMMA InsertIsNew ==
  ASSUME Typed, NEW q \in Rows, NEW u, NEW st, NEW err, NEW att, NEW l,
         NewRow(q, u, st, err, att, l)
  PROVE  \A r \in Stored : row'[r] = row[r]
BY DEF NewRow, Typed, Tables, Stored

\* The job writes the row it has not claimed.
LEMMA RetryableStep ==
  ASSUME Typed, NEW q, Retryable(q),
         row' = row \/ \E st, err, att, l : Write(q, st, err, att, l)
  PROVE  \A r \in Stored : RowStep(r)
<1>1. ~ Marked(q) /\ ~ Linked(q) /\ row[q].st # "SYNCED" /\ q \in Stored
  BY DEF Retryable, Marked, Linked
<1> QED
  BY <1>1, WriteIsOne DEF RowStep

\* A writer settles its row.
LEMMA SettleStep ==
  ASSUME Typed, NEW x \in Procs, pc[x] = "settle",
         \/ row' = row
         \/ /\ InProgress(job[x])
            /\ \/ /\ out[x] \in Leads /\ ~ Duplicate(job[x], row[job[x]].broker, out[x])
                  /\ \E att \in 0 .. MaxAttempts : Write(job[x], "SYNCED", "none", att, out[x])
               \/ /\ out[x] \in Refusals \cup {"contact"}
                  /\ \E st, err, att, l : Write(job[x], st, err, att, l)
               \/ Write(job[x], "FAILED", "reconcile", MaxAttempts, None)
  PROVE  \A r \in Stored : RowStep(r)
<1>1. Holds(x) /\ job[x] \in Stored /\ job[x] \in Rows
  BY DEF Holds, Typed, HoldInv, HeldRow, Stored
<1> SUFFICES ASSUME NEW r \in Stored PROVE RowStep(r)
  OBVIOUS
<1>2. CASE row' = row
  BY <1>2 DEF RowStep
<1>3. CASE r # job[x]
  BY <1>1, <1>2, <1>3, WriteIsOne DEF RowStep
<1>4. CASE r = job[x] /\ InProgress(job[x])
  <2>1. Marked(r)
    BY <1>4 DEF Marked, InProgress, Markers
  <2>2. CASE /\ out[x] \in Leads /\ ~ Duplicate(job[x], row[job[x]].broker, out[x])
             /\ \E att \in 0 .. MaxAttempts : Write(job[x], "SYNCED", "none", att, out[x])
    <3>1. PICK att \in 0 .. MaxAttempts : Write(job[x], "SYNCED", "none", att, out[x])
      BY <2>2
    <3>2. Columns("SYNCED", "none", att, out[x])
      BY <2>2 DEF Columns, Errors, Markers
    <3>3. row'[r].lead = out[x] /\ row'[r].st = "SYNCED"
      BY <1>1, <1>4, <3>1, <3>2, WrittenRow
    <3> QED
      BY <1>4, <2>1, <2>2, <3>3 DEF RowStep, GetsLead
  <2>3. CASE out[x] \in Refusals \cup {"contact"}
    BY <1>4, <2>1, <2>3 DEF RowStep, GetsRefusal
  <2>4. CASE Write(job[x], "FAILED", "reconcile", MaxAttempts, None)
    <3>1. Columns("FAILED", "reconcile", MaxAttempts, None)
      BY ConstantsAssumption DEF Columns, Errors, Markers
    <3>2. row'[r].lead = None /\ row'[r].err = "reconcile"
      BY <1>1, <1>4, <2>4, <3>1, WrittenRow
    <3>3. Marked(r)'
      BY <3>2 DEF Marked, Markers
    <3> QED
      BY <2>1, <3>3 DEF RowStep
  <2> QED
    BY <1>2, <1>4, <2>2, <2>3, <2>4
<1> QED
  BY <1>2, <1>3, <1>4

LEMMA RowSteps ==
  ASSUME Typed, [Next]_vars
  PROVE  \A r \in Stored : RowStep(r)
<1>1. CASE row' = row
  BY <1>1 DEF RowStep
<1>2. CASE \E u \in Uis : UiAlarm(u) \/ UiRecordOnly(u) \/ \E r \in Rows : UiCreate(u, r)
  <2>1. row' = row \/ \E u, st, err, att, l : \E r \in Rows : NewRow(r, u, st, err, att, l)
    BY <1>2 DEF UiAlarm, UiRecordOnly, UiCreate
  <2> QED
    BY <2>1, InsertIsNew DEF RowStep
<1>3. CASE \E u \in Uis : UiSettle(u)
  <2>1. PICK u \in Uis : UiSettle(u)
    BY <1>3
  <2>2. 1 \in 0 .. MaxAttempts /\ u \in Procs
    BY ConstantsAssumption, ProcsFacts
  <2>3. pc[u] = "settle"
    BY <2>1 DEF UiSettle
  <2>4. \/ row' = row
        \/ /\ InProgress(job[u])
           /\ \/ /\ out[u] \in Leads /\ ~ Duplicate(job[u], row[job[u]].broker, out[u])
                 /\ Write(job[u], "SYNCED", "none", 1, out[u])
              \/ out[u] = "contact" /\ Write(job[u], "PENDING", "contact", 0, None)
              \/ out[u] \in Refusals /\ Write(job[u], "FAILED", out[u], 1, None)
              \/ Write(job[u], "FAILED", "reconcile", MaxAttempts, None)
    BY <2>1 DEF UiSettle
  <2> QED
    BY <2>2, <2>3, <2>4, SettleStep
<1>4. CASE CronSettle
  <2>1. pc[Cron] = "settle" /\ Cron \in Procs
    BY <1>4, ProcsFacts DEF CronSettle
  <2>2. snap.att + 1 \in 0 .. MaxAttempts
    BY <2>1, ConstantsAssumption DEF Typed, CronInv, Row
  <2>3. \/ row' = row
        \/ /\ InProgress(job[Cron])
           /\ \/ /\ out[Cron] \in Leads /\ ~ Duplicate(job[Cron], row[job[Cron]].broker, out[Cron])
                 /\ Write(job[Cron], "SYNCED", "none", snap.att + 1, out[Cron])
              \/ /\ out[Cron] \in Refusals
                 /\ \E err : Write(job[Cron], "FAILED", err, snap.att + 1, None)
              \/ Write(job[Cron], "FAILED", "reconcile", MaxAttempts, None)
    BY <1>4 DEF CronSettle
  <2> QED
    BY <2>1, <2>2, <2>3, SettleStep
<1>5. CASE \/ CronCheck \/ CronNoVerdict \/ CronResolve \/ CronReflect \/ CronEquip \/ CronClaim
  <2>1. pc[Cron] \in {"check", "ask", "reflect", "equip", "claim"}
    BY <1>5 DEF CronCheck, CronNoVerdict, CronResolve, CronReflect, CronEquip, CronClaim
  <2>2. Retryable(job[Cron])
    BY <2>1 DEF Typed, CronInv
  <2>3. row' = row \/ \E st, err, att, l : Write(job[Cron], st, err, att, l)
    BY <1>5 DEF CronCheck, CronNoVerdict, CronResolve, CronReflect, CronEquip, CronClaim,
                Defer, FailBefore
  <2> QED
    BY <2>2, <2>3, RetryableStep
<1>6. CASE \E r \in Rows : CronPark(r)
  <2>1. PICK r \in Rows : CronPark(r)
    BY <1>6
  <2>2. r \in Stored /\ Entry(r) /\ pc[Cron] = "batch"
    BY <2>1 DEF CronPark, Typed, CronInv
  <2>3. \/ row' = row
        \/ /\ row[r].lead = None /\ row[r].err = batch[r].err /\ row[r].st = batch[r].st
           /\ Write(r, "FAILED", "reconcile", MaxAttempts, None)
    BY <2>1 DEF CronPark
  <2>4. CASE /\ row[r].lead = None /\ row[r].err = batch[r].err /\ row[r].st = batch[r].st
             /\ Write(r, "FAILED", "reconcile", MaxAttempts, None)
    <3>1. ~ Marked(r) /\ ~ Linked(r) /\ row[r].st # "SYNCED"
      BY <2>2, <2>4 DEF Marked, Linked, Entry
    <3> QED
      BY <2>2, <2>4, <3>1, WriteIsOne DEF RowStep
  <2> QED
    BY <1>1, <2>3, <2>4
\* Recovery, by the job or by an administrator.
<1>7. ASSUME NEW q \in Stored, NEW l \in Leads, NEW w, row[q].lead = None,
             Found(row[q].phone, row[q].broker, w, l),
             ~ Duplicate(q, row[q].broker, l),
             Write(q, "SYNCED", "none", row[q].att, l),
             Marked(q) \/ row[q].st = "FAILED"
      PROVE  \A r \in Stored : RowStep(r)
  <2>1. row[q].att \in 0 .. MaxAttempts
    BY DEF Typed, Tables, Stored, Row
  <2>2. Columns("SYNCED", "none", row[q].att, l)
    BY <2>1 DEF Columns, Errors, Markers
  <2>3. row'[q].lead = l /\ row'[q].st = "SYNCED"
    BY <1>7, <2>2, WrittenRow
  <2>4. GetsLead(q, l)
    BY <1>7, <2>3, FoundLead DEF GetsLead
  <2>5. RowStep(q)
    BY <1>7, <2>4 DEF RowStep, Marked, Linked
  <2> QED
    BY <1>7, <2>5, WriteIsOne DEF RowStep
<1>8. CASE \E r \in Rows : CronRecover(r)
  <2>1. PICK r \in Rows : CronRecover(r)
    BY <1>8
  <2>2. r \in Stored /\ Entry(r) /\ pc[Cron] = "recover"
    BY <2>1 DEF CronRecover, Typed, CronInv
  <2>3. \/ row' = row
        \/ \E l \in Leads :
              /\ Found(batch[r].phone, batch[r].broker, batch[r].born, l)
              /\ row[r].lead = None /\ row[r].err = batch[r].err
              /\ ~ Duplicate(r, batch[r].broker, l)
              /\ Write(r, "SYNCED", "none", row[r].att, l)
    BY <2>1 DEF CronRecover
  <2>4. batch[r].broker = row[r].broker /\ batch[r].phone = row[r].phone /\ batch[r].err \in Markers
    BY <2>2 DEF Entry
  <2> QED
    BY <1>1, <1>7, <2>2, <2>3, <2>4 DEF Marked
<1>9. CASE \E r \in Rows : AdminRetry(r)
  <2>1. PICK r \in Rows : AdminRetry(r)
    BY <1>9
  <2>2. r \in Stored /\ row[r].lead = None /\ row[r].st = "FAILED"
    BY <2>1 DEF AdminRetry
  <2>3. \/ \E l \in Leads :
              /\ Found(row[r].phone, row[r].broker, row[r].born, l)
              /\ ~ Duplicate(r, row[r].broker, l)
              /\ Write(r, "SYNCED", "none", row[r].att, l)
        \/ /\ row[r].err \notin Markers
           /\ \E st, err, att, l : Write(r, st, err, att, l)
    BY <2>1 DEF AdminRetry, Markers
  <2>4. CASE /\ row[r].err \notin Markers
             /\ \E st, err, att, l : Write(r, st, err, att, l)
    BY <2>2, <2>4, WriteIsOne DEF RowStep, Marked, Linked
  <2> QED
    BY <1>7, <2>2, <2>3, <2>4
<1>10. CASE Requeue
  <2>1. \A r \in Stored : r \notin DeadLetters => row'[r] = row[r]
    BY <1>10 DEF Requeue, Stored
  <2>2. \A r \in DeadLetters : ~ Marked(r) /\ ~ Linked(r) /\ row[r].st # "SYNCED"
    BY DEF DeadLetters, Marked, Linked, Markers
  <2> QED
    BY <2>1, <2>2 DEF RowStep
\* The other steps leave the table alone.
<1>11. CASE \E u \in Uis : UiStep(u)
  BY <1>1, <1>2, <1>3, <1>11 DEF UiStep, UiNoVerdict, UiProceed, UiCheck, UiReflect
<1>12. CASE CronStep
  BY <1>1, <1>4, <1>5, <1>6, <1>8, <1>12 DEF CronStep, CronStart, CronSelect, CronFinish,
     CronPick, CronProceed
<1>13. CASE World
  BY <1>1, <1>9, <1>10, <1>13 DEF World, Drop, Accept, Crash, Lapse, Index, Advance, Tick
<1>14. CASE \/ \E u \in Uis, b \in Brokers, p \in Phones : UiStart(u, b, p)
            \/ \E x \in Procs : PostStep(x)
            \/ UNCHANGED vars
  BY <1>1, <1>14 DEF UiStart, PostStep, AssertOwned, FailBeforePost, Send, Reply, Refuse,
     NoAnswer, vars
<1> QED
  BY <1>11, <1>12, <1>13, <1>14 DEF Next

LEMMA LinkStays ==
  ASSUME Typed, [Next]_vars, NEW r \in Stored, row[r].st = "SYNCED" \/ Linked(r)
  PROVE  row'[r].st = "SYNCED" /\ row'[r].lead = row[r].lead
<1>1. RowStep(r)
  BY RowSteps
<1>2. row[r].st = "SYNCED" /\ ~ Marked(r)
  BY DEF Typed, RowShape, Marked, Markers, Linked
<1> QED
  BY <1>1, <1>2 DEF RowStep

\* A link, or the state SYNCED, is final (see LinksAreFinal).
THEOREM LinksStay == Spec => LinksAreFinal
<1>1. Typed /\ [Next]_vars =>
        [\A r \in Stored : row[r].st = "SYNCED" \/ row[r].lead # None =>
           row'[r].st = "SYNCED" /\ row'[r].lead = row[r].lead]_vars
  BY LinkStays DEF Linked
<1> QED
  BY <1>1, AlwaysTyped, PTL DEF Spec, LinksAreFinal

-----------------------------------------------------------------------------
(* What a step may do to a writer.                                         *)

\* The writer has given its row up, or has not yet looked at the table.
Rests(x) == \/ pc'[x] \in {"idle", "done", "batch", "recover", "check"}
            \/ x \in Uis /\ pc'[x] = "ask"

NoNewLease(x) == \A p \in Phones : lease'[p] = x => lease[p] = x

Stands(x) == pc'[x] = pc[x] /\ listed'[x] = listed[x] /\ out'[x] = out[x]

\* The row a writer leaves out of the two queries for its phone.
Own(x) == IF x = Cron THEN job[x] ELSE None

Passes(x) == /\ pc[x] = "check" /\ pc'[x] \in {"create", "ask"}
             /\ Unresolved(tel[x], Own(x)) = {}

\* The marker is stored, in a new row or in one whose POST was never open.
Marks(x) ==
  /\ \/ x \in Uis /\ pc[x] = "create" /\ pc'[x] = "reflect" /\ job'[x] \notin Stored
     \/ /\ x = Cron /\ pc[x] = "claim" /\ pc'[x] = "assert"
        /\ job'[x] = job[x] /\ Retryable(job[x]) /\ listed'[x] = listed[x]
  /\ Marked(job[x])'

Proceeds(x) == \/ x = Cron /\ pc[x] = "ask" /\ pc'[x] = "reflect"
               \/ pc[x] = "send" /\ pc'[x] = "wait"

Reflects(x) ==
  /\ pc[x] = "reflect" /\ pc'[x] = (IF x = Cron THEN "equip" ELSE "assert")
  /\ listed'[x] = listed[x]
  /\ Unreflected(tel[x], job[x], listed[x]) = {}

Equips(x) == x = Cron /\ pc[x] = "equip" /\ pc'[x] = "claim" /\ listed'[x] = listed[x]

Asserts(x) == /\ pc[x] = "assert" /\ pc'[x] = "send" /\ lease[tel[x]] = x
              /\ listed'[x] = listed[x]

\* The outcome of createFixationRequest, and what it rests on.
GivesUp(x) ==
  /\ pc'[x] = "settle"
  /\ pc[x] \in {"assert", "send", "wait"} \/ (x \in Uis /\ pc[x] = "reflect")
  /\ \/ out'[x] = "reconcile"
     \/ /\ (x \in Uis /\ pc[x] = "reflect") \/ pc[x] = "send"
        /\ out'[x] \in Refusals \cup {"contact"}
     \/ /\ pc[x] = "wait" /\ out'[x] \in Refusals
        /\ job[x] \in wire /\ job[x] \notin wire' /\ lead' = lead
     \/ out'[x] \in Posted /\ lead[out'[x]].row = job[x]
     \/ pc[x] = "wait" /\ Found(tel[x], who[x], now, out'[x])

Moves(x) ==
  \/ Rests(x)
  \/ /\ NoNewLease(x) /\ who'[x] = who[x] /\ tel'[x] = tel[x]
     /\ \/ Marks(x)
        \/ /\ job'[x] = job[x]
           /\ \/ Stands(x) \/ Passes(x) \/ Proceeds(x) \/ Reflects(x)
              \/ Equips(x) \/ Asserts(x) \/ GivesUp(x)

LEMMA OneMoves ==
  ASSUME NEW x \in Procs, Elsewhere(x), Moves(x),
         \A y \in Procs \ {x} : NoNewLease(y)
  PROVE  \A y \in Procs : Moves(y)
BY DEF Elsewhere, Moves, Stands

LEMMA NobodyMoves ==
  ASSUME UNCHANGED <<pc, local>>, \A y \in Procs : NoNewLease(y)
  PROVE  \A y \in Procs : Moves(y)
BY DEF Moves, Stands, local

LEMMA LeaverMoves ==
  ASSUME Typed, NEW x \in Procs, NEW step, NEW left \in {None, Dead},
         x \in Uis => step = "done", x = Cron => step \in {"batch", "idle"},
         Leave(x, step, left)
  PROVE  \A y \in Procs : Moves(y)
<1>1. /\ Elsewhere(x) /\ pc'[x] = step
      /\ \A p \in Phones : lease'[p] = lease[p] \/ lease'[p] \in {None, Dead}
  BY LeaveEffect DEF Typed
<1>2. \A y \in Procs : NoNewLease(y)
  BY <1>1, ConstantsAssumption DEF NoNewLease, Procs
<1>3. Rests(x)
  BY <1>1, ProcsFacts DEF Rests
<1> QED
  BY <1>1, <1>2, <1>3, OneMoves DEF Moves

\* One writer goes to another step and keeps the rest of its locals, but for those named.
LEMMA GoerMoves ==
  ASSUME Typed, NEW x \in Procs, NEW step, Goto(x, step), lease' = lease,
         who' = who, tel' = tel,
         \A y \in Procs \ {x} : /\ job'[y] = job[y] /\ listed'[y] = listed[y]
                                /\ out'[y] = out[y]
  PROVE  /\ pc'[x] = step /\ who'[x] = who[x] /\ tel'[x] = tel[x] /\ NoNewLease(x)
         /\ Moves(x) => \A y \in Procs : Moves(y)
<1>1. pc'[x] = step /\ Elsewhere(x)
  BY DEF Goto, Typed, Locals, Elsewhere
<1>2. \A y \in Procs : NoNewLease(y)
  BY DEF NoNewLease
<1> QED
  BY <1>1, <1>2, OneMoves

LEMMA UiStepMoves ==
  ASSUME Typed, NEW u \in Uis,
         UiStep(u) \/ \E b \in Brokers, p \in Phones : UiStart(u, b, p)
  PROVE  \A y \in Procs : Moves(y)
<1>1. u \in Procs /\ u # Cron
  BY ProcsFacts
<1>2. CASE Quit(u)
  BY <1>1, <1>2, LeaverMoves DEF Quit
<1>3. CASE \E b \in Brokers, p \in Phones : UiStart(u, b, p)
  <2>1. PICK b \in Brokers, p \in Phones : UiStart(u, b, p)
    BY <1>3
  <2>2. /\ pc' = [pc EXCEPT ![u] = "ask"] /\ who' = [who EXCEPT ![u] = b]
        /\ tel' = [tel EXCEPT ![u] = p] /\ job' = job /\ listed' = listed
        /\ lease' = [lease EXCEPT ![p] = u]
        /\ \E o : out' = [out EXCEPT ![u] = o]
    BY <2>1 DEF UiStart, Goto
  <2>3. Elsewhere(u) /\ pc'[u] = "ask" /\ \A y \in Procs \ {u} : NoNewLease(y)
    BY <1>1, <2>2 DEF Typed, Tables, Locals, Elsewhere, NoNewLease
  <2> QED
    BY <1>1, <2>3, OneMoves DEF Moves, Rests
<1>4. CASE UiProceed(u)
  <2>1. /\ Goto(u, "check") /\ lease' = lease /\ who' = who /\ tel' = tel
        /\ \A y \in Procs \ {u} : /\ job'[y] = job[y] /\ listed'[y] = listed[y]
                                  /\ out'[y] = out[y]
    BY <1>4 DEF UiProceed, Typed, Locals
  <2> QED
    BY <1>1, <2>1, GoerMoves DEF Moves, Rests
<1>5. CASE UiCheck(u)
  <2>1. CASE Unresolved(tel[u], None) = {}
    <3>1. pc[u] = "check" /\ Goto(u, "create") /\ UNCHANGED <<lease, local>>
      BY <1>5, <2>1 DEF UiCheck
    <3>2. pc'[u] = "create" /\ (Moves(u) => \A y \in Procs : Moves(y)) /\ NoNewLease(u)
      BY <1>1, <3>1, GoerMoves DEF local
    <3>3. Passes(u) /\ job'[u] = job[u] /\ who'[u] = who[u] /\ tel'[u] = tel[u]
      BY <1>1, <2>1, <3>1, <3>2 DEF Passes, Own, local
    <3> QED
      BY <3>2, <3>3 DEF Moves
  <2> QED
    BY <1>2, <1>5, <2>1 DEF UiCheck
<1>6. CASE \E r \in Rows : UiCreate(u, r)
  <2>1. PICK r \in Rows : UiCreate(u, r)
    BY <1>6
  <2>2. /\ pc[u] = "create" /\ NewRow(r, u, "FAILED", "inProgress", MaxAttempts, None)
        /\ job' = [job EXCEPT ![u] = r] /\ Goto(u, "reflect")
        /\ UNCHANGED <<lease, who, tel, listed, out>>
    BY <2>1 DEF UiCreate
  <2>3. /\ pc'[u] = "reflect" /\ who'[u] = who[u] /\ tel'[u] = tel[u] /\ NoNewLease(u)
        /\ Moves(u) => \A y \in Procs : Moves(y)
    BY <1>1, <2>2, GoerMoves DEF Typed, Locals
  <2>4. /\ "FAILED" \in {"SYNCED", "PENDING", "FAILED"} /\ "inProgress" \in Errors
        /\ MaxAttempts \in 0 .. MaxAttempts /\ None \in Leads \cup {None}
        /\ who[u] \in Brokers /\ tel[u] \in Phones
    BY <2>2, ConstantsAssumption DEF Errors, Markers, Typed, Locals
  <2>5. r \notin Stored /\ row'[r].lead = None /\ row'[r].err = "inProgress"
    BY <2>2, <2>4, InsertEffect DEF Typed
  <2>6. Marks(u)
    BY <1>1, <2>2, <2>3, <2>5 DEF Marks, Marked, Markers, Typed, Locals
  <2> QED
    BY <2>3, <2>6 DEF Moves
<1>7. CASE UiReflect(u)
  <2>1. CASE Unreflected(tel[u], job[u], listed[u]) = {}
    <3>1. /\ pc[u] = "reflect" /\ UNCHANGED <<lease, local>>
          /\ \/ Goto(u, "assert")
             \/ Goto(u, "settle") /\ out[u] = "contact"
      BY <1>7, <2>1 DEF UiReflect
    <3>2. PICK step \in {"assert", "settle"} :
            Goto(u, step) /\ (step = "settle" => out[u] = "contact")
      BY <3>1
    <3>3. pc'[u] = step /\ (Moves(u) => \A y \in Procs : Moves(y)) /\ NoNewLease(u)
      BY <1>1, <3>1, <3>2, GoerMoves DEF local
    <3>4. /\ job'[u] = job[u] /\ who'[u] = who[u] /\ tel'[u] = tel[u]
          /\ listed'[u] = listed[u] /\ out'[u] = out[u]
      BY <3>1 DEF local
    <3>5. Reflects(u) \/ GivesUp(u)
      BY <1>1, <2>1, <3>1, <3>2, <3>3, <3>4 DEF Reflects, GivesUp
    <3> QED
      BY <3>3, <3>4, <3>5 DEF Moves
  <2> QED
    BY <1>2, <1>7, <2>1 DEF UiReflect
<1> QED
  BY <1>2, <1>3, <1>4, <1>5, <1>6, <1>7 DEF UiStep, UiNoVerdict, UiAlarm, UiRecordOnly, UiSettle

LEMMA PostStepMoves ==
  ASSUME Typed, NEW x \in Procs, PostStep(x)
  PROVE  \A y \in Procs : Moves(y)
<1>1. lease' = lease /\ job' = job /\ who' = who /\ tel' = tel /\ listed' = listed
  BY DEF PostStep, AssertOwned, FailBeforePost, Send, Reply, Refuse, NoAnswer, local
<1>2. ASSUME NEW o, Outcome(x, o), pc[x] \in {"assert", "send", "wait"},
             \/ o = "reconcile"
             \/ pc[x] = "send" /\ o \in Refusals
             \/ /\ pc[x] = "wait" /\ o \in Refusals
                /\ job[x] \in wire /\ job[x] \notin wire' /\ lead' = lead
             \/ o \in Posted /\ lead[o].row = job[x]
             \/ pc[x] = "wait" /\ Found(tel[x], who[x], now, o)
      PROVE  \A y \in Procs : Moves(y)
  <2>1. Goto(x, "settle") /\ out'[x] = o /\ \A y \in Procs \ {x} : out'[y] = out[y]
    BY <1>2 DEF Outcome, Typed, Locals
  <2>2. pc'[x] = "settle" /\ NoNewLease(x) /\ (Moves(x) => \A y \in Procs : Moves(y))
    BY <1>1, <2>1, GoerMoves
  <2>3. GivesUp(x)
    BY <1>2, <2>1, <2>2 DEF GivesUp
  <2> QED
    BY <1>1, <2>2, <2>3 DEF Moves
<1>3. CASE AssertOwned(x)
  <2>1. CASE lease[tel[x]] = x
    <3>1. pc[x] = "assert" /\ Goto(x, "send") /\ out' = out
      BY <1>3, <2>1 DEF AssertOwned
    <3>2. pc'[x] = "send" /\ NoNewLease(x) /\ (Moves(x) => \A y \in Procs : Moves(y))
      BY <1>1, <3>1, GoerMoves
    <3>3. Asserts(x)
      BY <1>1, <2>1, <3>1, <3>2 DEF Asserts
    <3> QED
      BY <1>1, <3>2, <3>3 DEF Moves
  <2> QED
    BY <1>2, <1>3, <2>1 DEF AssertOwned
<1>4. CASE Send(x)
  <2>1. pc[x] = "send" /\ Goto(x, "wait") /\ out' = out
    BY <1>4 DEF Send, local
  <2>2. pc'[x] = "wait" /\ NoNewLease(x) /\ (Moves(x) => \A y \in Procs : Moves(y))
    BY <1>1, <2>1, GoerMoves
  <2> QED
    BY <1>1, <2>1, <2>2 DEF Moves, Proceeds
<1>5. CASE FailBeforePost(x)
  BY <1>2, <1>5 DEF FailBeforePost
<1>6. CASE \E l \in Leads : Reply(x, l)
  BY <1>2, <1>6 DEF Reply
<1>7. CASE Refuse(x)
  <2>1. job[x] \notin wire' /\ lead' = lead /\ job[x] \in wire /\ pc[x] = "wait"
    BY <1>7 DEF Refuse
  <2> QED
    BY <1>2, <1>7, <2>1 DEF Refuse
<1>8. CASE NoAnswer(x)
  BY <1>2, <1>8 DEF NoAnswer
<1> QED
  BY <1>3, <1>4, <1>5, <1>6, <1>7, <1>8 DEF PostStep

LEMMA CronStepMoves ==
  ASSUME Typed, CronStep
  PROVE  \A y \in Procs : Moves(y)
<1>1. Cron \in Procs /\ Cron \notin Uis
  BY ProcsFacts
<1>2. CASE NextRow \/ EndRun
  <2>1. \E step \in {"batch", "idle"} : Leave(Cron, step, None)
    BY <1>2 DEF NextRow, EndRun
  <2> QED
    BY <1>1, <2>1, LeaverMoves
<1>3. CASE UNCHANGED <<lease, pc, local>>
  BY <1>3, NobodyMoves DEF NoNewLease
<1>4. CASE \E step \in {"recover", "batch"} : Goto(Cron, step) /\ UNCHANGED <<lease, local>>
  <2>1. PICK step \in {"recover", "batch"} : Goto(Cron, step) /\ UNCHANGED <<lease, local>>
    BY <1>4
  <2> QED
    BY <1>1, <2>1, GoerMoves DEF Moves, Rests, local
<1>5. CASE \E r \in Rows : CronPick(r)
  <2>1. PICK r \in Rows : CronPick(r)
    BY <1>5
  <2>2. CASE lease[batch[r].phone] = None
    <3>1. /\ lease' = [lease EXCEPT ![batch[r].phone] = Cron]
          /\ job' = [job EXCEPT ![Cron] = r] /\ who' = [who EXCEPT ![Cron] = batch[r].broker]
          /\ tel' = [tel EXCEPT ![Cron] = batch[r].phone]
          /\ pc' = [pc EXCEPT ![Cron] = "check"]
          /\ listed' = listed /\ out' = out
      BY <2>1, <2>2 DEF CronPick, Goto
    <3>2. Elsewhere(Cron) /\ pc'[Cron] = "check" /\ \A y \in Procs \ {Cron} : NoNewLease(y)
      BY <1>1, <3>1 DEF Typed, Tables, Locals, Elsewhere, NoNewLease
    <3> QED
      BY <1>1, <3>2, OneMoves DEF Moves, Rests
  <2> QED
    BY <1>3, <2>1, <2>2 DEF CronPick, local
\* The job goes on with its row.
<1>6. CASE /\ \/ CronCheck \/ CronProceed \/ CronReflect \/ CronEquip \/ CronClaim
           /\ ~ NextRow /\ ~ EndRun
  <2>1. PICK step : Goto(Cron, step)
    BY <1>6 DEF CronCheck, CronProceed, CronReflect, CronEquip, CronClaim, Defer, FailBefore
  <2>2. /\ lease' = lease /\ job' = job /\ who' = who /\ tel' = tel /\ out' = out
        /\ \A y \in Procs \ {Cron} : listed'[y] = listed[y]
    BY <1>6 DEF CronCheck, CronProceed, CronReflect, CronEquip, CronClaim, Defer, FailBefore,
       local, Typed, Locals
  <2>3. pc'[Cron] = step /\ NoNewLease(Cron) /\ (Moves(Cron) => \A y \in Procs : Moves(y))
    BY <1>1, <2>1, <2>2, GoerMoves
  <2>4. CASE CronCheck
    <3>1. /\ pc[Cron] = "check" /\ Goto(Cron, "ask")
          /\ Unresolved(tel[Cron], job[Cron]) = {}
      BY <1>6, <2>4 DEF CronCheck, Defer
    <3>2. pc'[Cron] = "ask"
      BY <1>1, <3>1 DEF Goto, Typed, Locals
    <3> QED
      BY <2>2, <2>3, <3>1, <3>2 DEF Moves, Passes, Own
  <2>5. CASE CronProceed
    <3>1. pc[Cron] = "ask" /\ Goto(Cron, "reflect")
      BY <2>5 DEF CronProceed
    <3>2. pc'[Cron] = "reflect"
      BY <1>1, <3>1 DEF Goto, Typed, Locals
    <3> QED
      BY <2>2, <2>3, <3>1, <3>2 DEF Moves, Proceeds
  <2>6. CASE CronReflect
    <3>1. /\ pc[Cron] = "reflect" /\ Goto(Cron, "equip") /\ listed' = listed
          /\ Unreflected(tel[Cron], job[Cron], listed[Cron]) = {}
      BY <1>6, <2>6 DEF CronReflect, Defer, local
    <3>2. pc'[Cron] = "equip"
      BY <1>1, <3>1 DEF Goto, Typed, Locals
    <3> QED
      BY <2>2, <2>3, <3>1, <3>2 DEF Moves, Reflects
  <2>7. CASE CronEquip
    <3>1. pc[Cron] = "equip" /\ Goto(Cron, "claim") /\ listed' = listed
      BY <1>6, <2>7 DEF CronEquip, FailBefore, local
    <3>2. pc'[Cron] = "claim"
      BY <1>1, <3>1 DEF Goto, Typed, Locals
    <3> QED
      BY <2>2, <2>3, <3>1, <3>2 DEF Moves, Equips
  <2>8. CASE CronClaim
    <3>1. /\ pc[Cron] = "claim" /\ Goto(Cron, "assert") /\ listed' = listed
          /\ Write(job[Cron], "FAILED", "inProgress", MaxAttempts, None)
      BY <1>6, <2>8 DEF CronClaim, local
    <3>2. pc'[Cron] = "assert" /\ Retryable(job[Cron])
      BY <1>1, <3>1 DEF Goto, Typed, Locals, CronInv
    <3>3. Columns("FAILED", "inProgress", MaxAttempts, None) /\ job[Cron] \in Stored
      BY <3>2, ConstantsAssumption DEF Columns, Errors, Markers, Retryable
    <3>4. row'[job[Cron]].lead = None /\ row'[job[Cron]].err = "inProgress"
      BY <3>1, <3>3, WrittenRow
    <3>5. Marks(Cron)
      BY <2>2, <3>1, <3>2, <3>4 DEF Marks, Marked, Markers
    <3> QED
      BY <2>2, <2>3, <3>5 DEF Moves
  <2> QED
    BY <1>6, <2>4, <2>5, <2>6, <2>7, <2>8
<1>7. CASE CronStart \/ CronSelect \/ CronFinish
  BY <1>2, <1>4, <1>7 DEF CronStart, CronSelect, CronFinish
<1>8. CASE \E r \in Rows : CronRecover(r) \/ CronPark(r)
  <2>1. \A r \in Rows : CronRecover(r) => EndRun \/ UNCHANGED <<lease, pc, local>>
    BY Zenon DEF CronRecover
  <2>2. \A r \in Rows : CronPark(r) => UNCHANGED <<lease, pc, local>>
    BY DEF CronPark
  <2> QED
    BY <1>2, <1>3, <1>8, <2>1, <2>2
<1>9. CASE CronNoVerdict \/ CronResolve \/ CronSettle
  BY <1>2, <1>9 DEF CronNoVerdict, CronResolve, CronSettle, FailBefore
<1> QED
  BY <1>2, <1>5, <1>6, <1>7, <1>8, <1>9 DEF CronStep

LEMMA WorldMoves ==
  ASSUME Typed, World \/ UNCHANGED vars
  PROVE  \A y \in Procs : Moves(y)
<1>1. CASE \E x \in Procs : Crash(x)
  <2>1. PICK x \in Procs : Crash(x)
    BY <1>1
  <2>2. Leave(x, IF x = Cron THEN "idle" ELSE "done", Dead)
    BY <2>1 DEF Crash
  <2> QED
    BY <2>2, LeaverMoves, ProcsFacts
<1>2. CASE World /\ ~ \E x \in Procs : Crash(x)
  <2>1. UNCHANGED <<pc, local>>
    BY <1>2 DEF World, AdminRetry, Drop, Accept, Requeue, Lapse, Index, Advance, Tick, local
  <2>2. lease' = lease \/ \E p \in Phones : lease' = [lease EXCEPT ![p] = None]
    BY <1>2 DEF World, AdminRetry, Drop, Accept, Requeue, Lapse, Index, Advance, Tick
  <2>3. \A y \in Procs : NoNewLease(y)
    BY <2>2, ConstantsAssumption DEF NoNewLease, Typed, Tables, Procs
  <2> QED
    BY <2>1, <2>3, NobodyMoves
<1>3. CASE UNCHANGED vars
  BY <1>3, NobodyMoves DEF vars, local, NoNewLease
<1> QED
  BY <1>1, <1>2, <1>3

LEMMA WriterSteps ==
  ASSUME Typed, [Next]_vars
  PROVE  \A y \in Procs : Moves(y)
BY UiStepMoves, PostStepMoves, CronStepMoves, WorldMoves DEF Next

-----------------------------------------------------------------------------
(* What a step may do to amoCRM's leads and to the requests in flight.     *)

\* A request that was in flight became a lead.
Taken(l) == /\ lead'[l].row \in wire \ wire'
            /\ lead'[l].contacts = {row[lead'[l].row].broker}
            /\ \A m \in Posted' \ Posted : m = l

LeadsGrow ==
  /\ \A l \in Posted : l \in Posted' /\ lead'[l].row = lead[l].row
  /\ \A l \in Posted' \ Posted : Taken(l)
  /\ \A l \in Posted : \A b \in lead'[l].contacts :
        b \in lead[l].contacts \/ \E s \in Stored' : row'[s].broker = b /\ row'[s].lead = l

Sends(x) == pc[x] = "send" /\ pc'[x] = "wait" /\ wire' = wire \cup {job[x]}

LEMMA LeadsSame == lead' = lead => LeadsGrow /\ Posted' = Posted
BY DEF LeadsGrow, Posted

\* One column of a lead is changed.
LEMMA LeadsChanged ==
  ASSUME Typed, NEW l \in Posted, NEW new \in Lead, lead' = [lead EXCEPT ![l] = new],
         new.row = lead[l].row,
         \A b \in new.contacts : \/ b \in lead[l].contacts
                                 \/ \E s \in Stored' : row'[s].broker = b /\ row'[s].lead = l
  PROVE  LeadsGrow /\ Posted' = Posted
<1>1. new # None
  BY RecordsAssumption
<1>2. l \in Leads /\ lead'[l] = new /\ \A m \in Leads \ {l} : lead'[m] = lead[m]
  BY DEF Typed, Tables, Posted
<1>3. Posted' = Posted
  BY <1>1, <1>2 DEF Posted
<1> QED
  BY <1>2, <1>3 DEF LeadsGrow, Posted

LEMMA AlarmLeads ==
  ASSUME Typed, NEW u \in Uis, UiAlarm(u)
  PROVE  LeadsGrow /\ Posted' = Posted /\ wire' = wire
<1>1. wire' = wire /\ pc[u] = "ask" /\ u \in Procs /\ u # Cron
  BY ProcsFacts DEF UiAlarm
<1>2. CASE lead' = lead
  BY <1>1, <1>2, LeadsSame
<1>3. CASE lead' # lead
  <2>1. PICK l \in In(tel[u], "kc"), r \in Rows :
          /\ NewRow(r, u, "SYNCED", "none", 0, l)
          /\ lead' = [lead EXCEPT ![l].contacts = @ \cup {who[u]}]
    BY <1>3 DEF UiAlarm
  <2>2. l \in Posted /\ l \in Leads /\ lead[l] \in Lead
    BY DEF In, Known, Typed, Tables, Posted
  <2>3. who[u] \in Brokers /\ tel[u] \in Phones
    BY <1>1 DEF Typed, Locals
  <2> DEFINE new == [lead[l] EXCEPT !.contacts = @ \cup {who[u]}]
  <2>4. lead' = [lead EXCEPT ![l] = new]
    BY <2>1
  <2>5. new \in Lead /\ new.row = lead[l].row /\ new.contacts = lead[l].contacts \cup {who[u]}
    BY <2>2, <2>3 DEF Lead
  <2>6. r \in Stored' /\ row'[r].broker = who[u] /\ row'[r].lead = l
    <3>1. 0 \in 0 .. MaxAttempts /\ "none" \in Errors
      BY ConstantsAssumption DEF Errors
    <3> QED
      BY <2>1, <2>2, <2>3, <3>1, InsertEffect DEF Typed
  <2> HIDE DEF new
  <2> QED
    BY <1>1, <2>2, <2>4, <2>5, <2>6, LeadsChanged
<1> QED
  BY <1>2, <1>3

\* The leads and the requests in flight change in four ways only.
LEMMA LeadSteps ==
  ASSUME Typed, [Next]_vars
  PROVE  /\ LeadsGrow
         /\ \A l \in Posted' \ Posted : row' = row /\ pc' = pc /\ job' = job
         /\ wire' \subseteq wire \/ (Posted' = Posted /\ \E x \in Procs : Sends(x))
<1>1. CASE lead' = lead /\ wire' \subseteq wire
  BY <1>1, LeadsSame
<1>2. CASE \E x \in Procs : Send(x)
  <2>1. PICK x \in Procs : Send(x)
    BY <1>2
  <2>2. Sends(x) /\ lead' = lead
    BY <2>1 DEF Send, Sends, Goto, Typed, Locals
  <2> QED
    BY <2>2, LeadsSame
<1>3. CASE \E r \in Rows, l \in Leads : Accept(r, l)
  <2>1. PICK r \in Rows, l \in Leads : Accept(r, l)
    BY <1>3
  <2> DEFINE new == [row |-> r, stage |-> "kc", born |-> now, contacts |-> {row[r].broker}]
  <2>2. /\ lead' = [lead EXCEPT ![l] = new] /\ r \in Stored /\ row[r] \in Row /\ lead[l] = None
        /\ r \in wire /\ wire' = wire \ {r} /\ UNCHANGED <<row, pc, job>>
    BY <2>1 DEF Accept, Typed, Tables, Stored, local
  <2>3. new \in Lead /\ new.row = r /\ new.contacts = {row[r].broker}
    BY <2>2 DEF Lead, Stages, Row, Typed, Tables, Stored
  <2>4. new # None
    BY <2>3, RecordsAssumption
  <2> HIDE DEF new
  <2>5. lead'[l] = new /\ \A m \in Leads \ {l} : lead'[m] = lead[m]
    BY <2>2 DEF Typed, Tables
  <2>6. Posted' = Posted \cup {l} /\ l \notin Posted
    BY <2>2, <2>4, <2>5 DEF Posted
  <2>7. LeadsGrow
    BY <2>2, <2>3, <2>5, <2>6 DEF LeadsGrow, Taken, Posted
  <2> QED
    BY <2>2, <2>7
<1>4. CASE \E l \in Leads, s \in LaterStages : Advance(l, s)
  <2>1. PICK l \in Leads, s \in LaterStages : Advance(l, s)
    BY <1>4
  <2> DEFINE new == [lead[l] EXCEPT !.stage = s]
  <2>2. lead' = [lead EXCEPT ![l] = new] /\ l \in Posted /\ lead[l] \in Lead /\ wire' = wire
    BY <2>1 DEF Advance, Typed, Tables, Posted
  <2>3. new \in Lead /\ new.row = lead[l].row /\ new.contacts = lead[l].contacts
    BY <2>2, ConstantsAssumption DEF Lead, Stages
  <2> HIDE DEF new
  <2> QED
    BY <2>2, <2>3, LeadsChanged
<1>5. CASE \E u \in Uis : UiAlarm(u)
  BY <1>5, AlarmLeads
<1>6. CASE \E u \in Uis : UiStep(u) \/ \E b \in Brokers, p \in Phones : UiStart(u, b, p)
  BY <1>1, <1>5, <1>6 DEF UiStep, UiStart, UiNoVerdict, UiRecordOnly, UiProceed, UiCheck,
     UiCreate, UiReflect, UiSettle, amo
<1>7. CASE \E x \in Procs : PostStep(x)
  BY <1>1, <1>2, <1>7 DEF PostStep, AssertOwned, FailBeforePost, Reply, Refuse, NoAnswer, amo
<1>8. CASE CronStep
  BY <1>1, <1>8 DEF CronStep, CronStart, CronSelect, CronFinish, CronRecover, CronPark, CronPick,
     CronCheck, CronNoVerdict, CronResolve, CronProceed, CronReflect, CronEquip, CronClaim,
     CronSettle, amo
<1>9. CASE World
  BY <1>1, <1>3, <1>4, <1>9 DEF World, AdminRetry, Drop, Requeue, Crash, Lapse, Index, Tick, amo
<1>10. CASE UNCHANGED vars
  BY <1>1, <1>10 DEF vars
<1> QED
  BY <1>6, <1>7, <1>8, <1>9, <1>10 DEF Next

-----------------------------------------------------------------------------
(* The protocol: why no POST is sent without knowing of the others.        *)

\* The request of a row is out, or was, or is about to be.
Live(r) == Outstanding(r) \/ \E x \in Procs : pc[x] = "send" /\ job[x] = r

\* The lead that the request of the row created.
OwnLead(r) == row[r].lead \in Posted /\ lead[row[r].lead].row = r

\* A writer that has its lease and has passed the query for unresolved rows.
Clear(x) ==
  /\ tel[x] \in Phones /\ lease[tel[x]] = x
  /\ \/ pc[x] \in {"create", "reflect", "equip", "claim", "assert"}
     \/ x = Cron /\ pc[x] = "ask"

\* A writer that has compared its verdict with the linked rows as well.
Informed(x) == \/ pc[x] = "send"
               \/ pc[x] \in {"equip", "claim", "assert"} /\ lease[tel[x]] = x

LiveInv == \A r \in Rows : Live(r) => Marked(r) \/ OwnLead(r)

\* Rows whose POST may still go out are not settled by anyone else.
SendInv == \A x \in Procs : pc[x] = "send" \/ (Holds(x) /\ Clear(x)) => Marked(job[x])

UnsentInv ==
  \A x \in Procs : Holds(x) /\ pc[x] \notin {"wait", "settle"} => ~ Outstanding(job[x])

OnePending ==
  \A r, s \in Rows : /\ Live(r) /\ Live(s) /\ Marked(r) /\ Marked(s)
                     /\ row[r].phone = row[s].phone
                     => r = s

ClearInv ==
  \A x \in Procs : Clear(x) =>
     \A r \in Rows : Live(r) /\ Marked(r) => row[r].phone # tel[x]

InformedInv ==
  \A x \in Procs : Informed(x) =>
     \A l \in Posted : PhoneOf(l) = tel[x] => l \in listed[x]

\* A broker is a contact of a lead because a row of his is linked to it, or
\* because he is the one the lead was created for.
ContactsInv ==
  \A l \in Posted : \A b \in lead[l].contacts :
     \/ \E s \in Stored : row[s].broker = b /\ row[s].lead = l
     \/ row[lead[l].row].broker = b /\ Marked(lead[l].row)

\* What the outcome a writer is about to store may be.
Justified(x) ==
  \/ out[x] = "reconcile"
  \/ out[x] \in Refusals \cup {"contact"} /\ ~ Outstanding(job[x])
  \/ /\ out[x] \in Posted
     /\ \/ lead[out[x]].row = job[x]
        \/ Duplicate(job[x], who[x], out[x])
        \/ Linked(job[x])
        \/ ~ Outstanding(job[x])

SettleInv == \A x \in Procs : pc[x] = "settle" => Justified(x)

Protocol == /\ OneLeadPerRow /\ LiveInv /\ SendInv /\ UnsentInv /\ OnePending
            /\ ClearInv /\ InformedInv /\ ContactsInv /\ SettleInv

-----------------------------------------------------------------------------
(* Where the writers that matter to the protocol come from.                *)

LEMMA ClearComes ==
  ASSUME NEW x \in Procs, Moves(x), Clear(x)'
  PROVE  /\ tel'[x] = tel[x] /\ tel[x] \in Phones /\ lease[tel[x]] = x
         /\ \/ Clear(x)
            \/ pc[x] = "check" /\ job'[x] = job[x] /\ Unresolved(tel[x], Own(x)) = {}
<1>1. /\ tel'[x] \in Phones /\ lease'[tel'[x]] = x
      /\ \/ pc'[x] \in {"create", "reflect", "equip", "claim", "assert"}
         \/ x = Cron /\ pc'[x] = "ask"
  BY DEF Clear
<1>2. ~ Rests(x)
  BY <1>1, ConstantsAssumption DEF Rests
<1>3. NoNewLease(x) /\ tel'[x] = tel[x] /\ lease[tel[x]] = x
  BY <1>1, <1>2 DEF Moves, NoNewLease
<1>4. \/ Marks(x)
      \/ Stands(x) \/ Proceeds(x) \/ Reflects(x) \/ Equips(x)
      \/ Passes(x) /\ job'[x] = job[x]
  BY <1>1, <1>2 DEF Moves, Asserts, GivesUp
<1> QED
  BY <1>1, <1>3, <1>4 DEF Clear, Marks, Stands, Proceeds, Reflects, Equips, Passes

LEMMA SenderComes ==
  ASSUME NEW x \in Procs, Moves(x), pc'[x] = "send"
  PROVE  /\ job'[x] = job[x] /\ tel'[x] = tel[x]
         /\ pc[x] = "send" \/ (pc[x] = "assert" /\ lease[tel[x]] = x)
<1>1. ~ Rests(x)
  BY DEF Rests
<1>2. job'[x] = job[x] /\ tel'[x] = tel[x] /\ (Stands(x) \/ Asserts(x))
  BY <1>1 DEF Moves, Marks, Passes, Proceeds, Reflects, Equips, GivesUp
<1> QED
  BY <1>2 DEF Stands, Asserts

LEMMA InformedComes ==
  ASSUME Locals, NEW x \in Procs, Moves(x), Informed(x)', tel'[x] \in Phones
  PROVE  /\ job'[x] = job[x] /\ tel'[x] = tel[x] /\ listed'[x] = listed[x]
         /\ \/ Informed(x)
            \/ /\ pc[x] = "reflect" /\ lease[tel[x]] = x
               /\ Unreflected(tel[x], job[x], listed[x]) = {}
<1>1. \/ pc'[x] = "send"
      \/ pc'[x] \in {"equip", "claim", "assert"} /\ lease'[tel'[x]] = x
  BY DEF Informed
<1>2. ~ Rests(x)
  BY <1>1 DEF Rests
<1>3. tel'[x] = tel[x] /\ NoNewLease(x)
  BY <1>2 DEF Moves
<1>4. /\ job'[x] = job[x] /\ listed'[x] = listed[x]
      /\ (Marks(x) /\ pc[x] = "claim") \/ Stands(x) \/ Reflects(x) \/ Equips(x) \/ Asserts(x)
  BY <1>1, <1>2 DEF Moves, Marks, Stands, Passes, Proceeds, Reflects, Equips, Asserts, GivesUp
<1>5. pc'[x] # "send" => lease[tel[x]] = x
  BY <1>1, <1>3 DEF NoNewLease
<1> QED
  BY <1>1, <1>3, <1>4, <1>5 DEF Informed, Marks, Stands, Reflects, Equips, Asserts

\* The row of a holder is the one it held, or was not live when it was marked.
LEMMA HolderComes ==
  ASSUME NEW x \in Procs, Moves(x), Holds(x)'
  PROVE  /\ who'[x] = who[x] /\ tel'[x] = tel[x]
         /\ \/ /\ Holds(x) /\ job'[x] = job[x]
               /\ pc'[x] \notin {"wait", "settle"} => pc[x] \notin {"wait", "settle"}
            \/ /\ Marked(job[x])' /\ pc'[x] \notin {"send", "wait", "settle"}
               /\ job'[x] \notin Stored \/ Retryable(job'[x])
<1>1. /\ \/ pc'[x] \in {"assert", "send", "wait", "settle"}
         \/ x \in Uis /\ pc'[x] = "reflect"
      /\ x = Cron => x \notin Uis
  BY ProcsFacts DEF Holds
<1>2. ~ Rests(x)
  BY <1>1 DEF Rests
<1>3. who'[x] = who[x] /\ tel'[x] = tel[x]
  BY <1>2 DEF Moves
<1>4. CASE Marks(x)
  BY <1>3, <1>4 DEF Marks
<1>5. CASE job'[x] = job[x] /\ (Stands(x) \/ Proceeds(x) \/ Reflects(x) \/ Asserts(x) \/ GivesUp(x))
  <2>1. x # Cron => x \in Uis
    BY ProcsFacts
  <2> QED
    BY <1>1, <1>3, <1>5, <2>1 DEF Holds, Stands, Proceeds, Reflects, Asserts, GivesUp
<1>6. ~ Passes(x) /\ ~ Equips(x)
  BY <1>1 DEF Passes, Equips
<1> QED
  BY <1>2, <1>4, <1>5, <1>6 DEF Moves

LEMMA SettlerComes ==
  ASSUME NEW x \in Procs, Moves(x), pc'[x] = "settle"
  PROVE  /\ who'[x] = who[x] /\ tel'[x] = tel[x] /\ job'[x] = job[x]
         /\ (pc[x] = "settle" /\ out'[x] = out[x]) \/ GivesUp(x)
<1>1. ~ Rests(x)
  BY DEF Rests
<1>2. /\ who'[x] = who[x] /\ tel'[x] = tel[x] /\ job'[x] = job[x]
      /\ Stands(x) \/ GivesUp(x)
  BY <1>1 DEF Moves, Marks, Passes, Proceeds, Reflects, Equips, Asserts
<1> QED
  BY <1>2 DEF Stands

-----------------------------------------------------------------------------
(* Which rows stay marked, and which become live.                          *)

LEMMA RowStays ==
  ASSUME Typed, [Next]_vars, NEW r \in Stored
  PROVE  /\ r \in Rows /\ r \in Stored'
         /\ row'[r].broker = row[r].broker /\ row'[r].phone = row[r].phone
BY StepTyped DEF RowsStay, Stored

LEMMA PostedRows ==
  ASSUME Typed, NEW l \in Posted
  PROVE  /\ l \in Leads /\ l # None
         /\ lead[l].row \in Stored /\ lead[l].row \in Rows
         /\ Outstanding(lead[l].row) /\ Live(lead[l].row)
BY ConstantsAssumption DEF Typed, Tables, Posted, Stored, Outstanding, Live

LEMMA SendersHold ==
  ASSUME Typed, NEW x \in Procs, Holds(x)
  PROVE  /\ job[x] \in Stored /\ job[x] \in Rows
         /\ row[job[x]].broker = who[x] /\ row[job[x]].phone = tel[x]
         /\ Marked(job[x]) \/ Linked(job[x])
         /\ \A y \in Procs : Holds(y) /\ job[y] = job[x] => y = x
BY DEF Typed, HoldInv, HeldRow, Stored

LEMMA LiveIsStored ==
  ASSUME Typed, NEW r, Live(r)
  PROVE  r \in Stored /\ r \in Rows
<1>1. CASE Outstanding(r)
  BY <1>1, PostedRows DEF Outstanding, Typed, Tables, Stored
<1>2. CASE \E x \in Procs : pc[x] = "send" /\ job[x] = r
  BY <1>2, SendersHold DEF Holds
<1> QED
  BY <1>1, <1>2 DEF Live

\* A request in flight belongs to a marked row.
LEMMA InFlight ==
  ASSUME Typed, Protocol, NEW r \in wire
  PROVE  r \in Stored /\ r \in Rows /\ Live(r) /\ Marked(r)
<1>1. Live(r)
  BY DEF Live, Outstanding
<1>2. r \in Rows /\ r \in Stored
  BY <1>1, LiveIsStored
<1>3. ~ OwnLead(r)
  BY DEF Protocol, OneLeadPerRow, OwnLead
<1> QED
  BY <1>1, <1>2, <1>3 DEF Protocol, LiveInv

\* What GET shows of a phone and a broker who has no row linked to it is the
\* work of a row that is still marked.
LEMMA Origin ==
  ASSUME Typed, Protocol, NEW l \in Posted, NEW r \in Stored, NEW b \in lead[l].contacts,
         ~ Duplicate(r, b, l), row[r].lead # l, PhoneOf(l) = row[r].phone
  PROVE  /\ lead[l].row \in Rows /\ Live(lead[l].row) /\ Marked(lead[l].row)
         /\ row[lead[l].row].phone = row[r].phone /\ Outstanding(lead[l].row)
<1>1. ~ \E s \in Stored : row[s].broker = b /\ row[s].lead = l
  BY DEF Duplicate
<1>2. Marked(lead[l].row)
  BY <1>1 DEF Protocol, ContactsInv
<1> QED
  BY <1>2, PostedRows DEF PhoneOf

LEMMA MarkedRowStep ==
  ASSUME Typed, Protocol, [Next]_vars, NEW r \in Stored, Marked(r)
  PROVE  \/ Marked(r)'
         \/ \E x \in Procs : /\ pc[x] = "settle" /\ job[x] = r
                             /\ \/ \E l \in Leads : GetsLead(r, l) /\ out[x] = l
                                \/ out[x] \in Refusals \cup {"contact"}
         \/ \E l \in Leads : /\ row'[r].lead = l /\ l \in Posted
                             /\ LET o == lead[l].row IN
                                /\ o \in Rows /\ Live(o) /\ Marked(o) /\ Outstanding(o)
                                /\ row[o].phone = row[r].phone
<1>1. RowStep(r)
  BY RowSteps
<1>2. CASE row'[r] = row[r]
  BY <1>2 DEF Marked
<1>3. CASE \E l \in Leads : GetsLead(r, l)
  <2>1. PICK l \in Leads : GetsLead(r, l)
    BY <1>3
  <2>2. CASE l \in Posted /\ PhoneOf(l) = row[r].phone /\ row[r].broker \in lead[l].contacts
    <3>1. ~ Duplicate(r, row[r].broker, l) /\ row'[r].lead = l
      BY <2>1 DEF GetsLead
    <3>2. row[r].lead # l
      BY <2>2, PostedRows DEF Marked
    <3> QED
      BY <2>2, <3>1, <3>2, Origin
  <2> QED
    BY <2>1, <2>2 DEF GetsLead
<1>4. CASE GetsRefusal(r)
  BY <1>4 DEF GetsRefusal
<1>5. ~ (~ Marked(r) /\ ~ Linked(r) /\ row[r].st # "SYNCED")
  OBVIOUS
<1> QED
  BY <1>1, <1>2, <1>3, <1>4, <1>5 DEF RowStep

\* The row of a writer that may still send stays marked.
LEMMA SafeRow ==
  ASSUME Typed, Protocol, [Next]_vars, NEW x \in Procs, NEW r, job[x] = r,
         pc[x] = "send" \/ (Holds(x) /\ Clear(x))
  PROVE  Marked(r)'
<1> SUFFICES ASSUME ~ Marked(r)' PROVE FALSE
  OBVIOUS
<1>1. Holds(x)
  BY DEF Holds
<1>2. /\ r \in Stored /\ r \in Rows /\ row[r].phone = tel[x] /\ Marked(r)
      /\ \A y \in Procs : Holds(y) /\ job[y] = r => y = x
  BY <1>1, SendersHold DEF Protocol, SendInv
<1>3. pc[x] # "settle" /\ pc[x] # "wait"
  BY DEF Clear
<1>4. ~ \E y \in Procs : pc[y] = "settle" /\ job[y] = r
  BY <1>2, <1>3 DEF Holds
<1>5. PICK o \in Rows : Live(o) /\ Marked(o) /\ Outstanding(o) /\ row[o].phone = row[r].phone
  BY <1>2, <1>4, MarkedRowStep
<1>6. CASE pc[x] = "send"
  <2>1. Live(r) /\ ~ Outstanding(r)
    BY <1>1, <1>3, <1>6 DEF Live, Protocol, UnsentInv
  <2> QED
    BY <1>2, <1>5, <2>1 DEF Protocol, OnePending
<1>7. CASE Clear(x)
  BY <1>2, <1>5, <1>7 DEF Protocol, ClearInv
<1> QED
  BY <1>6, <1>7

LEMMA OutstandingComes ==
  ASSUME Typed, [Next]_vars, NEW r, Outstanding(r)'
  PROVE  Outstanding(r) \/ \E x \in Procs : Sends(x) /\ job[x] = r
<1>1. /\ LeadsGrow
      /\ wire' \subseteq wire \/ \E x \in Procs : Sends(x)
  BY LeadSteps
<1>2. CASE r \in wire'
  BY <1>1, <1>2 DEF Outstanding, Sends
<1>3. CASE \E l \in Posted' : lead'[l].row = r
  <2>1. PICK l \in Posted' : lead'[l].row = r
    BY <1>3
  <2>2. CASE l \in Posted
    BY <1>1, <2>1, <2>2 DEF LeadsGrow, Outstanding
  <2>3. CASE l \notin Posted
    BY <1>1, <2>1, <2>3 DEF LeadsGrow, Taken, Outstanding
  <2> QED
    BY <2>2, <2>3
<1> QED
  BY <1>2, <1>3 DEF Outstanding

\* Only a writer that owns the lease of its phone makes a row live.
LEMMA LiveComes ==
  ASSUME Typed, [Next]_vars, NEW r, Live(r)'
  PROVE  \/ Live(r)
         \/ \E x \in Procs : /\ pc[x] = "assert" /\ pc'[x] = "send" /\ lease[tel[x]] = x
                             /\ job[x] = r
<1>1. CASE Outstanding(r)'
  BY <1>1, OutstandingComes DEF Live, Sends
<1>2. CASE \E x \in Procs : pc'[x] = "send" /\ job'[x] = r
  <2>1. PICK x \in Procs : pc'[x] = "send" /\ job'[x] = r
    BY <1>2
  <2>2. job[x] = r /\ (pc[x] = "send" \/ (pc[x] = "assert" /\ lease[tel[x]] = x))
    BY <2>1, WriterSteps, SenderComes
  <2> QED
    BY <2>1, <2>2 DEF Live
<1> QED
  BY <1>1, <1>2 DEF Live

\* A writer that passes assertOwned, and the row that it makes live.
LEMMA Asserter ==
  ASSUME Typed, Protocol, [Next]_vars, NEW x \in Procs, pc[x] = "assert", pc'[x] = "send",
         lease[tel[x]] = x, NEW r, job[x] = r
  PROVE  /\ r \in Stored /\ r \in Rows /\ Clear(x) /\ Marked(r) /\ Marked(r)'
         /\ row[r].phone = tel[x]
         /\ \A s \in Rows : Live(s) /\ Marked(s) => row[s].phone # row[r].phone
<1>1. Holds(x)
  BY DEF Holds
<1>2. r \in Stored /\ r \in Rows /\ row[r].phone = tel[x]
  BY <1>1, SendersHold
<1>3. tel[x] \in Phones
  BY <1>2 DEF Typed, Tables, Row, Stored
<1>4. Clear(x)
  BY <1>3 DEF Clear
<1>5. Marked(r) /\ Marked(r)'
  BY <1>1, <1>4, SafeRow DEF Protocol, SendInv
<1> QED
  BY <1>2, <1>4, <1>5 DEF Protocol, ClearInv

\* A live row that loses its marker is linked to its own lead.
LEMMA LiveRow ==
  ASSUME Typed, Protocol, [Next]_vars, NEW r, Live(r)
  PROVE  Marked(r)' \/ OwnLead(r)'
<1>1. r \in Stored /\ r \in Rows
  BY LiveIsStored
<1>2. \A l \in Posted : l \in Posted' /\ lead'[l].row = lead[l].row
  BY LeadSteps DEF LeadsGrow
<1>3. CASE OwnLead(r)
  <2>1. row'[r].lead = row[r].lead
    BY <1>1, <1>3, PostedRows, LinkStays DEF OwnLead, Linked
  <2> QED
    BY <1>2, <1>3, <2>1 DEF OwnLead
<1>4. CASE Marked(r)
  <2>1. CASE \E x \in Procs : /\ pc[x] = "settle" /\ job[x] = r
                              /\ \/ \E l \in Leads : GetsLead(r, l) /\ out[x] = l
                                 \/ out[x] \in Refusals \cup {"contact"}
    <3>1. PICK x \in Procs : /\ pc[x] = "settle" /\ job[x] = r
                             /\ \/ \E l \in Leads : GetsLead(r, l) /\ out[x] = l
                                \/ out[x] \in Refusals \cup {"contact"}
      BY <2>1
    <3>2. Holds(x) /\ row[r].broker = who[x] /\ \A y \in Procs : Holds(y) /\ job[y] = r => y = x
      BY <3>1, SendersHold DEF Holds
    <3>3. Outstanding(r)
      <4>1. ~ \E y \in Procs : pc[y] = "send" /\ job[y] = r
        BY <3>1, <3>2 DEF Holds
      <4> QED
        BY <4>1 DEF Live
    <3>4. Justified(x)
      BY <3>1 DEF Protocol, SettleInv
    <3>5. CASE out[x] \in Refusals \cup {"contact"}
      <4>1. out[x] # "reconcile" /\ out[x] \notin Posted
        BY <3>5, ConstantsAssumption DEF Refusals, Posted
      <4> QED
        BY <3>1, <3>3, <3>4, <4>1 DEF Justified
    <3>6. CASE \E l \in Leads : GetsLead(r, l) /\ out[x] = l
      <4>1. PICK l \in Leads : GetsLead(r, l) /\ out[x] = l
        BY <3>6
      <4>2. out[x] # "reconcile" /\ out[x] \notin Refusals \cup {"contact"}
        BY <4>1, ConstantsAssumption DEF Refusals
      <4>3. ~ Duplicate(r, who[x], l) /\ ~ Linked(r) /\ row'[r].lead = l
        BY <1>4, <3>2, <4>1 DEF GetsLead, Marked, Linked
      <4>4. l \in Posted /\ lead[l].row = r
        BY <3>1, <3>3, <3>4, <4>1, <4>2, <4>3 DEF Justified
      <4> QED
        BY <1>2, <4>3, <4>4 DEF OwnLead
    <3> QED
      BY <3>1, <3>5, <3>6
  <2>2. CASE \E l \in Leads : /\ row'[r].lead = l /\ l \in Posted
                              /\ LET o == lead[l].row IN
                                 /\ o \in Rows /\ Live(o) /\ Marked(o) /\ Outstanding(o)
                                 /\ row[o].phone = row[r].phone
    <3>1. PICK l \in Leads : /\ row'[r].lead = l /\ l \in Posted
                             /\ LET o == lead[l].row IN
                                /\ o \in Rows /\ Live(o) /\ Marked(o) /\ Outstanding(o)
                                /\ row[o].phone = row[r].phone
      BY <2>2
    <3>2. lead[l].row = r
      BY <1>1, <1>4, <3>1 DEF Protocol, OnePending
    <3> QED
      BY <1>2, <3>1, <3>2 DEF OwnLead
  <2> QED
    BY <1>1, <1>4, <2>1, <2>2, MarkedRowStep
<1> QED
  BY <1>1, <1>3, <1>4 DEF Protocol, LiveInv

\* A live row that is marked after a step was marked before it.
LEMMA MarkedBefore ==
  ASSUME Typed, Protocol, [Next]_vars, NEW r, Live(r), Marked(r)'
  PROVE  Marked(r)
<1>1. r \in Stored /\ r \in Rows
  BY LiveIsStored
<1>2. CASE OwnLead(r)
  <2>1. Linked(r) /\ row'[r].lead = row[r].lead
    BY <1>1, <1>2, PostedRows, LinkStays DEF OwnLead, Linked
  <2> QED
    BY <2>1 DEF Marked, Linked
<1> QED
  BY <1>1, <1>2 DEF Protocol, LiveInv

-----------------------------------------------------------------------------
(* Every part of the protocol is kept by every step.                       *)

LEMMA OneLeadPerRowKept ==
  ASSUME Typed, Protocol, [Next]_vars
  PROVE  OneLeadPerRow'
<1>1. /\ LeadsGrow
      /\ wire' \subseteq wire \/ (Posted' = Posted /\ \E x \in Procs : Sends(x))
  BY LeadSteps
<1>2. /\ \A l, m \in Posted : lead[l].row = lead[m].row => l = m
      /\ \A r \in wire, l \in Posted : lead[l].row # r
  BY DEF Protocol, OneLeadPerRow
<1>3. ASSUME NEW l \in Posted', NEW m \in Posted', lead'[l].row = lead'[m].row
      PROVE  l = m
  BY <1>1, <1>2, <1>3 DEF LeadsGrow, Taken
<1>4. ASSUME NEW r \in wire', NEW l \in Posted' PROVE lead'[l].row # r
  <2>1. CASE l \notin Posted
    BY <1>1, <2>1 DEF LeadsGrow, Taken
  <2>2. CASE l \in Posted /\ r \in wire
    BY <1>1, <1>2, <2>2 DEF LeadsGrow
  <2>3. CASE l \in Posted /\ \E x \in Procs : Sends(x) /\ job[x] = r
    <3>1. ~ Outstanding(r)
      BY <2>3 DEF Sends, Holds, Protocol, UnsentInv
    <3> QED
      BY <1>1, <2>3, <3>1 DEF LeadsGrow, Outstanding
  <2> QED
    BY <1>1, <1>4, <2>1, <2>2, <2>3 DEF Sends
<1> QED
  BY <1>3, <1>4 DEF OneLeadPerRow

LEMMA LiveInvKept ==
  ASSUME Typed, Protocol, [Next]_vars
  PROVE  LiveInv'
<1>1. ASSUME NEW r \in Rows, Live(r)' PROVE Marked(r)' \/ OwnLead(r)'
  <2>1. CASE Live(r)
    BY <2>1, LiveRow
  <2>2. CASE ~ Live(r)
    BY <1>1, <2>2, LiveComes, Asserter
  <2> QED
    BY <2>1, <2>2
<1> QED
  BY <1>1 DEF LiveInv

LEMMA SendInvKept ==
  ASSUME Typed, Protocol, [Next]_vars
  PROVE  SendInv'
<1>1. ASSUME NEW x \in Procs, pc'[x] = "send" \/ (Holds(x)' /\ Clear(x)')
      PROVE  Marked(job[x])'
  <2>1. Moves(x) /\ Holds(x)'
    BY <1>1, WriterSteps DEF Holds
  <2>2. CASE Marked(job[x])'
    BY <2>2
  <2>3. CASE Holds(x) /\ job'[x] = job[x]
    <3>1. CASE pc'[x] = "send"
      <4>1. pc[x] = "send" \/ (pc[x] = "assert" /\ lease[tel[x]] = x)
        BY <2>1, <3>1, SenderComes
      <4>2. \A r : job[x] = r => Marked(r)'
        BY <3>1, <4>1, SafeRow, Asserter
      <4> QED
        BY <2>3, <4>2 DEF Marked
    <3>2. CASE Clear(x)'
      <4>1. Clear(x) \/ pc[x] = "check"
        BY <2>1, <3>2, ClearComes
      <4>2. Clear(x)
        BY <2>3, <4>1 DEF Holds
      <4>3. \A r : job[x] = r => Marked(r)'
        BY <2>3, <4>2, SafeRow
      <4> QED
        BY <2>3, <4>3 DEF Marked
    <3> QED
      BY <1>1, <3>1, <3>2
  <2> QED
    BY <2>1, <2>2, <2>3, HolderComes
<1> QED
  BY <1>1 DEF SendInv

\* A row that has just been marked, or is about to be, was never sent.
LEMMA NotYetLive ==
  ASSUME Typed, Protocol, NEW r, r \notin Stored \/ Retryable(r)
  PROVE  ~ Live(r)
<1> SUFFICES ASSUME Live(r) PROVE FALSE
  OBVIOUS
<1>1. r \in Stored /\ r \in Rows
  BY LiveIsStored
<1>2. ~ Marked(r) /\ ~ Linked(r)
  BY <1>1 DEF Retryable, Marked, Linked
<1>3. ~ OwnLead(r)
  BY <1>2, PostedRows DEF OwnLead, Linked
<1> QED
  BY <1>1, <1>2, <1>3 DEF Protocol, LiveInv

LEMMA UnsentInvKept ==
  ASSUME Typed, Protocol, [Next]_vars
  PROVE  UnsentInv'
<1>1. ASSUME NEW x \in Procs, Holds(x)', pc'[x] \notin {"wait", "settle"}, Outstanding(job[x])'
      PROVE  FALSE
  <2>1. PICK r : r = job'[x]
    OBVIOUS
  <2>2. Outstanding(r)'
    BY <1>1, <2>1 DEF Outstanding
  <2>3. Outstanding(r) \/ \E y \in Procs : Sends(y) /\ job[y] = r
    BY <2>2, OutstandingComes
  <2>4. Live(r)
    BY <2>3 DEF Live, Sends
  <2>5. Moves(x)
    BY WriterSteps
  <2>6. /\ Holds(x) /\ job'[x] = job[x]
        /\ pc'[x] \notin {"wait", "settle"} => pc[x] \notin {"wait", "settle"}
    BY <1>1, <2>1, <2>4, <2>5, HolderComes, NotYetLive
  <2>7. ~ Outstanding(r)
    BY <1>1, <2>1, <2>6 DEF Protocol, UnsentInv
  <2>8. PICK y \in Procs : Sends(y) /\ job[y] = r
    BY <2>3, <2>7
  <2>9. y = x
    BY <2>1, <2>6, <2>8, SendersHold DEF Sends, Holds
  <2> QED
    BY <1>1, <2>8, <2>9 DEF Sends
<1> QED
  BY <1>1 DEF UnsentInv

LEMMA OnePendingKept ==
  ASSUME Typed, Protocol, [Next]_vars
  PROVE  OnePending'
<1>1. ASSUME NEW r \in Rows, NEW s \in Rows, Live(r)', Live(s)', Marked(r)', Marked(s)',
             row'[r].phone = row'[s].phone, Live(s)
      PROVE  r = s
  <2>1. Marked(s) /\ s \in Stored
    BY <1>1, MarkedBefore, LiveIsStored
  <2>2. CASE Live(r)
    <3>1. Marked(r) /\ row[r].phone = row[s].phone
      BY <1>1, <2>1, <2>2, MarkedBefore, LiveIsStored, RowStays
    <3> QED
      BY <1>1, <2>1, <2>2, <3>1 DEF Protocol, OnePending
  <2>3. CASE ~ Live(r)
    <3>1. PICK x \in Procs : /\ pc[x] = "assert" /\ pc'[x] = "send" /\ lease[tel[x]] = x
                             /\ job[x] = r
      BY <1>1, <2>3, LiveComes
    <3>2. r \in Stored /\ row[s].phone # row[r].phone
      BY <1>1, <2>1, <3>1, Asserter
    <3> QED
      BY <1>1, <2>1, <3>2, RowStays
  <2> QED
    BY <2>2, <2>3
<1>2. ASSUME NEW r \in Rows, NEW s \in Rows, Live(r)', Live(s)', ~ Live(r), ~ Live(s),
             row'[r].phone = row'[s].phone
      PROVE  r = s
  <2>1. PICK x \in Procs : /\ pc[x] = "assert" /\ pc'[x] = "send" /\ lease[tel[x]] = x
                           /\ job[x] = r
    BY <1>2, LiveComes
  <2>2. PICK y \in Procs : /\ pc[y] = "assert" /\ pc'[y] = "send" /\ lease[tel[y]] = y
                           /\ job[y] = s
    BY <1>2, LiveComes
  <2>3. /\ r \in Stored /\ row[r].phone = tel[x]
        /\ s \in Stored /\ row[s].phone = tel[y]
    BY <2>1, <2>2, Asserter
  <2>4. row[r].phone = row[s].phone
    BY <1>2, <2>3, RowStays
  <2> QED
    BY <2>1, <2>2, <2>3, <2>4
<1>3. ASSUME NEW r \in Rows, NEW s \in Rows, Live(r)', Live(s)', Marked(r)', Marked(s)',
             row'[r].phone = row'[s].phone
      PROVE  r = s
  BY <1>1, <1>2, <1>3
<1> QED
  BY <1>3 DEF OnePending

LEMMA ClearInvKept ==
  ASSUME Typed, Protocol, [Next]_vars
  PROVE  ClearInv'
<1>1. ASSUME NEW x \in Procs, Clear(x)', NEW r \in Rows, Live(r)', Marked(r)',
             row'[r].phone = tel'[x]
      PROVE  FALSE
  <2>1. /\ tel'[x] = tel[x] /\ tel[x] \in Phones /\ lease[tel[x]] = x
        /\ \/ Clear(x)
           \/ pc[x] = "check" /\ Unresolved(tel[x], Own(x)) = {}
    BY <1>1, WriterSteps, ClearComes
  <2>2. CASE Live(r)
    <3>1. Marked(r) /\ r \in Stored /\ row[r].phone = tel[x]
      BY <1>1, <2>1, <2>2, MarkedBefore, LiveIsStored, RowStays
    <3>2. CASE Clear(x)
      BY <2>2, <3>1, <3>2 DEF Protocol, ClearInv
    <3>3. CASE pc[x] = "check" /\ Unresolved(tel[x], Own(x)) = {}
      <4>1. r = Own(x)
        BY <3>1, <3>3 DEF Unresolved, RowsOf, Marked
      <4>2. x = Cron /\ r = job[Cron]
        BY <3>1, <4>1, ConstantsAssumption DEF Own, Stored
      <4>3. Retryable(r)
        BY <3>3, <4>2 DEF Typed, CronInv
      <4> QED
        BY <3>1, <4>3 DEF Retryable, Marked
    <3> QED
      BY <2>1, <3>2, <3>3
  <2>3. CASE ~ Live(r)
    <3>1. PICK y \in Procs : /\ pc[y] = "assert" /\ pc'[y] = "send" /\ lease[tel[y]] = y
                             /\ job[y] = r
      BY <1>1, <2>3, LiveComes
    <3>2. r \in Stored /\ row[r].phone = tel[y]
      BY <3>1, Asserter
    <3>3. x = y
      BY <1>1, <2>1, <3>1, <3>2, RowStays
    <3> QED
      BY <1>1, <3>1, <3>3 DEF Clear
  <2> QED
    BY <2>2, <2>3
<1> QED
  BY <1>1 DEF ClearInv

LEMMA InformedInvKept ==
  ASSUME Typed, Protocol, [Next]_vars
  PROVE  InformedInv'
<1>1. ASSUME NEW x \in Procs, Informed(x)', NEW l \in Posted', row'[lead'[l].row].phone = tel'[x],
             l \notin listed'[x]
      PROVE  FALSE
  <2>1. tel'[x] \in Phones
    <3>1. Locals' /\ pc'[x] \in {"send", "equip", "claim", "assert"}
      BY <1>1, StepTyped DEF Informed, Typed
    <3> QED
      BY <3>1, ProcsFacts DEF Locals
  <2>2. /\ job'[x] = job[x] /\ tel'[x] = tel[x] /\ listed'[x] = listed[x]
        /\ \/ Informed(x)
           \/ /\ pc[x] = "reflect" /\ lease[tel[x]] = x
              /\ Unreflected(tel[x], job[x], listed[x]) = {}
    BY <1>1, <2>1, WriterSteps, InformedComes DEF Typed
  <2>3. LeadsGrow /\ \A m \in Posted' \ Posted : row' = row /\ pc' = pc /\ job' = job
    BY LeadSteps
  <2>4. tel[x] \in Phones /\ (pc[x] # "send" => lease[tel[x]] = x)
    BY <2>1, <2>2 DEF Informed
  <2>5. pc[x] # "send" => Clear(x)
    BY <2>2, <2>4 DEF Informed, Clear
\* The row of the lead is live; if it is still marked, the writer cannot be informed.
  <2>6. PICK o : o = lead'[l].row
    OBVIOUS
  <2>7. CASE l \in Posted
    <3>1. /\ o = lead[l].row /\ o \in Stored /\ o \in Rows /\ Live(o) /\ Outstanding(o)
          /\ row[o].phone = tel[x] /\ l \in Leads
      BY <1>1, <2>2, <2>3, <2>6, <2>7, PostedRows, RowStays DEF LeadsGrow
    <3>2. ~ Informed(x)
      BY <1>1, <2>2, <2>7, <3>1 DEF Protocol, InformedInv, PhoneOf
    <3>3. pc[x] = "reflect" /\ Unreflected(tel[x], job[x], listed[x]) = {} /\ Clear(x)
      BY <2>2, <2>5, <3>2
    <3>4. ~ Marked(o)
      BY <3>1, <3>3 DEF Protocol, ClearInv
    <3>5. OwnLead(o)
      BY <3>1, <3>4 DEF Protocol, LiveInv
    <3>6. row[o].lead = l /\ l # None
      BY <2>7, <3>1, <3>5, PostedRows DEF OwnLead, Protocol, OneLeadPerRow
    <3>7. o # job[x]
      <4>1. CASE x = Cron
        <5>1. Retryable(job[x])
          BY <3>3, <4>1 DEF Typed, CronInv
        <5> QED
          BY <3>1, <5>1, NotYetLive
      <4>2. CASE x \in Uis
        BY <3>1, <3>3, <4>2 DEF Holds, Protocol, UnsentInv
      <4> QED
        BY <4>1, <4>2, ProcsFacts
    <3> QED
      BY <1>1, <2>2, <3>1, <3>3, <3>6, <3>7 DEF Unreflected, RowsOf
  <2>8. CASE l \notin Posted
    <3>1. o \in wire /\ row' = row /\ pc' = pc
      BY <2>3, <2>6, <2>8 DEF LeadsGrow, Taken
    <3>2. o \in Rows /\ Live(o) /\ Marked(o) /\ row[o].phone = tel[x]
      BY <1>1, <2>2, <2>6, <3>1, InFlight
    <3>3. CASE pc[x] = "send"
      <4>1. Holds(x) /\ job[x] \in Rows /\ row[job[x]].phone = tel[x]
        BY <3>3, SendersHold DEF Holds
      <4>2. Live(job[x]) /\ Marked(job[x]) /\ ~ Outstanding(job[x])
        BY <3>3, <4>1 DEF Live, Protocol, SendInv, UnsentInv
      <4>3. o = job[x]
        BY <3>2, <4>1, <4>2 DEF Protocol, OnePending
      <4> QED
        BY <3>1, <4>2, <4>3 DEF Outstanding
    <3>4. CASE pc[x] # "send"
      BY <2>5, <3>2, <3>4 DEF Protocol, ClearInv
    <3> QED
      BY <3>3, <3>4
  <2> QED
    BY <2>7, <2>8
<1> QED
  BY <1>1 DEF InformedInv, PhoneOf

LEMMA ContactsInvKept ==
  ASSUME Typed, Protocol, [Next]_vars
  PROVE  ContactsInv'
<1> SUFFICES ASSUME NEW l \in Posted', NEW b, b \in lead'[l].contacts,
                    ~ \E s \in Stored' : row'[s].broker = b /\ row'[s].lead = l
             PROVE  row'[lead'[l].row].broker = b /\ Marked(lead[l].row)'
  BY DEF ContactsInv
<1>1. LeadsGrow /\ \A m \in Posted' \ Posted : row' = row
  BY LeadSteps
<1>2. PICK o : o = lead'[l].row
  OBVIOUS
<1>3. CASE l \notin Posted
  <2>1. o \in wire /\ lead'[l].contacts = {row[o].broker} /\ row' = row
    BY <1>1, <1>2, <1>3 DEF LeadsGrow, Taken
  <2>2. Marked(o)
    BY <2>1, InFlight
  <2> QED
    BY <1>2, <2>1, <2>2 DEF Marked
<1>4. CASE l \in Posted
  <2>1. o = lead[l].row /\ b \in lead[l].contacts
    BY <1>1, <1>2, <1>4 DEF LeadsGrow
  <2>2. o \in Stored /\ o \in Rows /\ Live(o) /\ l # None
    BY <1>4, <2>1, PostedRows
  <2>3. ~ \E s \in Stored : row[s].broker = b /\ row[s].lead = l
    <3>1. \A s \in Stored : row[s].lead = l => row'[s].lead = l
      BY <2>2, LinkStays DEF Linked
    <3> QED
      BY <3>1, RowStays
  <2>4. row[o].broker = b
    BY <1>4, <2>1, <2>3 DEF Protocol, ContactsInv
  <2>5. row'[o].broker = b /\ o \in Stored'
    BY <2>2, <2>4, RowStays
  <2>6. ~ OwnLead(o)'
    <3>1. ASSUME row'[o].lead \in Posted', lead'[row'[o].lead].row = o PROVE FALSE
      <4>1. row'[o].lead = l
        BY <1>2, <3>1, OneLeadPerRowKept DEF OneLeadPerRow
      <4> QED
        BY <2>5, <4>1
    <3> QED
      BY <3>1 DEF OwnLead
  <2>7. Marked(o)'
    BY <2>2, <2>6, LiveRow
  <2> QED
    BY <1>2, <2>5, <2>7 DEF Marked
<1> QED
  BY <1>3, <1>4

\* A row that is held and not on its way out stays as outstanding as it is.
LEMMA SettlerUnsent ==
  ASSUME Typed, Protocol, [Next]_vars, NEW x \in Procs, Holds(x), pc'[x] = "settle",
         NEW r, job[x] = r, ~ Outstanding(r)
  PROVE  ~ Outstanding(r)'
BY OutstandingComes, SendersHold DEF Sends, Holds

LEMMA SettleInvKept ==
  ASSUME Typed, Protocol, [Next]_vars
  PROVE  SettleInv'
<1> SUFFICES ASSUME NEW x \in Procs, pc'[x] = "settle"
             PROVE  Justified(x)'
  BY DEF SettleInv
<1>1. /\ who'[x] = who[x] /\ tel'[x] = tel[x] /\ job'[x] = job[x]
      /\ (pc[x] = "settle" /\ out'[x] = out[x]) \/ GivesUp(x)
  BY WriterSteps, SettlerComes
<1>2. Holds(x)
  BY <1>1 DEF GivesUp, Holds
<1>3. PICK r : r = job[x]
  OBVIOUS
<1>4. /\ r \in Stored /\ r \in Rows /\ row[r].broker = who[x] /\ row[r].phone = tel[x]
      /\ Marked(r) \/ Linked(r)
  BY <1>2, <1>3, SendersHold
<1>5. \A l \in Posted : l \in Posted' /\ lead'[l].row = lead[l].row
  BY LeadSteps DEF LeadsGrow
<1>6. ~ Outstanding(r) => ~ Outstanding(r)'
  BY <1>2, <1>3, SettlerUnsent
<1>7. Outstanding(job[x])' <=> Outstanding(r)'
  BY <1>1, <1>3 DEF Outstanding
<1>8. Linked(r) => Linked(job[x])'
  BY <1>1, <1>3, <1>4, LinkStays DEF Linked
<1>9. ASSUME NEW l \in Posted, Duplicate(r, who[x], l) PROVE Duplicate(job[x], who[x], l)'
  <2>1. PICK s \in Stored \ {r} : row[s].broker = who[x] /\ row[s].lead = l
    BY <1>9 DEF Duplicate
  <2>2. row'[s].lead = l /\ row'[s].broker = who[x] /\ s \in Stored'
    BY <2>1, PostedRows, LinkStays, RowStays DEF Linked
  <2> QED
    BY <1>1, <1>3, <2>1, <2>2 DEF Duplicate
\* An outcome that is a lead: what makes it harmless stays so.
<1>10. ASSUME NEW l \in Posted, out'[x] = l,
              \/ lead[l].row = r \/ Duplicate(r, who[x], l) \/ Linked(r) \/ ~ Outstanding(r)
       PROVE  Justified(x)'
  <2>1. out'[x] \in Posted'
    BY <1>5, <1>10
  <2>2. \/ lead'[out'[x]].row = job'[x] \/ Duplicate(job[x], who[x], out[x])'
        \/ Linked(job[x])' \/ ~ Outstanding(job[x])'
    <3>1. CASE Duplicate(r, who[x], l)
      <4>1. Duplicate(job[x], who[x], l)'
        BY <1>9, <3>1
      <4> QED
        BY <1>10, <4>1 DEF Duplicate
    <3> QED
      BY <1>1, <1>3, <1>5, <1>6, <1>7, <1>8, <1>10, <3>1
  <2> QED
    BY <2>1, <2>2 DEF Justified
<1>11. ASSUME out'[x] \in Refusals \cup {"contact"}, ~ Outstanding(r)' PROVE Justified(x)'
  BY <1>7, <1>11 DEF Justified
<1>12. CASE out'[x] = "reconcile"
  BY <1>12 DEF Justified
<1>13. CASE pc[x] = "settle" /\ out'[x] = out[x]
  <2>1. Justified(x)
    BY <1>13 DEF Protocol, SettleInv
  <2> QED
    BY <1>3, <1>6, <1>10, <1>11, <1>12, <1>13, <2>1 DEF Justified
<1>14. CASE GivesUp(x)
  <2>1. CASE /\ (x \in Uis /\ pc[x] = "reflect") \/ pc[x] = "send"
             /\ out'[x] \in Refusals \cup {"contact"}
    BY <1>2, <1>3, <1>6, <1>11, <2>1 DEF Protocol, UnsentInv
  <2>2. CASE /\ pc[x] = "wait" /\ out'[x] \in Refusals
             /\ job[x] \in wire /\ job[x] \notin wire' /\ lead' = lead
    <3>1. \A l \in Posted : lead[l].row # r
      BY <1>3, <2>2 DEF Protocol, OneLeadPerRow
    <3>2. ~ Outstanding(r)'
      BY <1>3, <2>2, <3>1 DEF Outstanding, Posted
    <3> QED
      BY <1>11, <2>2, <3>2
  <2>3. CASE out'[x] \in Posted /\ lead[out'[x]].row = job[x]
    BY <1>3, <1>10, <2>3
  <2>4. CASE pc[x] = "wait" /\ Found(tel[x], who[x], now, out'[x])
    <3>1. PICK l : l = out'[x]
      OBVIOUS
    <3>2. l \in Posted /\ PhoneOf(l) = tel[x] /\ who[x] \in lead[l].contacts
      BY <2>4, <3>1, FoundLead
    <3>3. \/ lead[l].row = r \/ Duplicate(r, who[x], l) \/ Linked(r) \/ ~ Outstanding(r)
      <4> SUFFICES ASSUME ~ Duplicate(r, who[x], l), ~ Linked(r), Outstanding(r)
                   PROVE  lead[l].row = r
        OBVIOUS
      <4>1. row[r].lead # l
        BY <3>2, PostedRows DEF Linked
      <4>2. /\ lead[l].row \in Rows /\ Live(lead[l].row) /\ Marked(lead[l].row)
            /\ row[lead[l].row].phone = row[r].phone
        BY <1>4, <3>2, <4>1, Origin
      <4>3. Live(r) /\ Marked(r)
        BY <1>4 DEF Live
      <4> QED
        BY <1>4, <4>2, <4>3 DEF Protocol, OnePending
    <3> QED
      BY <1>10, <3>1, <3>2, <3>3
  <2> QED
    BY <1>12, <1>14, <2>1, <2>2, <2>3, <2>4 DEF GivesUp
<1> QED
  BY <1>1, <1>13, <1>14

-----------------------------------------------------------------------------
LEMMA ProtocolStep ==
  ASSUME Typed, Protocol, [Next]_vars
  PROVE  Protocol'
BY OneLeadPerRowKept, LiveInvKept, SendInvKept, UnsentInvKept, OnePendingKept,
   ClearInvKept, InformedInvKept, ContactsInvKept, SettleInvKept DEF Protocol

LEMMA ProtocolInit == Init => Protocol
<1> SUFFICES ASSUME Init PROVE Protocol
  OBVIOUS
<1>1. Posted = {} /\ wire = {} /\ \A x \in Procs : pc[x] = "idle"
  BY DEF Init, Posted
<1>2. \A r : ~ Live(r)
  BY <1>1 DEF Live, Outstanding
<1>3. \A x \in Procs : ~ Holds(x) /\ ~ Clear(x) /\ ~ Informed(x)
  BY <1>1 DEF Holds, Clear, Informed
<1> QED
  BY <1>1, <1>2, <1>3 DEF Protocol, OneLeadPerRow, LiveInv, SendInv, UnsentInv, OnePending,
     ClearInv, InformedInv, ContactsInv, SettleInv

LEMMA AlwaysProtocol == Spec => [](Typed /\ Protocol)
<1>1. Typed /\ Protocol /\ [Next]_vars => (Typed /\ Protocol)'
  BY TypedStep, ProtocolStep
<1>2. Init => Typed /\ Protocol
  BY TypedInit, ProtocolInit
<1> QED
  BY <1>1, <1>2, PTL DEF Spec

\* A writer about to POST knows of every lead already created for the phone,
\* and no other POST for it is in flight (see PostInformed).
THEOREM PostsAreInformed == Spec => []PostInformed
<1>1. ASSUME Typed, Protocol PROVE PostInformed
  <2> SUFFICES ASSUME NEW x \in Procs, pc[x] = "send"
               PROVE  /\ \A l \in Posted : PhoneOf(l) = tel[x] => l \in listed[x]
                      /\ \A r \in wire : row[r].phone # tel[x]
    BY DEF PostInformed
  <2>1. \A l \in Posted : PhoneOf(l) = tel[x] => l \in listed[x]
    BY <1>1 DEF Protocol, InformedInv, Informed
  <2>2. Holds(x) /\ job[x] \in Rows /\ row[job[x]].phone = tel[x]
    BY <1>1, SendersHold DEF Holds
  <2>3. Live(job[x]) /\ Marked(job[x]) /\ ~ Outstanding(job[x])
    BY <1>1, <2>2 DEF Live, Protocol, SendInv, UnsentInv
  <2>4. ASSUME NEW r \in wire, row[r].phone = tel[x] PROVE FALSE
    <3>1. r \in Rows /\ Live(r) /\ Marked(r)
      BY <1>1, InFlight
    <3>2. r = job[x]
      BY <1>1, <2>2, <2>3, <2>4, <3>1 DEF Protocol, OnePending
    <3> QED
      BY <2>3, <2>4, <3>2 DEF Outstanding
  <2> QED
    BY <2>1, <2>4
<1> QED
  BY <1>1, AlwaysProtocol, PTL

\* A row whose request went out is linked to its own lead or still carries
\* the marker (see NothingForgotten).
THEOREM RequestsAreRemembered == Spec => []NothingForgotten
<1>1. ASSUME Typed, Protocol PROVE NothingForgotten
  BY <1>1 DEF Protocol, LiveInv, Live, Marked, OwnLead, NothingForgotten
<1> QED
  BY <1>1, AlwaysProtocol, PTL

\* One fixation never becomes two leads (see OneLeadPerRow).
THEOREM LeadsAreSingle == Spec => []OneLeadPerRow
<1>1. Protocol => OneLeadPerRow
  BY DEF Protocol
<1> QED
  BY <1>1, AlwaysProtocol, PTL

-----------------------------------------------------------------------------
(* LeadTransfer implements FixationPromise.                                *)

\* The lead a writer is about to link is listed for the client of its row.
SettlePhone ==
  \A x \in Procs : pc[x] = "settle" /\ out[x] \in Leads =>
     out[x] \in Posted /\ PhoneOf(out[x]) = tel[x]

LEMMA OutcomesAreNoLeads == Leads \cap (Refusals \cup {"contact", "reconcile"}) = {}
BY ConstantsAssumption DEF Refusals

LEMMA SettlePhoneKept ==
  ASSUME Typed, SettlePhone, [Next]_vars
  PROVE  SettlePhone'
<1> SUFFICES ASSUME NEW x \in Procs, pc'[x] = "settle", out'[x] \in Leads
             PROVE  out'[x] \in Posted' /\ PhoneOf(out[x])' = tel'[x]
  BY DEF SettlePhone
<1>1. /\ tel'[x] = tel[x] /\ job'[x] = job[x]
      /\ (pc[x] = "settle" /\ out'[x] = out[x]) \/ GivesUp(x)
  BY WriterSteps, SettlerComes
<1>2. out'[x] \in Posted /\ PhoneOf(out'[x]) = tel[x]
  <2>1. CASE pc[x] = "settle" /\ out'[x] = out[x]
    BY <2>1 DEF SettlePhone
  <2>2. CASE out'[x] \in Posted /\ lead[out'[x]].row = job[x]
    <3>1. Holds(x)
      BY <1>1 DEF GivesUp, Holds
    <3> QED
      BY <2>2, <3>1, SendersHold DEF PhoneOf
  <2>3. CASE Found(tel[x], who[x], now, out'[x])
    BY <2>3, FoundLead
  <2> QED
    BY <1>1, <2>1, <2>2, <2>3, OutcomesAreNoLeads DEF GivesUp
<1>3. PICK l : l = out'[x]
  OBVIOUS
<1>4. l \in Posted' /\ lead'[l].row = lead[l].row
  BY <1>2, <1>3, LeadSteps DEF LeadsGrow
<1>5. lead[l].row \in Stored
  BY <1>2, <1>3, PostedRows
<1>6. row'[lead[l].row].phone = row[lead[l].row].phone
  BY <1>5, RowStays
<1> QED
  BY <1>1, <1>2, <1>3, <1>4, <1>6 DEF PhoneOf

-----------------------------------------------------------------------------
(* How the promise reads the tables.                                       *)

LEMMA StoredView ==
  ASSUME Typed, NEW r \in Stored
  PROVE  /\ r \in Rows
         /\ LinkOf(r) = row[r].lead /\ ClientOf(r) = row[r].phone
         /\ StateOf(r) = "settled" <=> row[r].st = "SYNCED"
         /\ StateOf(r) = "doubt" <=> Marked(r)
         /\ StateOf(r) \in {"settled", "doubt", "open"}
<1>1. r \in Rows /\ row[r] # None
  BY DEF Stored
<1>2. /\ row[r].lead # None => row[r].st = "SYNCED"
      /\ row[r].st = "SYNCED" => row[r].err = "none"
  BY DEF Typed, RowShape
<1>3. StateOf(r) = "settled" <=> row[r].st = "SYNCED"
  BY <1>1, <1>2 DEF StateOf, Markers
<1>4. StateOf(r) = "doubt" <=> Marked(r)
  BY <1>1, <1>2 DEF StateOf, Marked, Markers
<1>5. StateOf(r) \in {"settled", "doubt", "open"}
  BY <1>1, <1>2 DEF StateOf, Markers
<1> QED
  BY <1>1, <1>3, <1>4, <1>5 DEF LinkOf, ClientOf

LEMMA AbsentView ==
  ASSUME NEW r \in Rows, r \notin Stored
  PROVE  StateOf(r) = "absent" /\ LinkOf(r) = None /\ ClientOf(r) = None
BY DEF Stored, StateOf, LinkOf, ClientOf

LEMMA CreatedView ==
  ASSUME Typed, NEW l \in Leads
  PROVE  /\ Promise!Created(l) <=> l \in Posted
         /\ l \in Posted => /\ OriginOf(l) = lead[l].row /\ OriginOf(l) \in Stored
                            /\ ClientOf(OriginOf(l)) = PhoneOf(l)
         /\ l \notin Posted => OriginOf(l) = None
<1>1. ASSUME l \in Posted
      PROVE  /\ OriginOf(l) = lead[l].row /\ OriginOf(l) \in Stored /\ OriginOf(l) # None
             /\ ClientOf(OriginOf(l)) = PhoneOf(l)
  <2>1. OriginOf(l) = lead[l].row /\ lead[l].row \in Stored /\ lead[l].row \in Rows
    BY <1>1, PostedRows DEF OriginOf, Posted
  <2>2. ClientOf(lead[l].row) = PhoneOf(l)
    BY <2>1, StoredView DEF PhoneOf
  <2> QED
    BY <2>1, <2>2, ConstantsAssumption
<1>2. l \notin Posted => OriginOf(l) = None
  BY DEF OriginOf, Posted
<1> QED
  BY <1>1, <1>2 DEF Promise!Created

LEMMA OutstandingView ==
  ASSUME Typed, NEW r \in Rows
  PROVE  Promise!Outstanding(r) <=> Outstanding(r)
<1>1. \A l \in Leads : OriginOf(l) = r <=> l \in Posted /\ lead[l].row = r
  BY CreatedView, ConstantsAssumption
<1>2. Posted \subseteq Leads
  BY DEF Posted
<1> QED
  BY <1>1, <1>2 DEF Promise!Outstanding, Outstanding

\* A row, or all leads and requests, that the promise sees unchanged.
RowSeen(r) ==
  StateOf(r)' = StateOf(r) /\ LinkOf(r)' = LinkOf(r) /\ ClientOf(r)' = ClientOf(r)

LeadsSeen == wire' = wire /\ \A l \in Leads : OriginOf(l)' = OriginOf(l)

LEMMA SameRow ==
  ASSUME NEW r, row'[r] = row[r]
  PROVE  RowSeen(r)
BY DEF RowSeen, StateOf, LinkOf, ClientOf

LEMMA SameLeads ==
  ASSUME LeadsGrow, Posted' = Posted, wire' = wire
  PROVE  LeadsSeen
BY DEF LeadsGrow, LeadsSeen, OriginOf, Posted

LEMMA Unseen ==
  ASSUME \A r \in Rows : RowSeen(r), LeadsSeen
  PROVE  UNCHANGED Promise!vars
BY DEF RowSeen, LeadsSeen, Promise!vars

-----------------------------------------------------------------------------
(* What a step writes into the table, as the promise needs to know it.     *)

\* A row that is neither settled nor linked is written: it gets the marker, or
\* an error that lets it be sent again, or a lead of its client.
Rewrites(q, st, err, att, l) ==
  /\ q \in Stored /\ ~ Linked(q) /\ row[q].st # "SYNCED"
  /\ Columns(st, err, att, l) /\ Write(q, st, err, att, l)
  /\ wire' = wire
  /\ st = "SYNCED" => l # None
  /\ l # None => l \in Posted /\ PhoneOf(l) = row[q].phone

\* A row is stored for a client, with the marker or with what was found.
Inserts(q, u, st, err, att, l) ==
  /\ q \in Rows /\ u \in Uis /\ tel[u] \in Phones /\ who[u] \in Brokers
  /\ Columns(st, err, att, l) /\ NewRow(q, u, st, err, att, l)
  /\ wire' = wire /\ Posted' = Posted
  /\ st # "SYNCED" => err \in Markers
  /\ l # None => l \in Posted /\ PhoneOf(l) = tel[u]

RewriteStep == \E q, st, err, att, l : Rewrites(q, st, err, att, l)
InsertStep  == \E q, u, st, err, att, l : Inserts(q, u, st, err, att, l)

LEMMA InsertKept ==
  ASSUME Typed, [Next]_vars, InsertStep
  PROVE  [Promise!Next]_(Promise!vars)
<1>1. PICK q, u, st, err, att, l : Inserts(q, u, st, err, att, l)
  BY DEF InsertStep
<1>2. q \in Rows /\ u \in Uis /\ tel[u] \in Phones /\ Columns(st, err, att, l)
  BY <1>1 DEF Inserts
<1>3. /\ q \notin Stored /\ Stored' = Stored \cup {q}
      /\ \A r \in Rows \ {q} : row'[r] = row[r]
      /\ row'[q].st = st /\ row'[q].err = err /\ row'[q].lead = l
      /\ row'[q].phone = tel[u] /\ row'[q] # None
  BY <1>1, InsertEffect DEF Inserts, Columns, Typed
<1>4. StateOf(q) = "absent" /\ LinkOf(q) = None
  BY <1>2, <1>3, AbsentView
<1>5. LinkOf(q)' = l /\ ClientOf(q)' = tel[u]
  BY <1>3 DEF LinkOf, ClientOf
<1>6. StateOf(q)' = IF st = "SYNCED" THEN "settled" ELSE "doubt"
  BY <1>1, <1>2, <1>3 DEF StateOf, Inserts, Columns, Markers
<1>7. LeadsSeen
  BY <1>1, LeadSteps, SameLeads DEF Inserts
<1>8. \A r \in Rows \ {q} : RowSeen(r)
  BY <1>3, SameRow
<1>9. Promise!Store(q, tel[u])
  <2>1. [r \in Rows |-> ClientOf(r)'] = [[r \in Rows |-> ClientOf(r)] EXCEPT ![q] = tel[u]]
    BY <1>2, <1>5, <1>8 DEF RowSeen
  <2>2. [r \in Rows |-> StateOf(r)'] =
          [[r \in Rows |-> StateOf(r)] EXCEPT ![q] = IF st = "SYNCED" THEN "settled" ELSE "doubt"]
    BY <1>2, <1>6, <1>8 DEF RowSeen
  <2>3. [r \in Rows |-> LinkOf(r)'] = [[r \in Rows |-> LinkOf(r)] EXCEPT ![q] = l]
    BY <1>2, <1>5, <1>8 DEF RowSeen
  <2>4. l = None => [r \in Rows |-> LinkOf(r)'] = [r \in Rows |-> LinkOf(r)]
    BY <1>4, <1>5, <1>8 DEF RowSeen
  <2>5. st # "SYNCED" => l = None
    BY <1>2 DEF Columns
  <2>6. l # None => l \in Leads /\ Promise!Created(l) /\ ClientOf(OriginOf(l)) = tel[u]
                    /\ OriginOf(l) \in Rows
    <3>1. l # None => l \in Posted /\ l \in Leads /\ PhoneOf(l) = tel[u]
      BY <1>1, <1>2 DEF Inserts, Columns
    <3> QED
      BY <3>1, CreatedView DEF Stored
  <2>7. [r \in Rows |-> StateOf(r)][q] = "absent"
    BY <1>2, <1>4
  <2>8. wire' = wire /\ [m \in Leads |-> OriginOf(m)'] = [m \in Leads |-> OriginOf(m)]
    BY <1>7 DEF LeadsSeen
  <2> QED
    BY <2>1, <2>2, <2>3, <2>4, <2>5, <2>6, <2>7, <2>8 DEF Promise!Store
<1> QED
  BY <1>2, <1>9 DEF Promise!Next

LEMMA RewriteKept ==
  ASSUME Typed, Protocol, [Next]_vars, RewriteStep
  PROVE  [Promise!Next]_(Promise!vars)
<1>1. PICK q, st, err, att, l : Rewrites(q, st, err, att, l)
  BY DEF RewriteStep
<1>2. /\ q \in Stored /\ q \in Rows /\ ~ Linked(q) /\ row[q].st # "SYNCED"
      /\ Columns(st, err, att, l)
  BY <1>1 DEF Rewrites, Stored
<1>3. /\ \A r \in Rows \ {q} : row'[r] = row[r]
      /\ row'[q].st = st /\ row'[q].err = err /\ row'[q].lead = l /\ q \in Stored'
  BY <1>1, <1>2, WrittenRow DEF Rewrites
<1>4. Typed'
  BY TypedStep
<1>5. /\ LinkOf(q) = None /\ StateOf(q) \in {"open", "doubt"}
      /\ StateOf(q) = "doubt" <=> Marked(q)
  BY <1>2, StoredView DEF Linked
<1>6. LinkOf(q)' = l /\ ClientOf(q)' = ClientOf(q) /\ ClientOf(q) = row[q].phone
  <2>1. row'[q] # None
    BY <1>3 DEF Stored
  <2>2. row'[q].phone = row[q].phone
    BY <1>2, RowStays
  <2> QED
    BY <1>2, <1>3, <2>1, <2>2, StoredView DEF LinkOf, ClientOf
<1>7. StateOf(q)' = IF st = "SYNCED" THEN "settled" ELSE IF err \in Markers THEN "doubt" ELSE "open"
  BY <1>2, <1>3 DEF StateOf, Stored, Columns, Markers
<1>8. \A r \in Rows \ {q} : RowSeen(r)
  BY <1>3, SameRow
<1>9. LeadsSeen
  <2>1. wire' = wire /\ LeadsGrow
    BY <1>1, LeadSteps DEF Rewrites
  <2>2. Posted' = Posted
    BY <2>1 DEF LeadsGrow, Taken
  <2> QED
    BY <2>1, <2>2, SameLeads
\* A row that loses the marker otherwise than by a link to its own lead has no
\* request outstanding.
<1>10. Outstanding(q) => Marked(q)' \/ OwnLead(q)'
  BY LiveRow DEF Live
<1>11. [r \in Rows |-> ClientOf(r)'] = [r \in Rows |-> ClientOf(r)]
  BY <1>6, <1>8 DEF RowSeen
<1>12. /\ [r \in Rows |-> LinkOf(r)'] = [[r \in Rows |-> LinkOf(r)] EXCEPT ![q] = l]
       /\ l = None => [r \in Rows |-> LinkOf(r)'] = [r \in Rows |-> LinkOf(r)]
  BY <1>2, <1>5, <1>6, <1>8 DEF RowSeen
<1>13. [r \in Rows |-> StateOf(r)'] = [[r \in Rows |-> StateOf(r)] EXCEPT ![q] = StateOf(q)']
  BY <1>2, <1>8 DEF RowSeen
<1>14. wire' = wire /\ [m \in Leads |-> OriginOf(m)'] = [m \in Leads |-> OriginOf(m)]
  BY <1>9 DEF LeadsSeen
<1>15. CASE st = "SYNCED"
  <2>1. l \in Posted /\ PhoneOf(l) = row[q].phone /\ l \in Leads /\ l # None
    BY <1>1, <1>15 DEF Rewrites, Posted
  <2>2. Promise!Created(l) /\ OriginOf(l) = lead[l].row /\ OriginOf(l) \in Rows
        /\ ClientOf(OriginOf(l)) = ClientOf(q)
    BY <1>6, <2>1, CreatedView DEF Stored
  <2>3. Promise!Outstanding(q) => OriginOf(l) = q
    <3>1. ~ Marked(q)'
      BY <1>3, <2>1 DEF Marked
    <3>2. lead'[l].row = lead[l].row
      BY <2>1, LeadSteps DEF LeadsGrow
    <3> QED
      BY <1>2, <1>3, <1>10, <2>2, <3>1, <3>2, OutstandingView DEF OwnLead
  <2>4. Promise!Settle(q, l)
    BY <1>2, <1>5, <1>7, <1>11, <1>12, <1>13, <1>14, <1>15, <2>1, <2>2, <2>3 DEF Promise!Settle
  <2> QED
    BY <1>2, <2>1, <2>4 DEF Promise!Next
<1>16. CASE st # "SYNCED" /\ err \in Markers
  <2>1. l = None
    BY <1>2, <1>16 DEF Columns
  <2>2. CASE StateOf(q) = "open"
    <3>1. Promise!Announce(q)
      BY <1>2, <1>7, <1>11, <1>12, <1>13, <1>14, <1>16, <2>1, <2>2 DEF Promise!Announce
    <3> QED
      BY <1>2, <3>1 DEF Promise!Next
  <2>3. CASE StateOf(q) = "doubt"
    <3>1. RowSeen(q)
      BY <1>5, <1>6, <1>7, <1>16, <2>1, <2>3 DEF RowSeen
    <3> QED
      BY <1>8, <1>9, <3>1, Unseen
  <2> QED
    BY <1>5, <2>2, <2>3
<1>17. CASE st # "SYNCED" /\ err \notin Markers
  <2>1. l = None
    BY <1>2, <1>17 DEF Columns
  <2>2. CASE StateOf(q) = "open"
    <3>1. RowSeen(q)
      BY <1>5, <1>6, <1>7, <1>17, <2>1, <2>2 DEF RowSeen
    <3> QED
      BY <1>8, <1>9, <3>1, Unseen
  <2>3. CASE StateOf(q) = "doubt"
    <3>1. ~ Marked(q)' /\ ~ OwnLead(q)'
      <4>1. ~ Marked(q)'
        BY <1>3, <1>17 DEF Marked
      <4>2. None \notin Posted'
        BY ConstantsAssumption DEF Posted
      <4> QED
        BY <1>3, <2>1, <4>1, <4>2 DEF OwnLead
    <3>2. ~ Promise!Outstanding(q)
      BY <1>2, <1>10, <3>1, OutstandingView
    <3>3. Promise!Reopen(q)
      BY <1>2, <1>7, <1>11, <1>12, <1>13, <1>14, <1>17, <2>1, <2>3, <3>2 DEF Promise!Reopen
    <3> QED
      BY <1>2, <3>3 DEF Promise!Next
  <2> QED
    BY <1>5, <2>2, <2>3
<1> QED
  BY <1>15, <1>16, <1>17

\* The steps that leave the table alone.
LEMMA SentKept ==
  ASSUME Typed, Protocol, NEW x \in Procs, Send(x)
  PROVE  [Promise!Next]_(Promise!vars)
<1>1. pc[x] = "send" /\ wire' = wire \cup {job[x]} /\ row' = row /\ lead' = lead
  BY DEF Send
<1>2. Holds(x)
  BY <1>1 DEF Holds
<1>3. PICK q : q = job[x]
  OBVIOUS
<1>4. q \in Stored /\ q \in Rows /\ row[q].phone = tel[x]
  BY <1>2, <1>3, SendersHold
<1>5. Marked(q) /\ Live(q) /\ ~ Outstanding(q)
  BY <1>1, <1>2, <1>3 DEF Protocol, SendInv, UnsentInv, Live
<1>6. StateOf(q) = "doubt" /\ ~ Promise!Outstanding(q)
  BY <1>4, <1>5, StoredView, OutstandingView
<1>7. ASSUME NEW s \in Rows, Promise!Outstanding(s), ClientOf(s) = ClientOf(q)
      PROVE  Promise!Owned(s)
  <2>1. Outstanding(s) /\ Live(s) /\ s \in Stored
    BY <1>7, OutstandingView, LiveIsStored DEF Live
  <2>2. row[s].phone = row[q].phone
    BY <1>4, <1>7, <2>1, StoredView
  <2>3. ~ Marked(s)
    BY <1>4, <1>5, <2>1, <2>2 DEF Protocol, OnePending
  <2>4. OwnLead(s)
    BY <2>1, <2>3 DEF Protocol, LiveInv
  <2>5. row[s].lead \in Leads /\ OriginOf(row[s].lead) = s /\ LinkOf(s) = row[s].lead
    BY <2>1, <2>4, PostedRows, CreatedView, StoredView DEF OwnLead
  <2> QED
    BY <2>5 DEF Promise!Owned
<1>8. \A r \in Rows : RowSeen(r)
  BY <1>1, SameRow
<1>9. \A l \in Leads : OriginOf(l)' = OriginOf(l)
  BY <1>1 DEF OriginOf
<1>10. Promise!Post(q)
  <2>1. /\ [r \in Rows |-> StateOf(r)'] = [r \in Rows |-> StateOf(r)]
        /\ [r \in Rows |-> LinkOf(r)'] = [r \in Rows |-> LinkOf(r)]
        /\ [r \in Rows |-> ClientOf(r)'] = [r \in Rows |-> ClientOf(r)]
        /\ [l \in Leads |-> OriginOf(l)'] = [l \in Leads |-> OriginOf(l)]
    BY <1>8, <1>9 DEF RowSeen
  <2> QED
    BY <1>1, <1>3, <1>4, <1>6, <1>7, <2>1 DEF Promise!Post
<1> QED
  BY <1>4, <1>10 DEF Promise!Next

LEMMA AcceptKept ==
  ASSUME Typed, NEW r \in Rows, NEW l \in Leads, Accept(r, l)
  PROVE  [Promise!Next]_(Promise!vars)
<1> DEFINE new == [row |-> r, stage |-> "kc", born |-> now, contacts |-> {row[r].broker}]
<1>1. /\ r \in wire /\ lead[l] = None /\ wire' = wire \ {r} /\ row' = row
      /\ lead' = [lead EXCEPT ![l] = new]
  BY DEF Accept
<1>2. new \in Lead /\ new.row = r
  BY <1>1 DEF Lead, Stages, Row, Typed, Tables, Stored
<1>3. new # None
  BY <1>2, RecordsAssumption
<1> HIDE DEF new
<1>4. OriginOf(l)' = r /\ \A m \in Leads \ {l} : OriginOf(m)' = OriginOf(m)
  BY <1>1, <1>2, <1>3 DEF OriginOf, Typed, Tables
<1>5. ~ Promise!Created(l)
  BY <1>1, CreatedView DEF Posted
<1>6. /\ [q \in Rows |-> StateOf(q)'] = [q \in Rows |-> StateOf(q)]
      /\ [q \in Rows |-> LinkOf(q)'] = [q \in Rows |-> LinkOf(q)]
      /\ [q \in Rows |-> ClientOf(q)'] = [q \in Rows |-> ClientOf(q)]
  BY <1>1, SameRow DEF RowSeen
<1>7. [m \in Leads |-> OriginOf(m)'] = [[m \in Leads |-> OriginOf(m)] EXCEPT ![l] = r]
  BY <1>4
<1>8. Promise!Create(r, l)
  BY <1>1, <1>5, <1>6, <1>7 DEF Promise!Create
<1> QED
  BY <1>8 DEF Promise!Next

\* A request is dropped, or refused.
LEMMA LostKept ==
  ASSUME Typed, NEW r \in wire, wire' = wire \ {r}, row' = row, lead' = lead
  PROVE  [Promise!Next]_(Promise!vars)
<1>1. r \in Rows
  BY DEF Typed, Tables, Stored
<1>2. /\ [q \in Rows |-> StateOf(q)'] = [q \in Rows |-> StateOf(q)]
      /\ [q \in Rows |-> LinkOf(q)'] = [q \in Rows |-> LinkOf(q)]
      /\ [q \in Rows |-> ClientOf(q)'] = [q \in Rows |-> ClientOf(q)]
  BY SameRow DEF RowSeen
<1>3. [m \in Leads |-> OriginOf(m)'] = [m \in Leads |-> OriginOf(m)]
  BY DEF OriginOf
<1>4. Promise!Lose(r)
  BY <1>2, <1>3 DEF Promise!Lose
<1> QED
  BY <1>1, <1>4 DEF Promise!Next

LEMMA QuietKept ==
  ASSUME row' = row, wire' = wire, LeadsGrow, Posted' = Posted
  PROVE  [Promise!Next]_(Promise!vars)
BY SameRow, SameLeads, Unseen

\* Requeueing changes open rows only, and leaves them open.
LEMMA RequeueKept ==
  ASSUME Typed, Requeue
  PROVE  [Promise!Next]_(Promise!vars)
<1> DEFINE fresh(r) == [row[r] EXCEPT !.st = "PENDING", !.att = 0, !.err = "none"]
<1>1. /\ wire' = wire /\ lead' = lead
      /\ \A r \in Rows : row'[r] = IF r \in DeadLetters THEN fresh(r) ELSE row[r]
  BY Zenon DEF Requeue
<1> HIDE DEF fresh
<1>2. ASSUME NEW r \in Rows PROVE RowSeen(r)
  <2>1. CASE r \notin DeadLetters
    <3>1. row'[r] = row[r]
      BY <1>1, <2>1
    <3> QED
      BY <3>1, SameRow
  <2>2. CASE r \in DeadLetters
    <3>1. /\ row[r] # None /\ row[r] \in Row /\ row[r].st # "SYNCED" /\ row[r].err = "auth"
      BY <2>2 DEF DeadLetters, Stored, Typed, Tables
    <3>2. 0 \in 0 .. MaxAttempts /\ "none" \in Errors
      BY ConstantsAssumption DEF Errors
    <3>3. /\ fresh(r) \in Row /\ fresh(r).st = "PENDING" /\ fresh(r).err = "none"
          /\ fresh(r).lead = row[r].lead /\ fresh(r).phone = row[r].phone
      BY <3>1, <3>2 DEF Row, fresh
    <3>4. fresh(r) # None
      BY <3>3, RecordsAssumption
    <3>5. row'[r] = fresh(r)
      BY <1>1, <2>2
    <3>6. StateOf(r) = "open" /\ StateOf(r)' = "open"
      BY <3>1, <3>3, <3>4, <3>5 DEF StateOf, Markers
    <3> QED
      BY <3>1, <3>3, <3>4, <3>5, <3>6 DEF RowSeen, LinkOf, ClientOf
  <2> QED
    BY <2>1, <2>2
<1>3. LeadsSeen
  BY <1>1 DEF LeadsSeen, OriginOf
<1> QED
  BY <1>2, <1>3, Unseen

-----------------------------------------------------------------------------
(* Every other step inserts a row, rewrites one, or is not seen at all.    *)

Quiet == row' = row /\ wire' = wire
Small == Quiet \/ InsertStep \/ RewriteStep

LEMMA ListedLead ==
  ASSUME Typed, NEW p, NEW stage, NEW l \in In(p, stage)
  PROVE  l \in Posted /\ l \in Leads /\ PhoneOf(l) = p
BY DEF In, Known, Typed, Tables, Posted

LEMMA RequestsInsert ==
  ASSUME Typed, [Next]_vars, NEW u \in Uis,
         UiAlarm(u) \/ UiRecordOnly(u) \/ \E r \in Rows : UiCreate(u, r)
  PROVE  Small
<1>1. pc[u] \in {"ask", "create"} /\ wire' = wire
  BY DEF UiAlarm, UiRecordOnly, UiCreate, amo
<1>2. who[u] \in Brokers /\ tel[u] \in Phones
  BY <1>1 DEF Typed, Locals
<1>3. Posted' = Posted
  BY <1>1, LeadSteps DEF LeadsGrow, Taken
<1>4. 0 \in 0 .. MaxAttempts /\ MaxAttempts \in 0 .. MaxAttempts
  BY ConstantsAssumption
<1>5. CASE UiAlarm(u)
  <2>1. \/ row' = row
        \/ \E l \in In(tel[u], "kc"), r \in Rows : NewRow(r, u, "SYNCED", "none", 0, l)
    BY <1>5 DEF UiAlarm
  <2>2. ASSUME NEW l \in In(tel[u], "kc"), NEW r \in Rows, NewRow(r, u, "SYNCED", "none", 0, l)
        PROVE  Inserts(r, u, "SYNCED", "none", 0, l)
    <3>1. l \in Posted /\ l \in Leads /\ PhoneOf(l) = tel[u]
      BY ListedLead
    <3>2. Columns("SYNCED", "none", 0, l)
      BY <1>4, <3>1 DEF Columns, Errors, Markers
    <3> QED
      BY <1>1, <1>2, <1>3, <2>2, <3>1, <3>2 DEF Inserts
  <2> QED
    BY <1>1, <2>1, <2>2 DEF Small, Quiet, InsertStep
<1>6. CASE UiRecordOnly(u)
  <2>1. PICK r \in Rows : NewRow(r, u, "SYNCED", "none", 0, None)
    BY <1>6 DEF UiRecordOnly
  <2>2. Columns("SYNCED", "none", 0, None)
    BY <1>4 DEF Columns, Errors, Markers
  <2>3. Inserts(r, u, "SYNCED", "none", 0, None)
    BY <1>1, <1>2, <1>3, <2>1, <2>2 DEF Inserts
  <2> QED
    BY <2>3 DEF Small, InsertStep
<1>7. CASE \E r \in Rows : UiCreate(u, r)
  <2>1. PICK r \in Rows : NewRow(r, u, "FAILED", "inProgress", MaxAttempts, None)
    BY <1>7 DEF UiCreate
  <2>2. Columns("FAILED", "inProgress", MaxAttempts, None)
    BY <1>4 DEF Columns, Errors, Markers
  <2>3. Inserts(r, u, "FAILED", "inProgress", MaxAttempts, None)
    BY <1>1, <1>2, <1>3, <2>1, <2>2 DEF Inserts, Markers
  <2> QED
    BY <2>3 DEF Small, InsertStep
<1> QED
  BY <1>5, <1>6, <1>7

\* A writer settles its row.
LEMMA SettlersRewrite ==
  ASSUME Typed, SettlePhone, NEW x \in Procs, pc[x] = "settle", wire' = wire,
         \/ row' = row
         \/ /\ InProgress(job[x])
            /\ \/ /\ out[x] \in Leads
                  /\ \E att \in 0 .. MaxAttempts : Write(job[x], "SYNCED", "none", att, out[x])
               \/ \E st \in {"PENDING", "FAILED"}, err \in Errors \ Markers, att \in 0 .. MaxAttempts :
                     Write(job[x], st, err, att, None)
               \/ Write(job[x], "FAILED", "reconcile", MaxAttempts, None)
  PROVE  Small
<1>1. CASE row' = row
  BY <1>1 DEF Small, Quiet
<1>2. CASE InProgress(job[x])
  <2>1. PICK q : q = job[x]
    OBVIOUS
  <2>2. q \in Stored /\ row[q].phone = tel[x] /\ ~ Linked(q) /\ row[q].st # "SYNCED"
    BY <1>2, <2>1, SendersHold DEF Holds, InProgress, Linked
  <2>3. ASSUME out[x] \in Leads, NEW att \in 0 .. MaxAttempts,
               Write(job[x], "SYNCED", "none", att, out[x])
        PROVE  Rewrites(q, "SYNCED", "none", att, out[x])
    <3>1. out[x] \in Posted /\ PhoneOf(out[x]) = row[q].phone /\ out[x] # None
      BY <2>2, <2>3, PostedRows DEF SettlePhone
    <3>2. Columns("SYNCED", "none", att, out[x])
      BY <2>3 DEF Columns, Errors, Markers
    <3> QED
      BY <2>1, <2>2, <2>3, <3>1, <3>2 DEF Rewrites
  <2>4. ASSUME NEW st \in {"PENDING", "FAILED"}, NEW err \in Errors \ Markers,
               NEW att \in 0 .. MaxAttempts, Write(job[x], st, err, att, None)
        PROVE  Rewrites(q, st, err, att, None)
    <3>1. Columns(st, err, att, None)
      BY DEF Columns
    <3> QED
      BY <2>1, <2>2, <2>4, <3>1 DEF Rewrites
  <2>5. ASSUME Write(job[x], "FAILED", "reconcile", MaxAttempts, None)
        PROVE  Rewrites(q, "FAILED", "reconcile", MaxAttempts, None)
    <3>1. Columns("FAILED", "reconcile", MaxAttempts, None)
      BY ConstantsAssumption DEF Columns, Errors, Markers
    <3> QED
      BY <2>1, <2>2, <2>5, <3>1 DEF Rewrites
  <2> QED
    BY <1>1, <2>3, <2>4, <2>5 DEF Small, RewriteStep
<1> QED
  BY <1>1, <1>2

LEMMA SettlesAreSmall ==
  ASSUME Typed, SettlePhone, CronSettle \/ \E u \in Uis : UiSettle(u)
  PROVE  Small
<1>1. /\ Refusals \cup {"contact", "recheck"} \subseteq Errors \ Markers
      /\ 0 \in 0 .. MaxAttempts /\ 1 \in 0 .. MaxAttempts
  BY ConstantsAssumption DEF Refusals, Errors, Markers
<1>2. CASE \E u \in Uis : UiSettle(u)
  <2>1. PICK u \in Uis : UiSettle(u)
    BY <1>2
  <2>2. u \in Procs /\ pc[u] = "settle" /\ wire' = wire
    BY <2>1, ProcsFacts DEF UiSettle, amo
  <2>3. \/ row' = row
        \/ /\ InProgress(job[u])
           /\ \/ /\ out[u] \in Leads
                 /\ Write(job[u], "SYNCED", "none", 1, out[u])
              \/ Write(job[u], "PENDING", "contact", 0, None)
              \/ out[u] \in Refusals /\ Write(job[u], "FAILED", out[u], 1, None)
              \/ Write(job[u], "FAILED", "reconcile", MaxAttempts, None)
    BY <2>1 DEF UiSettle
  <2> QED
    BY <1>1, <2>2, <2>3, SettlersRewrite
<1>3. CASE CronSettle
  <2>1. Cron \in Procs /\ pc[Cron] = "settle" /\ wire' = wire
    BY <1>3, ProcsFacts DEF CronSettle, amo
  <2>2. snap.att + 1 \in 0 .. MaxAttempts
    BY <2>1, ConstantsAssumption DEF Typed, CronInv, Row
  <2>3. \/ row' = row
        \/ /\ InProgress(job[Cron])
           /\ \/ /\ out[Cron] \in Leads
                 /\ Write(job[Cron], "SYNCED", "none", snap.att + 1, out[Cron])
              \/ /\ out[Cron] \in Refusals
                 /\ Write(job[Cron], "FAILED", IF snap.err = "recheck" THEN "recheck" ELSE out[Cron],
                          snap.att + 1, None)
              \/ Write(job[Cron], "FAILED", "reconcile", MaxAttempts, None)
    BY <1>3 DEF CronSettle
  <2>4. out[Cron] \in Refusals =>
          (IF snap.err = "recheck" THEN "recheck" ELSE out[Cron]) \in Errors \ Markers
    BY <1>1
  <2> QED
    BY <2>1, <2>2, <2>3, <2>4, SettlersRewrite
<1> QED
  BY <1>2, <1>3

\* The job writes the row it has not claimed.
LEMMA VisitsAreSmall ==
  ASSUME Typed,
         CronCheck \/ CronNoVerdict \/ CronResolve \/ CronReflect \/ CronEquip \/ CronClaim
  PROVE  Small
<1>1. /\ wire' = wire
      /\ pc[Cron] \in {"check", "ask", "reflect", "equip", "claim"}
  BY DEF CronCheck, CronNoVerdict, CronResolve, CronReflect, CronEquip, CronClaim, amo
<1>2. PICK q : q = job[Cron]
  OBVIOUS
<1>3. /\ q \in Stored /\ row[q].lead = None /\ row[q].st \in {"FAILED", "PENDING"}
      /\ row[q].att \in 0 .. MaxAttempts /\ row[q].att + 1 \in 0 .. MaxAttempts
      /\ snap.att + 1 \in 0 .. MaxAttempts /\ row[q].phone = tel[Cron]
      /\ ~ Linked(q) /\ row[q].st # "SYNCED"
  <2>1. Retryable(q) /\ snap.att \in 0 .. MaxAttempts /\ snap.att < MaxAttempts
        /\ row[q].phone = tel[Cron]
    BY <1>1, <1>2 DEF Typed, CronInv, Row
  <2>2. row[q].att \in 0 .. MaxAttempts
    BY <2>1 DEF Retryable, Typed, Tables, Stored, Row
  <2> QED
    BY <2>1, <2>2, ConstantsAssumption DEF Retryable, Linked
<1>4. ASSUME NEW st \in {"FAILED", "PENDING"}, NEW err \in Errors, NEW att \in 0 .. MaxAttempts,
             err \in Markers => st = "FAILED", Write(q, st, err, att, None)
      PROVE  Small
  <2>1. Columns(st, err, att, None)
    BY <1>4 DEF Columns
  <2>2. Rewrites(q, st, err, att, None)
    BY <1>1, <1>3, <1>4, <2>1 DEF Rewrites
  <2> QED
    BY <2>2 DEF Small, RewriteStep
<1>5. ASSUME NEW kind \in Refusals \cup {"unsafe"}, FailBefore(kind) PROVE Small
  <2>1. /\ kind \in Errors \ Markers /\ "recheck" \in Errors \ Markers
    BY DEF Refusals, Errors, Markers
  <2>2. Write(q, IF snap.att + 1 >= MaxAttempts THEN "FAILED" ELSE row[q].st,
              IF snap.err = "recheck" THEN "recheck" ELSE kind, row[q].att + 1, None)
    BY <1>2, <1>3, <1>5 DEF FailBefore
  <2> QED
    BY <1>3, <1>4, <2>1, <2>2
<1>6. ASSUME Defer PROVE Small
  <2>1. "recheck" \in Errors \ Markers
    BY DEF Errors, Markers
  <2>2. \/ row' = row
        \/ Write(q, IF snap.att + 1 >= MaxAttempts THEN "FAILED" ELSE "PENDING", "recheck",
                 snap.att + 1, None)
    BY <1>2, <1>6 DEF Defer
  <2> QED
    BY <1>1, <1>3, <1>4, <2>1, <2>2 DEF Small, Quiet
<1>7. CASE CronCheck \/ CronReflect
  BY <1>1, <1>6, <1>7 DEF CronCheck, CronReflect, Small, Quiet
<1>8. CASE CronNoVerdict
  BY <1>5, <1>8 DEF CronNoVerdict
<1>9. CASE CronResolve
  <2>1. PICK l \in In(tel[Cron], Rule(tel[Cron])) :
          FailBefore("unsafe") \/ Write(q, "SYNCED", "none", row[q].att + 1, l)
    BY <1>2, <1>9 DEF CronResolve
  <2>2. ASSUME Write(q, "SYNCED", "none", row[q].att + 1, l) PROVE Small
    <3>1. l \in Posted /\ l \in Leads /\ PhoneOf(l) = row[q].phone
      BY <1>3, ListedLead
    <3>2. Columns("SYNCED", "none", row[q].att + 1, l) /\ l # None
      BY <1>3, <3>1, PostedRows DEF Columns, Errors, Markers
    <3>3. Rewrites(q, "SYNCED", "none", row[q].att + 1, l)
      BY <1>1, <1>3, <2>2, <3>1, <3>2 DEF Rewrites
    <3> QED
      BY <3>3 DEF Small, RewriteStep
  <2> QED
    BY <1>5, <2>1, <2>2
<1>10. CASE CronEquip
  <2>1. \/ FailBefore("safe") \/ row' = row
        \/ Write(q, "PENDING", "contact", row[q].att, None)
    BY <1>2, <1>3, <1>10 DEF CronEquip
  <2>2. "safe" \in Refusals /\ "contact" \in Errors \ Markers
    BY DEF Refusals, Errors, Markers
  <2> QED
    BY <1>1, <1>3, <1>4, <1>5, <2>1, <2>2 DEF Small, Quiet
<1>11. CASE CronClaim
  <2>1. row' = row \/ Write(q, "FAILED", "inProgress", MaxAttempts, None)
    BY <1>2, <1>11 DEF CronClaim
  <2>2. "inProgress" \in Errors /\ MaxAttempts \in 0 .. MaxAttempts
    BY ConstantsAssumption DEF Errors, Markers
  <2> QED
    BY <1>1, <1>4, <2>1, <2>2 DEF Small, Quiet
<1> QED
  BY <1>7, <1>8, <1>9, <1>10, <1>11

LEMMA ParksAreSmall ==
  ASSUME Typed, NEW r \in Rows, CronPark(r)
  PROVE  Small
<1>1. r \in Stored /\ Entry(r) /\ pc[Cron] = "batch" /\ wire' = wire
  BY DEF CronPark, Typed, CronInv, amo
<1>2. \/ row' = row
      \/ /\ row[r].lead = None /\ row[r].st = batch[r].st
         /\ Write(r, "FAILED", "reconcile", MaxAttempts, None)
  BY DEF CronPark
<1>3. ASSUME row[r].lead = None, row[r].st = batch[r].st,
             Write(r, "FAILED", "reconcile", MaxAttempts, None)
      PROVE  Rewrites(r, "FAILED", "reconcile", MaxAttempts, None)
  <2>1. ~ Linked(r) /\ row[r].st # "SYNCED"
    BY <1>1, <1>3 DEF Linked, Entry
  <2>2. Columns("FAILED", "reconcile", MaxAttempts, None)
    BY ConstantsAssumption DEF Columns, Errors, Markers
  <2> QED
    BY <1>1, <1>3, <2>1, <2>2 DEF Rewrites
<1> QED
  BY <1>1, <1>2, <1>3 DEF Small, Quiet, RewriteStep

\* Recovery, by the job or by an administrator.
LEMMA RecoveryIsSmall ==
  ASSUME Typed, NEW q \in Stored, NEW l \in Leads, NEW w, row[q].lead = None,
         row[q].st # "SYNCED", Found(row[q].phone, row[q].broker, w, l),
         Write(q, "SYNCED", "none", row[q].att, l), wire' = wire
  PROVE  Small
<1>1. row[q].att \in 0 .. MaxAttempts
  BY DEF Typed, Tables, Stored, Row
<1>2. l \in Posted /\ PhoneOf(l) = row[q].phone
  BY FoundLead
<1>3. Columns("SYNCED", "none", row[q].att, l) /\ l # None
  BY <1>1, <1>2, PostedRows DEF Columns, Errors, Markers
<1>4. Rewrites(q, "SYNCED", "none", row[q].att, l)
  BY <1>2, <1>3 DEF Rewrites, Linked
<1> QED
  BY <1>4 DEF Small, RewriteStep

LEMMA RecoversAreSmall ==
  ASSUME Typed, NEW r \in Rows, CronRecover(r)
  PROVE  Small
<1>1. r \in Stored /\ Entry(r) /\ pc[Cron] = "recover" /\ wire' = wire
  BY DEF CronRecover, Typed, CronInv, amo
<1>2. \/ row' = row
      \/ \E l \in Leads :
            /\ Found(batch[r].phone, batch[r].broker, batch[r].born, l)
            /\ row[r].lead = None /\ row[r].err = batch[r].err
            /\ Write(r, "SYNCED", "none", row[r].att, l)
  BY DEF CronRecover
<1>3. batch[r].broker = row[r].broker /\ batch[r].phone = row[r].phone /\ batch[r].err \in Markers
  BY <1>1 DEF Entry
<1>4. row[r].err \in Markers => row[r].st # "SYNCED"
  BY <1>1 DEF Typed, RowShape
<1> QED
  BY <1>1, <1>2, <1>3, <1>4, RecoveryIsSmall DEF Small, Quiet

LEMMA AdminsAreSmall ==
  ASSUME Typed, NEW r \in Rows, AdminRetry(r)
  PROVE  Small
<1>1. r \in Stored /\ row[r].lead = None /\ row[r].st = "FAILED" /\ wire' = wire
  BY DEF AdminRetry
<1>2. \/ \E l \in Leads : /\ Found(row[r].phone, row[r].broker, row[r].born, l)
                          /\ Write(r, "SYNCED", "none", row[r].att, l)
      \/ Write(r, "PENDING", IF row[r].err = "recheck" THEN "recheck" ELSE "none", 0, None)
  BY DEF AdminRetry
<1>3. ASSUME NEW err \in {"recheck", "none"}, Write(r, "PENDING", err, 0, None)
      PROVE  Small
  <2>1. Columns("PENDING", err, 0, None)
    BY ConstantsAssumption DEF Columns, Errors, Markers
  <2>2. Rewrites(r, "PENDING", err, 0, None)
    BY <1>1, <1>3, <2>1 DEF Rewrites, Linked
  <2> QED
    BY <2>2 DEF Small, RewriteStep
<1> QED
  BY <1>1, <1>2, <1>3, RecoveryIsSmall

LEMMA SmallKept ==
  ASSUME Typed, Protocol, [Next]_vars, Small
  PROVE  [Promise!Next]_(Promise!vars)
<1>1. CASE Quiet
  <2>1. LeadsGrow /\ Posted' = Posted
    BY <1>1, LeadSteps DEF Quiet, LeadsGrow, Taken
  <2> QED
    BY <1>1, <2>1, QuietKept DEF Quiet
<1> QED
  BY <1>1, InsertKept, RewriteKept DEF Small

LEMMA StepKept ==
  ASSUME Typed, Protocol, SettlePhone, [Next]_vars
  PROVE  [Promise!Next]_(Promise!vars)
<1>1. CASE \E u \in Uis : UiStep(u) \/ \E b \in Brokers, p \in Phones : UiStart(u, b, p)
  <2>1. PICK u \in Uis : UiStep(u) \/ \E b \in Brokers, p \in Phones : UiStart(u, b, p)
    BY <1>1
  <2>2. CASE UiAlarm(u) \/ UiRecordOnly(u) \/ \E r \in Rows : UiCreate(u, r)
    BY <2>2, RequestsInsert, SmallKept
  <2>3. CASE UiSettle(u)
    BY <2>3, SettlesAreSmall, SmallKept
  <2>4. CASE \/ UiNoVerdict(u) \/ UiProceed(u) \/ UiCheck(u) \/ UiReflect(u)
             \/ \E b \in Brokers, p \in Phones : UiStart(u, b, p)
    <3>1. Quiet
      BY <2>4 DEF UiNoVerdict, UiProceed, UiCheck, UiReflect, UiStart, Quiet, amo
    <3> QED
      BY <3>1, SmallKept DEF Small
  <2> QED
    BY <2>1, <2>2, <2>3, <2>4 DEF UiStep
<1>2. CASE \E x \in Procs : PostStep(x)
  <2>1. PICK x \in Procs : PostStep(x)
    BY <1>2
  <2>2. CASE Send(x)
    BY <2>2, SentKept
  <2>3. CASE Refuse(x)
    <3>1. job[x] \in wire /\ wire' = wire \ {job[x]} /\ row' = row /\ lead' = lead
      BY <2>3 DEF Refuse
    <3> QED
      BY <3>1, LostKept
  <2>4. CASE \/ AssertOwned(x) \/ FailBeforePost(x) \/ NoAnswer(x)
             \/ \E l \in Leads : Reply(x, l)
    <3>1. Quiet
      BY <2>4 DEF AssertOwned, FailBeforePost, NoAnswer, Reply, Quiet, amo
    <3> QED
      BY <3>1, SmallKept DEF Small
  <2> QED
    BY <2>1, <2>2, <2>3, <2>4 DEF PostStep
<1>3. CASE CronStep
  <2>1. CASE CronCheck \/ CronNoVerdict \/ CronResolve \/ CronReflect \/ CronEquip \/ CronClaim
    BY <2>1, VisitsAreSmall, SmallKept
  <2>2. CASE CronSettle \/ \E r \in Rows : CronRecover(r) \/ CronPark(r)
    BY <2>2, SettlesAreSmall, RecoversAreSmall, ParksAreSmall, SmallKept
  <2>3. CASE \/ CronStart \/ CronSelect \/ CronFinish \/ CronProceed
             \/ \E r \in Rows : CronPick(r)
    <3>1. Quiet
      BY <2>3 DEF CronStart, CronSelect, CronFinish, CronProceed, CronPick, Quiet, amo
    <3> QED
      BY <3>1, SmallKept DEF Small
  <2> QED
    BY <1>3, <2>1, <2>2, <2>3 DEF CronStep
<1>4. CASE World
  <2>1. CASE \E r \in Rows : AdminRetry(r)
    BY <2>1, AdminsAreSmall, SmallKept
  <2>2. CASE Requeue
    BY <2>2, RequeueKept
  <2>3. CASE \E r \in Rows : Drop(r)
    <3>1. PICK r \in wire : wire' = wire \ {r} /\ row' = row /\ lead' = lead
      BY <2>3 DEF Drop
    <3> QED
      BY <3>1, LostKept
  <2>4. CASE \E r \in Rows, l \in Leads : Accept(r, l)
    BY <2>4, AcceptKept
  <2>5. CASE \/ \E x \in Procs : Crash(x)
             \/ \E p \in Phones : Lapse(p)
             \/ \E l \in Leads : Index(l) \/ \E s \in LaterStages : Advance(l, s)
             \/ Tick
    <3>1. Quiet
      BY <2>5 DEF Crash, Lapse, Index, Advance, Tick, Quiet, amo
    <3> QED
      BY <3>1, SmallKept DEF Small
  <2> QED
    BY <1>4, <2>1, <2>2, <2>3, <2>4, <2>5 DEF World
<1>5. CASE UNCHANGED vars
  <2>1. Quiet
    BY <1>5 DEF Quiet, vars
  <2> QED
    BY <2>1, SmallKept DEF Small
<1> QED
  BY <1>1, <1>2, <1>3, <1>4, <1>5 DEF Next

\* Requests, the retry job, recovery, administrators and crashes together do
\* to a row only what the promise allows (see PromiseKept).
THEOREM KeepsThePromise == Spec => PromiseKept
<1>1. Init => SettlePhone
  BY DEF Init, SettlePhone
<1>2. Init => Promise!Init
  <2> SUFFICES ASSUME Init PROVE Promise!Init
    OBVIOUS
  <2>1. Stored = {} /\ wire = {} /\ \A l \in Leads : lead[l] = None
    BY DEF Init, Stored
  <2>2. \A r \in Rows : StateOf(r) = "absent" /\ LinkOf(r) = None /\ ClientOf(r) = None
    BY <2>1, AbsentView
  <2>3. \A l \in Leads : OriginOf(l) = None
    BY <2>1 DEF OriginOf
  <2> QED
    BY <2>1, <2>2, <2>3 DEF Promise!Init
<1>3. Typed /\ SettlePhone /\ [Next]_vars => SettlePhone'
  BY SettlePhoneKept
<1>4. Typed /\ Protocol /\ SettlePhone /\ [Next]_vars => [Promise!Next]_(Promise!vars)
  BY StepKept
<1> QED
  BY <1>1, <1>2, <1>3, <1>4, AlwaysProtocol, PTL DEF Spec, PromiseKept, Promise!Spec

=============================================================================
