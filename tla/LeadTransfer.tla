---------------------------- MODULE LeadTransfer ----------------------------
(***************************************************************************)
(* How a fixation of a client becomes exactly one lead in amoCRM.          *)
(*                                                                         *)
(* The writers of POST /leads are the interactive requests (Uis), each     *)
(* running ClientFixationService.fixClient under a phone lease, and the    *)
(* retry job (Cron), SchedulerService.handleAmoFailedRetry.  What survives *)
(* a crash of either is the table `clients`: the columns amo_sync_status,  *)
(* amo_sync_error, amo_sync_attempts and amo_lead_id carry the protocol.   *)
(* amoCRM itself is external: a request may be accepted and its answer     *)
(* lost, or accepted long after the caller gave up, and a lead is listed   *)
(* by GET some time after it was created.                                  *)
(*                                                                         *)
(* Stored errors are kept as the classes that the code distinguishes:      *)
(*   "inProgress", "reconcile"  the AMO_CREATE_RECONCILIATION marker, with *)
(*                              and without the AMO_CREATE_IN_PROGRESS tail*)
(*   "recheck"                  the AMO_UNIQUENESS_RECHECK marker          *)
(*   "auth", "contact", "safe"  codes isSafeAmoCreateRetry accepts: 401 and*)
(*                              403; BROKER_AMO_CONTACT_MISSING; the rest  *)
(*   "unsafe"                   every other code (5xx, network, unknown)   *)
(***************************************************************************)
EXTENDS Naturals, FiniteSets

CONSTANTS
    Brokers, Phones,
    Rows,          \* ids of `clients` rows; each is inserted at most once
    Leads,         \* ids amoCRM can give out: bounds the leads it creates
    Uis,           \* interactive requests, each served once
    Cron,          \* the retry job of the one API process
    None,          \* null: no row, no lead, no holder
    Dead,          \* holder of a lease whose process has crashed
    MaxAttempts,   \* AMO_RETRY_MAX_ATTEMPTS, 10 in the code
    LaterStages,   \* stages staff can move a lead to: bounds Advance
    Mortal,        \* writers whose process may die: bounds Crash
    MaxEpoch       \* bound on the recovery windows that follow one another

ASSUME ConstantsAssumption ==
    /\ MaxAttempts \in Nat \ {0, 1}
    /\ MaxEpoch \in Nat
    /\ LaterStages \subseteq {"exception", "deal", "closed"}
    /\ Cron \notin Uis
    /\ None \notin Uis \cup {Cron} \cup Rows \cup Leads \cup Phones \cup Brokers
    /\ Dead \notin Uis \cup {Cron, None}
    /\ Leads \cap {"auth", "safe", "contact", "reconcile"} = {}

VARIABLES
    row,       \* the table clients: Rows -> record, or None before the insert
    lead,      \* amoCRM's leads: Leads -> record, or None
    indexed,   \* leads that GET /leads already returns
    wire,      \* rows whose POST /leads is sent and not yet taken or refused
    contact,   \* brokers whose amoContactId is known
    lease,     \* Redis: Phones -> holder, None or Dead
    pc, job, who, tel,   \* per writer: step, row, broker and phone it works on
    listed,    \* per writer: the leads its uniqueness verdict listed
    out,       \* per writer: the outcome of its createFixationRequest
    batch,     \* rows the job still has to visit, as it read them
    snap,      \* the row it is working on, as it read it
    touched,   \* rows written by someone else since the job read them
    now,       \* the current recovery window
    tried      \* history: rows whose createFixationRequest was reached

amo   == <<lead, indexed, wire, now>>
cron  == <<batch, snap, touched>>
local == <<job, who, tel, listed, out>>
vars  == <<row, lead, indexed, wire, contact, lease, pc, job, who, tel, listed,
           out, batch, snap, touched, now, tried>>

Procs    == Uis \cup {Cron}
Markers  == {"inProgress", "reconcile"}
Refusals == {"auth", "safe"}
Errors   == Markers \cup Refusals \cup {"none", "recheck", "contact", "unsafe"}
Stages   == {"kc", "exception", "deal", "closed"}

Row  == [broker : Brokers, phone : Phones, born : Nat,
         st : {"SYNCED", "PENDING", "FAILED"}, err : Errors,
         att : 0 .. MaxAttempts, lead : Leads \cup {None}]
Lead == [row : Rows, stage : Stages, born : Nat, contacts : SUBSET Brokers]

\* null is not a record.
ASSUME RecordsAssumption == None \notin Row \cup Lead

-----------------------------------------------------------------------------
(* What is read from the table and from amoCRM.                            *)

Stored  == {r \in Rows : row[r] # None}
Posted  == {l \in Leads : lead[l] # None}
RowsOf(p)  == {r \in Stored : row[r].phone = p}
PhoneOf(l) == row[lead[l].row].phone
Known(p)   == {l \in indexed : PhoneOf(l) = p}

\* findUnresolvedSamePhoneAmoClient, without the row of the asking writer
Unresolved(p, self) ==
    {r \in RowsOf(p) \ {self} :
        row[r].lead = None /\ (row[r].att >= MaxAttempts \/ row[r].err \in Markers)}

\* findUnreflectedLinkedSamePhoneAmoClient
Unreflected(p, self, leads) ==
    {r \in RowsOf(p) \ {self} : row[r].lead # None /\ row[r].lead \notin leads}

\* @@unique([brokerId, amoLeadId]): giving r this lead raises P2002
Duplicate(r, b, l) ==
    \E s \in Stored \ {r} : row[s].broker = b /\ row[s].lead = l

\* evaluateUniqueness: the strictest stage among the leads listed decides
In(p, stage) == {l \in Known(p) : lead[l].stage = stage}
Rule(p) == CASE In(p, "deal")      # {} -> "deal"
             [] In(p, "deal") = {} /\ In(p, "exception") # {} -> "free"
             [] In(p, "deal") = {} /\ In(p, "exception") = {}
                                   /\ In(p, "kc") # {} -> "kc"
             [] OTHER -> "free"

\* lookupFixationLeadAfterAmbiguousCreate: KC leads of the phone and the
\* broker that were created in the window
Matches(p, b, window) ==
    {l \in Known(p) : /\ lead[l].stage \in {"kc", "closed"}
                      /\ lead[l].born = window
                      /\ b \in lead[l].contacts}
Found(p, b, window, l) == Matches(p, b, window) = {l}

Recoverable(r) == row[r].lead = None /\ row[r].err \in Markers

\* Faulty on purpose: the attempt limit is off by one.
CandidateAtTheLimit(r) ==
    /\ row[r].st \in {"FAILED", "PENDING"}
    /\ row[r].att <= MaxAttempts
    /\ row[r].lead = None
    /\ row[r].err \notin Markers

Candidate(r) ==
    /\ row[r].st \in {"FAILED", "PENDING"}
    /\ row[r].att < MaxAttempts
    /\ row[r].lead = None
    /\ row[r].err \notin Markers

\* hasLegacyAmbiguousCreateError, of the row as the job read it
LegacyAmbiguous(s) == s.err = "unsafe" \/ (s.err = "none" /\ s.st = "FAILED")

\* The compare-and-set every writer ends with: its marker is still there
InProgress(r) ==
    /\ row[r].lead = None
    /\ row[r].st = "FAILED"
    /\ row[r].err = "inProgress"
    /\ row[r].att = MaxAttempts

-----------------------------------------------------------------------------
Empty == [r \in {} |-> None]

Init ==
    /\ row = [r \in Rows |-> None]
    /\ lead = [l \in Leads |-> None]
    /\ indexed = {} /\ wire = {} /\ touched = {} /\ tried = {}
    /\ contact \in SUBSET Brokers
    /\ lease = [p \in Phones |-> None]
    /\ pc = [x \in Procs |-> "idle"]
    /\ job = [x \in Procs |-> None]
    /\ who = [x \in Procs |-> None]
    /\ tel = [x \in Procs |-> None]
    /\ listed = [x \in Procs |-> {}]
    /\ out = [x \in Procs |-> None]
    /\ batch = Empty /\ snap = None
    /\ now = 0

Goto(x, step) == pc' = [pc EXCEPT ![x] = step]

\* The writer is through with its row: it forgets its locals, and gives the
\* lease back if the lease is still its own.
Leave(x, step, left) ==
    /\ lease' = IF tel[x] # None /\ lease[tel[x]] = x
                THEN [lease EXCEPT ![tel[x]] = left] ELSE lease
    /\ Goto(x, step)
    /\ job' = [job EXCEPT ![x] = None]
    /\ who' = [who EXCEPT ![x] = None]
    /\ tel' = [tel EXCEPT ![x] = None]
    /\ listed' = [listed EXCEPT ![x] = {}]
    /\ out' = [out EXCEPT ![x] = None]

Quit(u) == Leave(u, "done", None)
NextRow == Leave(Cron, "batch", None)
EndRun  == Leave(Cron, "idle", None) /\ batch' = Empty /\ snap' = None /\ touched' = {}

NewRow(r, u, st, err, att, l) ==
    /\ row[r] = None
    /\ row' = [row EXCEPT ![r] =
                 [broker |-> who[u], phone |-> tel[u], born |-> now,
                  st |-> st, err |-> err, att |-> att, lead |-> l]]

Write(r, st, err, att, l) ==
    row' = [row EXCEPT ![r].st = st, ![r].err = err, ![r].att = att, ![r].lead = l]

\* A write of someone else changes amoSyncLastAttemptAt, which the job compares.
Touch(rows) == touched' = touched \cup (rows \cap (DOMAIN batch \cup {job[Cron]}))

-----------------------------------------------------------------------------
(* The interactive request, from the moment its guard holds the lease.     *)

UiStart(u, b, p) ==
    /\ pc[u] = "idle"
    /\ lease[p] = None
    /\ lease' = [lease EXCEPT ![p] = u]
    /\ who' = [who EXCEPT ![u] = b]
    /\ tel' = [tel EXCEPT ![u] = p]
    /\ \E provisioned \in BOOLEAN :
          /\ contact' = IF provisioned THEN contact \cup {b} ELSE contact
          /\ out' = [out EXCEPT ![u] = IF b \in contact' THEN None ELSE "contact"]
    /\ Goto(u, "ask")
    /\ UNCHANGED <<row, job, listed, amo, cron, tried>>

\* The verdict could not be obtained: 503 or 409, nothing is stored.
UiNoVerdict(u) ==
    /\ pc[u] = "ask"
    /\ Quit(u)
    /\ UNCHANGED <<row, contact, amo, cron, tried>>

\* RULE_1 / RULE_2: a row linked to the lead found, or, on P2002, the broker's
\* earlier row; a broker new to the client is attached to the lead, unless
\* that call fails.
UiAlarm(u) ==
    /\ pc[u] = "ask"
    /\ Rule(tel[u]) = "kc"
    /\ \E l \in In(tel[u], "kc") :
          \/ Duplicate(None, who[u], l) /\ UNCHANGED <<row, lead>>
          \/ /\ ~ Duplicate(None, who[u], l)
             /\ \E r \in Rows : NewRow(r, u, "SYNCED", "none", 0, l)
             /\ \/ /\ who[u] \in contact
                   /\ \A s \in RowsOf(tel[u]) : row[s].broker # who[u]
                   /\ lead' = [lead EXCEPT ![l].contacts = @ \cup {who[u]}]
                \/ UNCHANGED lead
    /\ Quit(u)
    /\ UNCHANGED <<indexed, wire, now, contact, cron, tried>>

\* RULE_REJECT_SALES_DEAL, or another broker who has the client for good: a
\* row is stored for the cabinet and nothing is sent.
UiRecordOnly(u) ==
    /\ pc[u] = "ask"
    /\ \/ Rule(tel[u]) = "deal"
       \/ /\ Rule(tel[u]) = "free"
          /\ RowsOf(tel[u]) # {}
          /\ \A r \in RowsOf(tel[u]) : row[r].broker # who[u]
    /\ \E r \in Rows : NewRow(r, u, "SYNCED", "none", 0, None)
    /\ Quit(u)
    /\ UNCHANGED <<contact, amo, cron, tried>>

UiProceed(u) ==
    /\ pc[u] = "ask"
    /\ Rule(tel[u]) = "free"
    /\ listed' = [listed EXCEPT ![u] = Known(tel[u])]
    /\ Goto(u, "check")
    /\ UNCHANGED <<row, contact, lease, job, who, tel, out, amo, cron, tried>>

UiCheck(u) ==
    /\ pc[u] = "check"
    /\ IF Unresolved(tel[u], None) # {}
       THEN Quit(u)
       ELSE Goto(u, "create") /\ UNCHANGED <<lease, local>>
    /\ UNCHANGED <<row, contact, amo, cron, tried>>

\* The row is stored with the marker before anything is sent.
UiCreate(u, r) ==
    /\ pc[u] = "create"
    /\ NewRow(r, u, "FAILED", "inProgress", MaxAttempts, None)
    /\ job' = [job EXCEPT ![u] = r]
    /\ Goto(u, "reflect")
    /\ UNCHANGED <<contact, lease, who, tel, listed, out, amo, cron, tried>>

\* Faulty on purpose: the verdict is not compared with the linked rows.
UiReflectSkipped(u) ==
    /\ pc[u] = "reflect"
    /\ Goto(u, IF out[u] = "contact" THEN "settle" ELSE "assert")
    /\ UNCHANGED <<row, contact, lease, local, amo, cron, tried>>

UiReflect(u) ==
    /\ pc[u] = "reflect"
    /\ IF Unreflected(tel[u], job[u], listed[u]) # {}
       THEN Quit(u)
       ELSE /\ Goto(u, IF out[u] = "contact" THEN "settle" ELSE "assert")
            /\ UNCHANGED <<lease, local>>
    /\ UNCHANGED <<row, contact, amo, cron, tried>>

\* Faulty on purpose: the outcome is written by id, without comparing.
UiSettleBlind(u) ==
    /\ pc[u] = "settle"
    /\ IF out[u] \in Leads
       THEN Write(job[u], "SYNCED", "none", 1, out[u])
       ELSE Write(job[u], "FAILED", "reconcile", MaxAttempts, None)
    /\ Quit(u)
    /\ Touch({job[u]})
    /\ UNCHANGED <<contact, batch, snap, amo, tried>>

\* amoCreateOutcomeWrite under the compare-and-set; P2002 and a lost race are
\* both swallowed, and the marker stays.
UiSettle(u) ==
    LET r == job[u] IN
    /\ pc[u] = "settle"
    /\ CASE ~ InProgress(r) -> UNCHANGED row
         [] InProgress(r) /\ out[u] \in Leads ->
               IF Duplicate(r, row[r].broker, out[u])
               THEN UNCHANGED row
               ELSE Write(r, "SYNCED", "none", 1, out[u])
         [] InProgress(r) /\ out[u] = "contact" -> Write(r, "PENDING", "contact", 0, None)
         [] InProgress(r) /\ out[u] \in Refusals -> Write(r, "FAILED", out[u], 1, None)
         [] OTHER -> Write(r, "FAILED", "reconcile", MaxAttempts, None)
    /\ Quit(u)
    /\ Touch({r})
    /\ UNCHANGED <<contact, batch, snap, amo, tried>>

-----------------------------------------------------------------------------
(* createFixationRequest, the same for both kinds of writer.               *)

Outcome(x, o) ==
    /\ out' = [out EXCEPT ![x] = o]
    /\ Goto(x, "settle")

\* assertOwned: the lease must still be the writer's own.
AssertOwned(x) ==
    /\ pc[x] = "assert"
    /\ tried' = tried \cup {job[x]}
    /\ IF lease[tel[x]] = x
       THEN Goto(x, "send") /\ UNCHANGED out
       ELSE Outcome(x, "reconcile")
    /\ UNCHANGED <<row, contact, lease, job, who, tel, listed, amo, cron>>

\* The client contact is looked up or created first; that may fail.
FailBeforePost(x) ==
    /\ pc[x] = "send"
    /\ \E o \in Refusals \cup {"reconcile"} : Outcome(x, o)
    /\ UNCHANGED <<row, contact, lease, job, who, tel, listed, amo, cron, tried>>

Send(x) ==
    /\ pc[x] = "send"
    /\ wire' = wire \cup {job[x]}
    /\ Goto(x, "wait")
    /\ UNCHANGED <<row, lead, indexed, now, contact, lease, local, cron, tried>>

\* amoCRM takes the request, whether or not its sender still waits.
Accept(r, l) ==
    /\ r \in wire
    /\ lead[l] = None
    /\ lead' = [lead EXCEPT ![l] = [row |-> r, stage |-> "kc", born |-> now,
                                    contacts |-> {row[r].broker}]]
    /\ wire' = wire \ {r}
    /\ UNCHANGED <<row, indexed, now, contact, lease, pc, local, cron, tried>>

Drop(r) ==
    /\ r \in wire
    /\ wire' = wire \ {r}
    /\ UNCHANGED <<row, lead, indexed, now, contact, lease, pc, local, cron, tried>>

Reply(x, l) ==
    /\ pc[x] = "wait"
    /\ l \in Posted
    /\ lead[l].row = job[x]
    /\ Outcome(x, l)
    /\ UNCHANGED <<row, contact, lease, job, who, tel, listed, amo, cron, tried>>

\* An explicit refusal: 401, 403, 429.  Nothing is created.
Refuse(x) ==
    /\ pc[x] = "wait"
    /\ job[x] \in wire
    /\ wire' = wire \ {job[x]}
    /\ \E o \in Refusals : Outcome(x, o)
    /\ UNCHANGED <<row, lead, indexed, now, contact, lease, job, who, tel,
                   listed, cron, tried>>

\* Faulty on purpose, three ways to get a timeout wrong: it is taken for a
\* refusal, the POST is repeated, there is no timeout.
NoAnswerRefused(x) ==
    /\ pc[x] = "wait"
    /\ Outcome(x, "safe")
    /\ UNCHANGED <<row, contact, lease, job, who, tel, listed, amo, cron, tried>>

NoAnswerRepeated(x) ==
    /\ pc[x] = "wait"
    /\ Goto(x, "send")
    /\ UNCHANGED <<row, contact, lease, local, amo, cron, tried>>

NoAnswerAwaited(x) == pc[x] = "wait" /\ UNCHANGED vars

\* No answer: a GET looks for the lead, and settles it if there is just one.
NoAnswer(x) ==
    /\ pc[x] = "wait"
    /\ \/ \E l \in Leads : Found(tel[x], who[x], now, l) /\ Outcome(x, l)
       \/ Outcome(x, "reconcile")
    /\ UNCHANGED <<row, contact, lease, job, who, tel, listed, amo, cron, tried>>

-----------------------------------------------------------------------------
(* The retry job: recover what is marked, then visit what may be retried.  *)

CronStart ==
    /\ pc[Cron] = "idle"
    /\ batch' = [r \in {r \in Stored : Recoverable(r)} |-> row[r]]
    /\ Goto(Cron, "recover")
    /\ UNCHANGED <<row, contact, lease, local, snap, touched, amo, tried>>

\* tryLinkRecoveredAmbiguousFixationLead; nobody catches its P2002, which
\* ends the run.
CronRecover(r) ==
    LET s == batch[r] IN
    /\ pc[Cron] = "recover"
    /\ r \in DOMAIN batch
    /\ \/ \E l \in Leads :
             /\ s.broker \in contact
             /\ Found(s.phone, s.broker, s.born, l)
             /\ row[r].lead = None /\ row[r].err = s.err /\ row[r].st = s.st
             /\ IF Duplicate(r, s.broker, l)
                THEN EndRun /\ UNCHANGED row
                ELSE /\ Write(r, "SYNCED", "none", row[r].att, l)
                     /\ batch' = [q \in DOMAIN batch \ {r} |-> batch[q]]
                     /\ UNCHANGED <<lease, pc, local, snap, touched>>
       \/ /\ \/ s.broker \notin contact
             \/ \A l \in Leads : ~ Found(s.phone, s.broker, s.born, l)
             \/ row[r].lead # None \/ row[r].err # s.err \/ row[r].st # s.st
          /\ batch' = [q \in DOMAIN batch \ {r} |-> batch[q]]
          /\ UNCHANGED <<row, lease, pc, local, snap, touched>>
    /\ UNCHANGED <<contact, amo, tried>>

CronSelect ==
    /\ pc[Cron] = "recover"
    /\ DOMAIN batch = {}
    /\ batch' = [r \in {r \in Stored : Candidate(r)} |-> row[r]]
    /\ Goto(Cron, "batch")
    /\ UNCHANGED <<row, contact, lease, local, snap, touched, amo, tried>>

CronFinish ==
    /\ pc[Cron] = "batch"
    /\ DOMAIN batch = {}
    /\ EndRun
    /\ UNCHANGED <<row, contact, amo, tried>>

\* seenPhones: one row of a phone per run
Others(r) == {q \in DOMAIN batch : batch[q].phone # batch[r].phone}

\* The next row.  One whose last error says its POST may have been taken is
\* parked with the marker; for the others the phone lease is tried.
CronPark(r) ==
    LET s == batch[r] IN
    /\ pc[Cron] = "batch"
    /\ r \in DOMAIN batch
    /\ LegacyAmbiguous(s)
    /\ batch' = [q \in Others(r) |-> batch[q]]
    /\ IF row[r].lead = None /\ row[r].err = s.err /\ row[r].st = s.st
       THEN Write(r, "FAILED", "reconcile", MaxAttempts, None)
       ELSE UNCHANGED row
    /\ UNCHANGED <<contact, lease, pc, local, snap, touched, amo, tried>>

CronPick(r) ==
    LET s == batch[r] IN
    /\ pc[Cron] = "batch"
    /\ r \in DOMAIN batch
    /\ ~ LegacyAmbiguous(s)
    /\ batch' = [q \in Others(r) |-> batch[q]]
    /\ IF lease[s.phone] = None
       THEN /\ lease' = [lease EXCEPT ![s.phone] = Cron]
            /\ snap' = s
            /\ job' = [job EXCEPT ![Cron] = r]
            /\ who' = [who EXCEPT ![Cron] = s.broker]
            /\ tel' = [tel EXCEPT ![Cron] = s.phone]
            /\ Goto(Cron, "check")
       ELSE UNCHANGED <<lease, snap, job, who, tel, pc>>
    /\ UNCHANGED <<row, contact, listed, out, touched, amo, tried>>

\* deferSamePhoneAmoRetry
Defer ==
    LET r == job[Cron] IN
    /\ IF r \notin touched
       THEN Write(r, IF snap.att + 1 >= MaxAttempts THEN "FAILED" ELSE "PENDING",
                  "recheck", snap.att + 1, None)
       ELSE UNCHANGED row
    /\ NextRow

CronCheck ==
    /\ pc[Cron] = "check"
    /\ IF Unresolved(tel[Cron], job[Cron]) # {}
       THEN Defer
       ELSE Goto(Cron, "ask") /\ UNCHANGED <<row, lease, local>>
    /\ UNCHANGED <<contact, cron, amo, tried>>

\* Faulty on purpose: the failed attempt is not counted.
FailBeforeUncounted(kind) ==
    /\ Write(job[Cron], row[job[Cron]].st,
             IF snap.err = "recheck" THEN "recheck" ELSE kind,
             row[job[Cron]].att, row[job[Cron]].lead)
    /\ IF kind = "auth" THEN EndRun ELSE NextRow /\ UNCHANGED cron

\* The catch of an attempt that has not reached its POST: the row is updated
\* by id, whatever it holds by now.  401 and 403 end the run.
FailBefore(kind) ==
    LET r == job[Cron] IN
    /\ Write(r, IF snap.att + 1 >= MaxAttempts THEN "FAILED" ELSE row[r].st,
             IF snap.err = "recheck" THEN "recheck" ELSE kind,
             row[r].att + 1, row[r].lead)
    /\ IF kind = "auth" THEN EndRun ELSE NextRow /\ UNCHANGED cron

CronNoVerdict ==
    /\ pc[Cron] = "ask"
    /\ \E kind \in Refusals \cup {"unsafe"} : FailBefore(kind)
    /\ UNCHANGED <<contact, amo, tried>>

\* resolveRefixUniquenessDecision: the row is linked to the lead found, by a
\* plain update that P2002 turns into a failed attempt.
CronResolve ==
    LET r == job[Cron] IN
    /\ pc[Cron] = "ask"
    /\ Rule(tel[Cron]) \in {"kc", "deal"}
    /\ \E l \in In(tel[Cron], Rule(tel[Cron])) :
          IF Duplicate(r, row[r].broker, l)
          THEN FailBefore("unsafe")
          ELSE /\ Write(r, "SYNCED", "none", row[r].att + 1, l)
               /\ NextRow /\ UNCHANGED cron
    /\ UNCHANGED <<contact, amo, tried>>

CronProceed ==
    /\ pc[Cron] = "ask"
    /\ Rule(tel[Cron]) = "free"
    /\ listed' = [listed EXCEPT ![Cron] = Known(tel[Cron])]
    /\ Goto(Cron, "reflect")
    /\ UNCHANGED <<row, contact, lease, job, who, tel, out, amo, cron, tried>>

CronReflect ==
    /\ pc[Cron] = "reflect"
    /\ IF Unreflected(tel[Cron], job[Cron], listed[Cron]) # {}
       THEN Defer
       ELSE Goto(Cron, "equip") /\ UNCHANGED <<row, lease, local>>
    /\ UNCHANGED <<contact, cron, amo, tried>>

\* The agency and the broker's contact; a contact that cannot be provisioned
\* keeps the row queued without using an attempt.
CronEquip ==
    LET r == job[Cron] IN
    /\ pc[Cron] = "equip"
    /\ \/ FailBefore("safe") /\ UNCHANGED contact
       \/ /\ contact' = contact \cup {who[Cron]}
          /\ Goto(Cron, "claim")
          /\ UNCHANGED <<row, lease, local, cron>>
       \/ /\ who[Cron] \notin contact
          /\ Write(r, "PENDING", "contact", row[r].att, row[r].lead)
          /\ NextRow
          /\ UNCHANGED <<contact, cron>>
    /\ UNCHANGED <<amo, tried>>

\* The durable claim before the POST: only the row as it was read is claimed.
CronClaim ==
    LET r == job[Cron] IN
    /\ pc[Cron] = "claim"
    /\ IF r \notin touched /\ row[r].lead = None
       THEN /\ Write(r, "FAILED", "inProgress", MaxAttempts, None)
            /\ Goto(Cron, "assert")
            /\ UNCHANGED <<lease, local>>
       ELSE NextRow /\ UNCHANGED row
    /\ UNCHANGED <<contact, cron, amo, tried>>

CronSettle ==
    LET r == job[Cron]
        o == out[Cron]
    IN
    /\ pc[Cron] = "settle"
    /\ CASE ~ InProgress(r) -> UNCHANGED row
         [] InProgress(r) /\ o \in Leads ->
               IF Duplicate(r, row[r].broker, o)
               THEN Write(r, "FAILED", "reconcile", MaxAttempts, None)
               ELSE Write(r, "SYNCED", "none", snap.att + 1, o)
         [] InProgress(r) /\ o \in Refusals ->
               Write(r, "FAILED", IF snap.err = "recheck" THEN "recheck" ELSE o,
                     snap.att + 1, None)
         [] OTHER -> Write(r, "FAILED", "reconcile", MaxAttempts, None)
    /\ IF o = "auth" THEN EndRun ELSE NextRow /\ UNCHANGED cron
    /\ UNCHANGED <<contact, amo, tried>>

-----------------------------------------------------------------------------
(* The administrator, the health check, and the world.                     *)

\* retryAmoSync: a row that may hide a lead is only looked up, any other
\* failed row is queued afresh.
AdminRetry(r) ==
    LET risky == /\ row[r].err # "recheck"
                 /\ \/ row[r].err \in Markers \cup {"unsafe"}
                    \/ row[r].err = "none" /\ row[r].st = "FAILED"
    IN
    /\ r \in Stored
    /\ row[r].st = "FAILED"
    /\ row[r].lead = None
    /\ IF risky
       THEN \E l \in Leads :
               /\ row[r].broker \in contact
               /\ Found(row[r].phone, row[r].broker, row[r].born, l)
               /\ ~ Duplicate(r, row[r].broker, l)
               /\ Write(r, "SYNCED", "none", row[r].att, l)
       ELSE Write(r, "PENDING", IF row[r].err = "recheck" THEN "recheck" ELSE "none",
                  0, None)
    /\ Touch({r})
    /\ UNCHANGED <<lead, indexed, wire, now, contact, lease, pc, local, batch,
                   snap, tried>>

\* requeueAmoAuthDeadLetters, once the health check sees amoCRM again
DeadLetters == {r \in Stored : /\ row[r].st \in {"FAILED", "PENDING"}
                               /\ row[r].att >= MaxAttempts
                               /\ row[r].lead = None
                               /\ row[r].err = "auth"}
Requeue ==
    /\ DeadLetters # {}
    /\ row' = [r \in Rows |->
                 IF r \in DeadLetters
                 THEN [row[r] EXCEPT !.st = "PENDING", !.att = 0, !.err = "none"]
                 ELSE row[r]]
    /\ Touch(DeadLetters)
    /\ UNCHANGED <<lead, indexed, wire, now, contact, lease, pc, local, batch,
                   snap, tried>>

\* The process of a writer dies: its lease stays until it lapses.
Crash(x) ==
    /\ x \in Mortal
    /\ pc[x] \notin {"idle", "done"}
    /\ Leave(x, IF x = Cron THEN "idle" ELSE "done", Dead)
    /\ IF x = Cron
       THEN batch' = Empty /\ snap' = None /\ touched' = {}
       ELSE UNCHANGED cron
    /\ UNCHANGED <<row, contact, amo, tried>>

\* The TTL runs out under a live holder as well as under a dead one.
Lapse(p) ==
    /\ lease[p] # None
    /\ lease' = [lease EXCEPT ![p] = None]
    /\ UNCHANGED <<row, contact, pc, local, amo, cron, tried>>

Index(l) ==
    /\ l \in Posted \ indexed
    /\ indexed' = indexed \cup {l}
    /\ UNCHANGED <<row, lead, wire, now, contact, lease, pc, local, cron, tried>>

\* Staff move a lead on.
Advance(l, stage) ==
    /\ l \in Posted
    /\ lead[l].stage \notin {"closed", stage}
    /\ lead' = [lead EXCEPT ![l].stage = stage]
    /\ UNCHANGED <<row, indexed, wire, now, contact, lease, pc, local, cron, tried>>

\* Fifteen minutes pass.  No request lasts that long from insert to answer.
Tick ==
    /\ now < MaxEpoch
    /\ \A x \in Procs : pc[x] \notin {"reflect", "assert", "send", "wait"}
    /\ now' = now + 1
    /\ UNCHANGED <<row, lead, indexed, wire, contact, lease, pc, local, cron, tried>>

-----------------------------------------------------------------------------
UiStep(u) ==
    \/ UiNoVerdict(u) \/ UiAlarm(u) \/ UiRecordOnly(u) \/ UiProceed(u)
    \/ UiCheck(u) \/ (\E r \in Rows : UiCreate(u, r)) \/ UiReflect(u) \/ UiSettle(u)

PostStep(x) ==
    \/ AssertOwned(x) \/ FailBeforePost(x) \/ Send(x)
    \/ (\E l \in Leads : Reply(x, l)) \/ Refuse(x) \/ NoAnswer(x)

CronStep ==
    \/ CronStart \/ CronSelect \/ CronFinish
    \/ \E r \in Rows : CronRecover(r) \/ CronPark(r) \/ CronPick(r)
    \/ CronCheck \/ CronNoVerdict \/ CronResolve \/ CronProceed \/ CronReflect
    \/ CronEquip \/ CronClaim \/ CronSettle

World ==
    \/ \E r \in Rows : AdminRetry(r) \/ Drop(r) \/ (\E l \in Leads : Accept(r, l))
    \/ Requeue
    \/ \E x \in Procs : Crash(x)
    \/ \E p \in Phones : Lapse(p)
    \/ \E l \in Leads : Index(l) \/ (\E s \in LaterStages : Advance(l, s))
    \/ Tick

Next ==
    \/ \E u \in Uis, b \in Brokers, p \in Phones : UiStart(u, b, p)
    \/ \E u \in Uis : UiStep(u)
    \/ \E x \in Procs : PostStep(x)
    \/ CronStep
    \/ World

Spec == Init /\ [][Next]_vars

\* A request, once started, runs to its end, every amoCRM call having a
\* timeout; the job is started again every five minutes; a dead holder's
\* lease runs out.
Fairness ==
    /\ \A u \in Uis : WF_vars(UiStep(u) \/ PostStep(u))
    /\ WF_vars(CronStep) /\ WF_vars(PostStep(Cron))
    /\ \A p \in Phones : WF_vars(lease[p] = Dead /\ Lapse(p))

FairSpec == Spec /\ Fairness

-----------------------------------------------------------------------------
(* Properties.                                                             *)

TypeOK ==
    /\ row \in [Rows -> Row \cup {None}]
    /\ lead \in [Leads -> Lead \cup {None}]
    /\ indexed \subseteq Posted
    /\ wire \subseteq Rows /\ tried \subseteq Rows /\ touched \subseteq Rows
    /\ contact \subseteq Brokers
    /\ lease \in [Phones -> Procs \cup {None, Dead}]
    /\ now \in Nat

Outstanding(r) == r \in wire \/ \E l \in Posted : lead[l].row = r

\* A writer about to POST knows of every lead already created for the phone,
\* and no other POST for it is in flight: the reason the leases, the marker
\* and the two same-phone queries exist.  It holds though leases lapse under
\* their holders, processes crash, answers are lost, requests arrive late and
\* GET lags behind.
PostInformed ==
    \A x \in Procs : pc[x] = "send" =>
        /\ \A l \in Posted : PhoneOf(l) = tel[x] => l \in listed[x]
        /\ \A r \in wire : row[r].phone # tel[x]

\* Once its request is out, a row is linked to the very lead the request
\* created, or still carries the marker that stops automatic retries.
NothingForgotten ==
    \A r \in Rows : Outstanding(r) =>
        \/ row[r].lead = None /\ row[r].err \in Markers
        \/ row[r].lead \in Posted /\ lead[row[r].lead].row = r

\* One fixation never becomes two leads.
OneLeadPerRow ==
    /\ \A l, m \in Posted : lead[l].row = lead[m].row => l = m
    /\ \A r \in wire, l \in Posted : lead[l].row # r

\* No write, not even one made by id without comparing, takes a row out of
\* SYNCED or moves its link to another lead.  (PromiseKept says more.)
LinksAreFinal ==
    [][\A r \in Stored : row[r].st = "SYNCED" \/ row[r].lead # None =>
          row'[r].st = "SYNCED" /\ row'[r].lead = row[r].lead]_vars

\* What all of this amounts to, without leases, queues and crashes: see
\* FixationPromise.  A SYNCED row has no error, so that the cases are apart.
StateOf(r) ==
    IF row[r] = None THEN "absent"
    ELSE CASE row[r].st = "SYNCED"     -> "settled"
           [] row[r].err \in Markers   -> "doubt"
           [] OTHER                    -> "open"

LinkOf(r)   == IF row[r] = None THEN None ELSE row[r].lead
ClientOf(r) == IF row[r] = None THEN None ELSE row[r].phone
OriginOf(l) == IF lead[l] = None THEN None ELSE lead[l].row

Promise == INSTANCE FixationPromise WITH
    state  <- [r \in Rows |-> StateOf(r)],
    link   <- [r \in Rows |-> LinkOf(r)],
    phone  <- [r \in Rows |-> ClientOf(r)],
    sent   <- wire,
    origin <- [l \in Leads |-> OriginOf(l)]

\* Requests, the retry job, recovery, administrators and crashes together do
\* to a row only what the promise allows: no POST while a request of the same
\* client may have created a lead nobody is linked to, no row back in the
\* queue while its own may have, no link to the lead of another client, and
\* no link ever changed or taken back.
PromiseKept == Promise!Spec

\* A run of the retry job ends.  Were it to hang, the overlap flag would keep
\* every later run from starting.
RunEnds == pc[Cron] # "idle" ~> pc[Cron] = "idle"

Queued(r) == r \in Stored /\ Candidate(r)

\* A queued row whose broker has an amoCRM contact does not stay queued: it is
\* linked, parked, or out of attempts, unless an administrator keeps queueing
\* it afresh.
QueueServed ==
    \A r \in Rows :
        \/ []<><<AdminRetry(r)>>_vars
        \/ Queued(r) /\ row[r].broker \in contact ~> ~ Queued(r)

\* What the comment on the retry loop says: a failure of the uniqueness check,
\* before createFixationRequest, creates nothing and is retried as usual.  So
\* a row is parked only after its createFixationRequest was reached.  No run
\* checks this: the code parks a row whose check was cut off too.
ParkedWasTried == \A r \in Stored : row[r].err = "reconcile" => r \in tried

\* What the comment on the retry job says: every five minutes it takes the
\* rows that have not reached amoCRM.
RetryGoesOn == []<>(pc[Cron] = "batch")
=============================================================================
