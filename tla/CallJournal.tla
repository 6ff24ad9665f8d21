---------------------------- MODULE CallJournal ----------------------------
(***************************************************************************)
(* The rows of `calls`: one is inserted when Mango has accepted a command  *)
(* of the cabinet, and handleMangoCallResult writes the results that Mango *)
(* posts to it.  The notifications come in any order, more than once, and  *)
(* while others are being handled; each names the call by the command id,  *)
(* by Mango's own call id or by both.                                      *)
(*                                                                         *)
(* One broker is modelled: rows are searched by id or among the calls of   *)
(* the broker whose number the notification carries.  A notification here  *)
(* is one that reaches the search: the technical legs, the states that are *)
(* not final and those without a counter are answered before it.           *)
(***************************************************************************)
EXTENDS Naturals, Sequences

CONSTANTS
    Calls,
    Commands,      \* the calls commanded by the cabinet
    Events,        \* the notifications
    CallOf,        \* the call a notification is about
    SeqOf,         \* its counter; 0 in the legacy shape
    Named,         \* notifications that carry the command id
    Handlers,      \* handlers at work at one time
    NoEvent,
    MaxDeliveries, \* how often Mango posts one notification (bounds the model)
    Aging,         \* may a call outlast ten minutes?
    Early,         \* commands whose notifications may overtake the insert of the row
    Lossy          \* commands whose insert may fail

ASSUME ConstantsAssumption ==
    /\ Commands \subseteq Calls
    /\ CallOf \in [Events -> Calls]
    /\ SeqOf \in [Events -> Nat]
    /\ Named \subseteq {e \in Events : CallOf[e] \in Commands}
    /\ NoEvent \notin Events
    /\ MaxDeliveries \in Nat
    /\ Aging \in BOOLEAN
    /\ Early \subseteq Commands /\ Lossy \subseteq Commands

VARIABLES
    rows,      \* the table, in the order of initiatedAt
    pending,   \* commands that Mango accepted and whose row is not yet there
    stale,     \* rows initiated more than ten minutes ago
    posted,    \* how often a notification has been posted
    pc, event, found,
    handled    \* history: the notifications answered as processed or stale

local == <<pc, event, found>>
vars  == <<rows, pending, stale, posted, pc, event, found, handled>>

\* mangoCallId: our id of a command, or Mango's id of a call.
Ids      == [kind : {"command", "call"}, call : Calls]
IdsOf(e) == IF e \in Named THEN [kind : {"command", "call"}, call : {CallOf[e]}]
                           ELSE [kind : {"call"}, call : {CallOf[e]}]
CallId(e) == [kind |-> "call", call |-> CallOf[e]]

\* `of` is history: the call that the row was made for.
Row(id, seq, by, call) == [id |-> id, seq |-> seq, by |-> by, of |-> call]

Initiated(i) == rows[i].by = NoEvent
RowsWith(i, e) == rows[i].id \in IdsOf(e)

Init ==
    /\ rows = <<>>
    /\ pending = Commands
    /\ stale = {}
    /\ posted = [e \in Events |-> 0]
    /\ pc = [h \in Handlers |-> "idle"]
    /\ event = [h \in Handlers |-> NoEvent]
    /\ found = [h \in Handlers |-> 0]
    /\ handled = {}

-----------------------------------------------------------------------------
\* call.create after Mango accepted the command.
Insert(c) ==
    /\ c \in pending
    /\ pending' = pending \ {c}
    /\ \/ rows' = Append(rows, Row([kind |-> "command", call |-> c], 0, NoEvent, c))
       \/ c \in Lossy /\ UNCHANGED rows
    /\ UNCHANGED <<stale, posted, local, handled>>

\* Ten minutes after a call was initiated.
Age(i) ==
    /\ Aging
    /\ i \in DOMAIN rows \ stale
    /\ Initiated(i)
    /\ stale' = stale \cup {i}
    /\ UNCHANGED <<rows, pending, posted, local, handled>>

Deliver(h, e) ==
    /\ pc[h] = "idle"
    /\ posted[e] < MaxDeliveries
    /\ CallOf[e] \notin pending \ Early
    /\ posted' = [posted EXCEPT ![e] = @ + 1]
    /\ pc' = [pc EXCEPT ![h] = "byId"]
    /\ event' = [event EXCEPT ![h] = e]
    /\ UNCHANGED <<rows, pending, stale, found, handled>>

Take(h, i) ==
    /\ found' = [found EXCEPT ![h] = i]
    /\ pc' = [pc EXCEPT ![h] = "update"]

\* Faulty on purpose: only Mango's own id is looked up.
FindByCallId(h) ==
    /\ pc[h] = "byId"
    /\ LET hits == {i \in DOMAIN rows : rows[i].id = CallId(event[h])}
       IN  IF hits = {}
           THEN pc' = [pc EXCEPT ![h] = "byPhone"] /\ UNCHANGED found
           ELSE \E i \in hits : Take(h, i)
    /\ UNCHANGED <<rows, pending, stale, posted, event, handled>>

\* Faulty on purpose: only calls without a result are looked up.
FindByIdOpen(h) ==
    /\ pc[h] = "byId"
    /\ LET hits == {i \in DOMAIN rows : RowsWith(i, event[h]) /\ Initiated(i)}
       IN  IF hits = {}
           THEN pc' = [pc EXCEPT ![h] = "byPhone"] /\ UNCHANGED found
           ELSE \E i \in hits : Take(h, i)
    /\ UNCHANGED <<rows, pending, stale, posted, event, handled>>

\* A row with one of the ids; the command id is tried first.
FindById(h) ==
    /\ pc[h] = "byId"
    /\ LET hits == {i \in DOMAIN rows : RowsWith(i, event[h])}
           first == {i \in hits : rows[i].id.kind = "command"}
       IN  IF hits = {}
           THEN pc' = [pc EXCEPT ![h] = "byPhone"] /\ UNCHANGED found
           ELSE \E i \in IF first # {} THEN first ELSE hits : Take(h, i)
    /\ UNCHANGED <<rows, pending, stale, posted, event, handled>>

\* The newest recent call of the broker that has no result yet.
FindByPhone(h) ==
    /\ pc[h] = "byPhone"
    /\ LET open == {i \in DOMAIN rows \ stale : Initiated(i)}
       IN  IF open = {}
           THEN pc' = [pc EXCEPT ![h] = "create"] /\ UNCHANGED found
           ELSE Take(h, CHOOSE i \in open : \A j \in open : j <= i)
    /\ UNCHANGED <<rows, pending, stale, posted, event, handled>>

Done(h) ==
    /\ pc' = [pc EXCEPT ![h] = "idle"]
    /\ event' = [event EXCEPT ![h] = NoEvent]
    /\ found' = [found EXCEPT ![h] = 0]
    /\ handled' = handled \cup {<<event[h], IF pc[h] = "create" THEN Len(rows) + 1
                                                               ELSE found[h]>>}

\* Faulty on purpose: the row is written by id, whatever is in it by now.
UpdateById(h) ==
    /\ pc[h] = "update"
    /\ rows' = [rows EXCEPT ![found[h]].seq = SeqOf[event[h]],
                            ![found[h]].by = event[h]]
    /\ Done(h)
    /\ UNCHANGED <<pending, stale, posted>>

\* updateMany: a legacy notification only finishes a call without a result, an
\* official one needs a higher counter than the row has.
Update(h) ==
    LET e == event[h]
        i == found[h]
        fresh == IF SeqOf[e] = 0 THEN rows[i].seq = 0 /\ Initiated(i)
                                 ELSE rows[i].seq < SeqOf[e]
    IN  /\ pc[h] = "update"
        /\ rows' = IF fresh THEN [rows EXCEPT ![i].seq = SeqOf[e], ![i].by = e]
                            ELSE rows
        /\ Done(h)
        /\ UNCHANGED <<pending, stale, posted>>

\* Faulty on purpose: the row does not remember the id it came with.
CreateNameless(h) ==
    /\ pc[h] = "create"
    /\ rows' = Append(rows, Row(NoEvent, SeqOf[event[h]], event[h], CallOf[event[h]]))
    /\ Done(h)
    /\ UNCHANGED <<pending, stale, posted>>

\* Nothing was found: a call made elsewhere.
Create(h) ==
    LET e == event[h]
    IN  /\ pc[h] = "create"
        /\ rows' = Append(rows, Row(CallId(e), SeqOf[e], e, CallOf[e]))
        /\ Done(h)
        /\ UNCHANGED <<pending, stale, posted>>

Handle(h) == FindById(h) \/ FindByPhone(h) \/ Update(h) \/ Create(h)

Next ==
    \/ \E c \in Commands : Insert(c)
    \/ \E i \in DOMAIN rows : Age(i)
    \/ \E h \in Handlers : Handle(h) \/ \E e \in Events : Deliver(h, e)

Spec == Init /\ [][Next]_vars

-----------------------------------------------------------------------------
\* The types of the table and of the handlers.
TypeOK ==
    /\ rows \in Seq([id : Ids, seq : Nat, by : Events \cup {NoEvent}, of : Calls])
    /\ pending \in SUBSET Commands
    /\ stale \in SUBSET (DOMAIN rows)
    /\ posted \in [Events -> 0..MaxDeliveries]
    /\ pc \in [Handlers -> {"idle", "byId", "byPhone", "update", "create"}]
    /\ event \in [Handlers -> Events \cup {NoEvent}]
    /\ found \in [Handlers -> 0..Len(rows)]

\* The notifications that were matched with a row.
MatchedWith(i) == {x[1] : x \in {y \in handled : y[2] = i}}

\* A row holds the result of the highest counter among the notifications that
\* were matched with it, in whatever order they came and were written
\* (webhooks.service.ts:573-605).
LatestWins ==
    \A i \in DOMAIN rows :
        MatchedWith(i) # {} =>
            /\ rows[i].by \in MatchedWith(i)
            /\ \A e \in MatchedWith(i) : SeqOf[e] <= SeqOf[rows[i].by]

\* The commands whose row is there before any notification, and all of whose
\* notifications name them.
Orderly == {c \in Commands \ (Early \cup Lossy) :
               \A e \in Events : CallOf[e] = c => e \in Named}

\* Such a call has one row: a repeated notification is found again by the id it
\* names (:513-518), not journalled as another call (:609-630).
OneRowPerCall ==
    \A i, j \in DOMAIN rows :
        rows[i].of = rows[j].of /\ rows[i].of \in Orderly => i = j

\* What is handled about such a call is matched with its own row, whatever
\* other calls of the broker are open or were lost (:503-571).  The row then
\* shows no older result than that, and never that of another such call.  It
\* may show the result of a call that is not such: see OwnResults.
ResultKept ==
    \A x \in handled : CallOf[x[1]] \in Orderly =>
        LET r == rows[x[2]] IN
        /\ r.of = CallOf[x[1]]
        /\ r.by # NoEvent /\ SeqOf[x[1]] <= SeqOf[r.by]
        /\ CallOf[r.by] \in Orderly => CallOf[r.by] = r.of

\* No run checks this, the code does not keep it: a call without a row, made
\* elsewhere or with its insert lost, is found by phone and written into the
\* newest open row of the broker, whose own result then has no higher counter.
OwnResults ==
    \A i \in DOMAIN rows :
        rows[i].of \in Orderly /\ rows[i].by # NoEvent => CallOf[rows[i].by] = rows[i].of

=============================================================================
