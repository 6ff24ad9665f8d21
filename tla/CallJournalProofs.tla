------------------------- MODULE CallJournalProofs -------------------------
(***************************************************************************)
(* Proofs about CallJournal, for any calls, notifications and handlers.    *)
(***************************************************************************)
EXTENDS CallJournal, SequenceTheorems, WellFoundedInduction, TLAPS

Record == [id : Ids, seq : Nat, by : Events \cup {NoEvent}, of : Calls]

\* The types of the variables.
Tables ==
  /\ rows \in Seq(Record)
  /\ pending \subseteq Commands
  /\ stale \subseteq DOMAIN rows
  /\ posted \in [Events -> 0 .. MaxDeliveries]
  /\ pc \in [Handlers -> {"idle", "byId", "byPhone", "update", "create"}]
  /\ event \in [Handlers -> Events \cup {NoEvent}]
  /\ found \in [Handlers -> Nat]
  /\ handled \subseteq Events \X DOMAIN rows

\* What the handlers know: each works on one notification, and one about to
\* update has found a row.
HandlerInv ==
  \A h \in Handlers :
     /\ pc[h] # "idle" => event[h] \in Events
     /\ IF pc[h] = "update" THEN found[h] \in DOMAIN rows ELSE found[h] = 0

Typed == Tables /\ HandlerInv

-----------------------------------------------------------------------------
(* What a step may do to the table.                                        *)

\* Rows are only added, and keep the id and the call they were made with.
RowsGrow ==
  /\ rows' \in Seq(Record)
  /\ DOMAIN rows \subseteq DOMAIN rows'
  /\ \A i \in DOMAIN rows : rows'[i].id = rows[i].id /\ rows'[i].of = rows[i].of

LEMMA TableFacts ==
  ASSUME Tables
  PROVE  /\ Len(rows) \in Nat /\ DOMAIN rows = 1 .. Len(rows)
         /\ \A i \in DOMAIN rows : rows[i] \in Record
BY LenProperties, ElementOfSeq DEF Tables

LEMMA AppendEffect ==
  ASSUME Tables, NEW r \in Record, rows' = Append(rows, r)
  PROVE  /\ RowsGrow /\ Len(rows') = Len(rows) + 1
         /\ DOMAIN rows' = DOMAIN rows \cup {Len(rows) + 1}
         /\ Len(rows) + 1 \notin DOMAIN rows
         /\ \A i \in DOMAIN rows : rows'[i] = rows[i]
         /\ rows'[Len(rows) + 1] = r
<1>1. Len(rows) \in Nat /\ DOMAIN rows = 1 .. Len(rows)
  BY TableFacts
<1>2. /\ rows' \in Seq(Record) /\ Len(rows') = Len(rows) + 1
      /\ \A i \in 1 .. Len(rows) : rows'[i] = rows[i]
      /\ rows'[Len(rows) + 1] = r
  BY AppendProperties DEF Tables
<1>3. DOMAIN rows' = 1 .. Len(rows')
  BY <1>2, LenProperties
<1> QED
  BY <1>1, <1>2, <1>3 DEF RowsGrow

LEMMA OverwriteEffect ==
  ASSUME Tables, NEW i \in DOMAIN rows, NEW s \in Nat, NEW e \in Events,
         rows' = [rows EXCEPT ![i].seq = s, ![i].by = e]
  PROVE  /\ RowsGrow /\ DOMAIN rows' = DOMAIN rows
         /\ \A j \in DOMAIN rows \ {i} : rows'[j] = rows[j]
         /\ rows'[i].seq = s /\ rows'[i].by = e
<1>1. rows[i] \in Record /\ i \in 1 .. Len(rows) /\ DOMAIN rows = 1 .. Len(rows)
  BY TableFacts
<1> DEFINE new == [rows[i] EXCEPT !.seq = s, !.by = e]
<1>2. /\ new \in Record /\ new.seq = s /\ new.by = e
      /\ new.id = rows[i].id /\ new.of = rows[i].of
  BY <1>1 DEF Record
<1>3. rows' = [rows EXCEPT ![i] = new]
  BY <1>1
<1> HIDE DEF new
<1>4. /\ rows' \in Seq(Record) /\ Len(rows') = Len(rows)
      /\ \A j \in 1 .. Len(rows) : rows'[j] = IF j = i THEN new ELSE rows[j]
  <2>1. rows \in Seq(Record) /\ new \in Record
    BY <1>2 DEF Tables
  <2> HIDE DEF Record
  <2>2. /\ [rows EXCEPT ![i] = new] \in Seq(Record)
        /\ Len([rows EXCEPT ![i] = new]) = Len(rows)
        /\ \A j \in 1 .. Len(rows) :
              [rows EXCEPT ![i] = new][j] = IF j = i THEN new ELSE rows[j]
    BY <1>1, <2>1, ExceptSeq, Zenon
  <2> QED
    BY <1>3, <2>2
<1>5. DOMAIN rows' = 1 .. Len(rows')
  BY <1>4, LenProperties
<1> QED
  BY <1>1, <1>2, <1>4, <1>5 DEF RowsGrow

\* The records that the code inserts.
LEMMA RecordFacts ==
  /\ \A c \in Commands : Row([kind |-> "command", call |-> c], 0, NoEvent, c) \in Record
  /\ \A e \in Events : Row(CallId(e), SeqOf[e], e, CallOf[e]) \in Record
  /\ \A e \in Events : CallOf[e] \in Calls /\ SeqOf[e] \in Nat
BY ConstantsAssumption DEF Row, Record, Ids, CallId

-----------------------------------------------------------------------------
(* The types.                                                              *)

\* A handler that is through leaves one mark in the history.
LEMMA DoneEffect ==
  ASSUME Typed, NEW h \in Handlers, pc[h] # "idle", Done(h), RowsGrow,
         pc[h] = "create" => Len(rows) + 1 \in DOMAIN rows',
         pc[h] # "create" => found[h] \in DOMAIN rows,
         stale' = stale, pending' = pending, posted' = posted
  PROVE  /\ Typed'
         /\ \A g \in Handlers \ {h} : pc'[g] = pc[g] /\ event'[g] = event[g] /\ found'[g] = found[g]
         /\ pc'[h] = "idle"
<1>1. /\ pc' = [pc EXCEPT ![h] = "idle"] /\ event' = [event EXCEPT ![h] = NoEvent]
      /\ found' = [found EXCEPT ![h] = 0]
      /\ handled' = handled \cup {<<event[h], IF pc[h] = "create" THEN Len(rows) + 1
                                                                 ELSE found[h]>>}
  BY DEF Done
<1>2. /\ \A g \in Handlers \ {h} : pc'[g] = pc[g] /\ event'[g] = event[g] /\ found'[g] = found[g]
      /\ pc'[h] = "idle" /\ event'[h] = NoEvent /\ found'[h] = 0
  BY <1>1 DEF Typed, Tables
<1>3. handled' \subseteq Events \X DOMAIN rows'
  <2>1. event[h] \in Events
    BY DEF Typed, HandlerInv
  <2> QED
    BY <1>1, <2>1 DEF RowsGrow, Typed, Tables
<1>4. Tables'
  BY <1>1, <1>3 DEF Typed, Tables, RowsGrow
<1>5. HandlerInv'
  BY <1>2 DEF Typed, HandlerInv, RowsGrow
<1> QED
  BY <1>2, <1>4, <1>5 DEF Typed

LEMMA InsertTyped ==
  ASSUME Typed, NEW c \in Commands, Insert(c)
  PROVE  Typed' /\ RowsGrow
<1>1. RowsGrow
  <2>1. CASE rows' = Append(rows, Row([kind |-> "command", call |-> c], 0, NoEvent, c))
    BY <2>1, RecordFacts, AppendEffect DEF Typed
  <2>2. CASE rows' = rows
    BY <2>2 DEF RowsGrow, Typed, Tables
  <2> QED
    BY <2>1, <2>2 DEF Insert
<1>2. Tables'
  BY <1>1 DEF Typed, Tables, RowsGrow, Insert, local
<1>3. HandlerInv'
  BY <1>1 DEF Typed, HandlerInv, RowsGrow, Insert, local
<1> QED
  BY <1>1, <1>2, <1>3 DEF Typed

LEMMA AgeTyped ==
  ASSUME Typed, NEW i \in DOMAIN rows, Age(i)
  PROVE  Typed' /\ rows' = rows
BY DEF Typed, Tables, HandlerInv, Age, local

\* A handler that changes its place without touching the table.
Walk(h, p, e, f) ==
  /\ pc' = [pc EXCEPT ![h] = p] /\ event' = [event EXCEPT ![h] = e]
  /\ found' = [found EXCEPT ![h] = f]
  /\ \/ p \in {"byId", "byPhone", "create"} /\ f = 0
     \/ p = "update" /\ f \in DOMAIN rows
  /\ rows' = rows /\ pending' = pending /\ stale' = stale /\ handled' = handled
  /\ posted' \in [Events -> 0 .. MaxDeliveries]

LEMMA WalkTyped ==
  ASSUME Typed, NEW h \in Handlers, NEW p, NEW e \in Events, NEW f, Walk(h, p, e, f)
  PROVE  /\ Typed' /\ UNCHANGED <<rows, pending, stale, handled>>
         /\ \A g \in Handlers \ {h} : pc'[g] = pc[g] /\ event'[g] = event[g] /\ found'[g] = found[g]
         /\ pc'[h] = p /\ event'[h] = e /\ found'[h] = f
<1>0. f \in Nat
  BY TableFacts DEF Walk, Typed
<1>1. /\ \A g \in Handlers \ {h} : pc'[g] = pc[g] /\ event'[g] = event[g] /\ found'[g] = found[g]
      /\ pc'[h] = p /\ event'[h] = e /\ found'[h] = f
  BY <1>0 DEF Typed, Tables, Walk
<1>2. Tables'
  BY <1>0 DEF Typed, Tables, Walk
<1>3. HandlerInv'
  BY <1>1 DEF Typed, HandlerInv, Walk
<1> QED
  BY <1>1, <1>2, <1>3 DEF Typed, Walk

LEMMA DeliverTyped ==
  ASSUME Typed, NEW h \in Handlers, NEW e \in Events, Deliver(h, e)
  PROVE  /\ Typed'
         /\ \A g \in Handlers \ {h} : pc'[g] = pc[g] /\ event'[g] = event[g] /\ found'[g] = found[g]
         /\ pc'[h] = "byId" /\ event'[h] = e
<1>1. found[h] = 0 /\ found' = [found EXCEPT ![h] = 0]
  BY DEF Typed, Tables, HandlerInv, Deliver
<1>2. posted' \in [Events -> 0 .. MaxDeliveries]
  BY ConstantsAssumption DEF Typed, Tables, Deliver
<1>3. /\ pc' = [pc EXCEPT ![h] = "byId"] /\ event' = [event EXCEPT ![h] = e]
      /\ UNCHANGED <<rows, pending, stale, handled>>
  BY DEF Deliver
<1>4. Walk(h, "byId", e, 0)
  BY <1>1, <1>2, <1>3 DEF Walk
<1> QED
  BY <1>4, WalkTyped

\* A search for the newest of some rows ends: there is one.
LEMMA GreatestExists ==
  ASSUME NEW n \in Nat, NEW S, S \subseteq 1 .. n, S # {}
  PROVE  \E x \in S : \A y \in S : y <= x
<1> DEFINE Less == OpToRel(<, Nat)
           T == {m \in 0 .. n : n - m \in S}
<1>1. IsWellFoundedOn(Less, Nat)
  BY NatLessThanWellFounded
<1>2. \A x, y \in Nat : x < y => <<x, y>> \in Less
  BY DEF OpToRel
<1>3. T \subseteq Nat /\ T # {}
  <2>1. PICK s \in S : TRUE
    OBVIOUS
  <2>2. n - s \in 0 .. n /\ n - (n - s) = s
    OBVIOUS
  <2>3. n - s \in T
    BY <2>1, <2>2
  <2>4. T \subseteq Nat
    OBVIOUS
  <2> QED
    BY <2>3, <2>4
<1> HIDE DEF Less
<1>4. PICK m \in T : \A k \in T : <<k, m>> \notin Less
  BY <1>1, <1>3, WFMin, Zenon
<1>5. \A y \in S : y <= n - m
  <2> SUFFICES ASSUME NEW y \in S PROVE y <= n - m
    OBVIOUS
  <2>1. n - y \in 0 .. n /\ n - (n - y) = y
    OBVIOUS
  <2>2. n - y \in T
    BY <2>1
  <2>3. ~ (n - y < m)
    BY <1>2, <1>3, <1>4, <2>2
  <2> QED
    BY <2>3
<1> QED
  BY <1>5

\* By an id: one of the rows that carry it, the command's before Mango's.
LEMMA FindByIdTyped ==
  ASSUME Typed, NEW h \in Handlers, FindById(h)
  PROVE  /\ Typed' /\ UNCHANGED <<rows, pending, stale, handled>>
         /\ \A g \in Handlers \ {h} : pc'[g] = pc[g] /\ event'[g] = event[g] /\ found'[g] = found[g]
         /\ event'[h] = event[h]
         /\ \/ /\ pc'[h] = "byPhone"
               /\ \A i \in DOMAIN rows : ~RowsWith(i, event[h])
            \/ /\ pc'[h] = "update" /\ found'[h] \in DOMAIN rows
               /\ RowsWith(found'[h], event[h])
<1>1. /\ pc[h] = "byId" /\ event[h] \in Events /\ found[h] = 0
      /\ UNCHANGED <<rows, pending, stale, posted, event, handled>>
  BY DEF FindById, Typed, HandlerInv
<1>2. /\ posted' \in [Events -> 0 .. MaxDeliveries]
      /\ event' = [event EXCEPT ![h] = event[h]]
  BY <1>1 DEF Typed, Tables
<1>3. CASE \A i \in DOMAIN rows : ~RowsWith(i, event[h])
  <2>1. pc' = [pc EXCEPT ![h] = "byPhone"] /\ found' = [found EXCEPT ![h] = 0]
    BY <1>1, <1>3 DEF FindById, Typed, Tables, Take
  <2>2. Walk(h, "byPhone", event[h], 0)
    BY <1>1, <1>2, <2>1 DEF Walk
  <2> QED
    BY <1>1, <1>3, <2>2, WalkTyped
<1>4. CASE \E i \in DOMAIN rows : RowsWith(i, event[h])
  <2>1. PICK i \in DOMAIN rows :
          /\ RowsWith(i, event[h])
          /\ pc' = [pc EXCEPT ![h] = "update"] /\ found' = [found EXCEPT ![h] = i]
    BY <1>4 DEF FindById, Take
  <2>2. Walk(h, "update", event[h], i)
    BY <1>1, <1>2, <2>1 DEF Walk
  <2> QED
    BY <1>1, <2>1, <2>2, WalkTyped
<1> QED
  BY <1>3, <1>4

\* By the broker: a row without a result, or no row at all.
LEMMA FindByPhoneTyped ==
  ASSUME Typed, NEW h \in Handlers, FindByPhone(h)
  PROVE  /\ Typed' /\ UNCHANGED <<rows, pending, stale, handled>>
         /\ \A g \in Handlers \ {h} : pc'[g] = pc[g] /\ event'[g] = event[g] /\ found'[g] = found[g]
         /\ event'[h] = event[h] /\ pc'[h] \in {"update", "create"}
<1>1. /\ pc[h] = "byPhone" /\ event[h] \in Events /\ found[h] = 0
      /\ UNCHANGED <<rows, pending, stale, posted, event, handled>>
  BY DEF FindByPhone, Typed, HandlerInv
<1>2. /\ posted' \in [Events -> 0 .. MaxDeliveries]
      /\ event' = [event EXCEPT ![h] = event[h]]
  BY <1>1 DEF Typed, Tables
<1> DEFINE open == {i \in DOMAIN rows \ stale : Initiated(i)}
<1>3. CASE open = {}
  <2>1. pc' = [pc EXCEPT ![h] = "create"] /\ found' = [found EXCEPT ![h] = 0]
    BY <1>1, <1>3 DEF FindByPhone, Typed, Tables
  <2>2. Walk(h, "create", event[h], 0)
    BY <1>1, <1>2, <2>1 DEF Walk
  <2> QED
    BY <1>1, <2>2, WalkTyped
<1>4. CASE open # {}
  <2>1. PICK n \in open : \A j \in open : j <= n
    <3>1. open \subseteq 1 .. Len(rows) /\ Len(rows) \in Nat
      BY TableFacts DEF Typed
    <3> QED
      BY <1>4, <3>1, GreatestExists
  <2> DEFINE i == CHOOSE k \in open : \A j \in open : j <= k
  <2>2. i \in open
    BY <2>1
  <2>3. pc' = [pc EXCEPT ![h] = "update"] /\ found' = [found EXCEPT ![h] = i]
    BY <1>4 DEF FindByPhone, Take
  <2> HIDE DEF i
  <2>4. Walk(h, "update", event[h], i)
    BY <1>1, <1>2, <2>2, <2>3 DEF Walk
  <2> QED
    BY <1>1, <2>4, WalkTyped
<1> QED
  BY <1>3, <1>4

LEMMA UpdateTyped ==
  ASSUME Typed, NEW h \in Handlers, Update(h)
  PROVE  /\ Typed' /\ RowsGrow /\ DOMAIN rows' = DOMAIN rows /\ pc'[h] = "idle"
         /\ \A g \in Handlers \ {h} : pc'[g] = pc[g] /\ event'[g] = event[g] /\ found'[g] = found[g]
<1>1. /\ pc[h] = "update" /\ event[h] \in Events /\ found[h] \in DOMAIN rows
      /\ UNCHANGED <<pending, stale, posted>> /\ Done(h)
  BY DEF Update, Typed, HandlerInv
<1>2. \/ rows' = rows
      \/ rows' = [rows EXCEPT ![found[h]].seq = SeqOf[event[h]], ![found[h]].by = event[h]]
  BY DEF Update
<1>3. RowsGrow /\ DOMAIN rows' = DOMAIN rows
  <2>1. CASE rows' = rows
    BY <2>1 DEF RowsGrow, Typed, Tables
  <2>2. CASE rows' = [rows EXCEPT ![found[h]].seq = SeqOf[event[h]], ![found[h]].by = event[h]]
    <3>1. SeqOf[event[h]] \in Nat
      BY <1>1, RecordFacts
    <3> QED
      BY <1>1, <2>2, <3>1, OverwriteEffect DEF Typed
  <2> QED
    BY <1>2, <2>1, <2>2
<1> QED
  BY <1>1, <1>3, DoneEffect

LEMMA CreateTyped ==
  ASSUME Typed, NEW h \in Handlers, Create(h)
  PROVE  /\ Typed' /\ RowsGrow /\ pc'[h] = "idle"
         /\ \A g \in Handlers \ {h} : pc'[g] = pc[g] /\ event'[g] = event[g] /\ found'[g] = found[g]
<1>1. /\ pc[h] = "create" /\ event[h] \in Events
      /\ UNCHANGED <<pending, stale, posted>> /\ Done(h)
  BY DEF Create, Typed, HandlerInv
<1> DEFINE r == Row(CallId(event[h]), SeqOf[event[h]], event[h], CallOf[event[h]])
<1>2. r \in Record /\ rows' = Append(rows, r)
  BY <1>1, RecordFacts DEF Create
<1> HIDE DEF r
<1>3. RowsGrow /\ Len(rows) + 1 \in DOMAIN rows'
  BY <1>2, AppendEffect DEF Typed
<1> QED
  BY <1>1, <1>3, DoneEffect

LEMMA InitTyped == Init => Typed
BY EmptySeq, ConstantsAssumption DEF Init, Typed, Tables, HandlerInv

LEMMA NextTyped == Typed /\ [Next]_vars => Typed'
<1> SUFFICES ASSUME Typed, [Next]_vars PROVE Typed'
  OBVIOUS
<1>1. CASE UNCHANGED vars
  BY <1>1 DEF Typed, Tables, HandlerInv, vars, local
<1>2. ASSUME NEW c \in Commands, Insert(c) PROVE Typed'
  BY <1>2, InsertTyped
<1>3. ASSUME NEW i \in DOMAIN rows, Age(i) PROVE Typed'
  BY <1>3, AgeTyped
<1>4. ASSUME NEW h \in Handlers, Handle(h) PROVE Typed'
  BY <1>4, FindByIdTyped, FindByPhoneTyped, UpdateTyped, CreateTyped DEF Handle
<1>5. ASSUME NEW h \in Handlers, NEW e \in Events, Deliver(h, e) PROVE Typed'
  BY <1>5, DeliverTyped
<1> QED
  BY <1>1, <1>2, <1>3, <1>4, <1>5 DEF Next

LEMMA AlwaysTyped == Spec => []Typed
BY InitTyped, NextTyped, PTL DEF Spec

\* The table holds rows, and a handler refers to a row of it or to none.
THEOREM TypeCorrect == Spec => []TypeOK
<1>1. Typed => TypeOK
  <2> SUFFICES ASSUME Typed PROVE TypeOK
    OBVIOUS
  <2>1. rows \in Seq([id : Ids, seq : Nat, by : Events \cup {NoEvent}, of : Calls])
    BY DEF Typed, Tables, Record
  <2>2. found \in [Handlers -> 0 .. Len(rows)]
    BY TableFacts DEF Typed, Tables, HandlerInv
  <2> QED
    BY <2>1, <2>2 DEF Typed, Tables, TypeOK
<1> QED
  BY <1>1, AlwaysTyped, PTL

-----------------------------------------------------------------------------
(* The latest result.  What is written in a row is the counter of the      *)
(* notification that it names, and no notification matched with the row    *)
(* has a higher one.                                                       *)

Result(i) ==
  \/ /\ rows[i].by = NoEvent /\ rows[i].seq = 0
     /\ \A e \in Events : <<e, i>> \notin handled
  \/ /\ rows[i].by \in Events /\ <<rows[i].by, i>> \in handled
     /\ rows[i].seq = SeqOf[rows[i].by]
     /\ \A e \in Events : <<e, i>> \in handled => SeqOf[e] <= rows[i].seq

ResultInv == \A i \in DOMAIN rows : Result(i)

LEMMA MatchedFacts ==
  ASSUME Typed, NEW i
  PROVE  MatchedWith(i) = {e \in Events : <<e, i>> \in handled}
<1>1. \A y \in handled : y = <<y[1], y[2]>> /\ y[1] \in Events
  BY DEF Typed, Tables
<1>2. ASSUME NEW e \in MatchedWith(i) PROVE e \in Events /\ <<e, i>> \in handled
  BY <1>1 DEF MatchedWith
<1>3. ASSUME NEW e \in Events, <<e, i>> \in handled PROVE e \in MatchedWith(i)
  <2>1. <<e, i>>[2] = i /\ <<e, i>>[1] = e
    OBVIOUS
  <2> QED
    BY <1>3, <2>1 DEF MatchedWith
<1> QED
  BY <1>2, <1>3

\* A row that stays as it is, when nothing is newly matched with it.
LEMMA ResultStays ==
  ASSUME NEW i, Result(i), rows'[i] = rows[i],
         \A e \in Events : <<e, i>> \in handled' <=> <<e, i>> \in handled
  PROVE  Result(i)'
BY DEF Result

LEMMA NewResults ==
  ASSUME Typed, ResultInv, NEW c \in Commands, Insert(c)
  PROVE  ResultInv'
<1>1. handled' = handled /\ \A e \in Events : \A i : <<e, i>> \in handled => i \in DOMAIN rows
  BY DEF Insert, Typed, Tables
<1> DEFINE r == Row([kind |-> "command", call |-> c], 0, NoEvent, c)
<1>2. CASE rows' = Append(rows, r)
  <2>1. PICK n : /\ DOMAIN rows' = DOMAIN rows \cup {n} /\ n \notin DOMAIN rows
                 /\ \A i \in DOMAIN rows : rows'[i] = rows[i]
                 /\ rows'[n] = r
    BY <1>2, RecordFacts, AppendEffect DEF Typed
  <2>2. ASSUME NEW i \in DOMAIN rows PROVE Result(i)'
    BY <1>1, <2>1, <2>2, ResultStays DEF ResultInv
  <2>3. Result(n)'
    BY <1>1, <2>1 DEF Result, Row
  <2>4. \A i \in DOMAIN rows' : Result(i)'
    BY <2>1, <2>2, <2>3
  <2> QED
    BY <2>4 DEF ResultInv
<1>3. CASE rows' = rows
  BY <1>1, <1>3 DEF ResultInv, Result
<1> QED
  BY <1>2, <1>3 DEF Insert

LEMMA CreatedResult ==
  ASSUME Typed, ResultInv, NEW h \in Handlers, Create(h)
  PROVE  ResultInv'
<1> DEFINE e == event[h]
           r == Row(CallId(e), SeqOf[e], e, CallOf[e])
<1>1. e \in Events /\ r \in Record /\ rows' = Append(rows, r)
  BY RecordFacts DEF Create, Typed, HandlerInv
<1>2. PICK n : /\ n = Len(rows) + 1
               /\ DOMAIN rows' = DOMAIN rows \cup {n} /\ n \notin DOMAIN rows
               /\ \A i \in DOMAIN rows : rows'[i] = rows[i]
               /\ rows'[n] = r
  <2> HIDE DEF r
  <2> QED
    BY <1>1, AppendEffect DEF Typed
<1>3. handled' = handled \cup {<<e, n>>} /\ SeqOf[e] \in Nat
  BY <1>1, <1>2, RecordFacts DEF Create, Done
<1>4. \A d \in Events : \A i : <<d, i>> \in handled => i \in DOMAIN rows
  BY DEF Typed, Tables
<1>5. ASSUME NEW i \in DOMAIN rows PROVE Result(i)'
  BY <1>2, <1>3, <1>5, ResultStays DEF ResultInv
<1>6. Result(n)'
  <2>1. rows'[n].by = e /\ rows'[n].seq = SeqOf[e]
    BY <1>2 DEF Row
  <2>2. \A d \in Events : <<d, n>> \in handled' => d = e
    BY <1>2, <1>3, <1>4
  <2> QED
    BY <1>1, <1>3, <2>1, <2>2 DEF Result
<1>7. \A i \in DOMAIN rows' : Result(i)'
  BY <1>2, <1>5, <1>6
<1> QED
  BY <1>7 DEF ResultInv

LEMMA UpdatedResult ==
  ASSUME Typed, ResultInv, NEW h \in Handlers, Update(h)
  PROVE  ResultInv'
<1>1. PICK e \in Events, n \in DOMAIN rows :
         /\ e = event[h] /\ n = found[h]
         /\ handled' = handled \cup {<<e, n>>}
  BY DEF Update, Done, Typed, HandlerInv
<1> DEFINE fresh == IF SeqOf[e] = 0 THEN rows[n].seq = 0 /\ Initiated(n)
                                    ELSE rows[n].seq < SeqOf[e]
<1>2. rows' = IF fresh THEN [rows EXCEPT ![n].seq = SeqOf[e], ![n].by = e] ELSE rows
  BY <1>1 DEF Update
<1>3. DOMAIN rows' = DOMAIN rows
  BY UpdateTyped
<1>4. /\ SeqOf[e] \in Nat /\ Result(n) /\ rows[n].seq \in Nat
      /\ \A d \in Events : SeqOf[d] \in Nat
  BY RecordFacts, TableFacts DEF ResultInv, Typed, Record
<1>5. /\ <<e, n>> \in handled'
      /\ \A d \in Events : <<d, n>> \in handled' => <<d, n>> \in handled \/ d = e
  BY <1>1
<1>6. ASSUME NEW i \in DOMAIN rows \ {n} PROVE Result(i)'
  <2>1. rows'[i] = rows[i]
    BY <1>1, <1>2, <1>4, OverwriteEffect DEF Typed
  <2>2. \A d \in Events : <<d, i>> \in handled' <=> <<d, i>> \in handled
    BY <1>1
  <2> QED
    BY <1>6, <2>1, <2>2, ResultStays DEF ResultInv
<1>7. Result(n)'
  <2>1. CASE fresh
    <3>1. rows'[n].by = e /\ rows'[n].seq = SeqOf[e]
      <4>1. rows' = [rows EXCEPT ![n].seq = SeqOf[e], ![n].by = e]
        BY <1>2, <2>1
      <4>2. n \in DOMAIN rows /\ rows[n] \in Record
        BY <1>1, TableFacts DEF Typed
      <4> QED
        BY <4>1, <4>2 DEF Record
    <3>2. \A d \in Events : <<d, n>> \in handled => SeqOf[d] <= SeqOf[e]
      BY <1>4, <2>1, ConstantsAssumption DEF Result, Initiated
    <3> QED
      BY <1>4, <1>5, <3>1, <3>2 DEF Result
  <2>2. CASE ~fresh
    <3>1. rows'[n] = rows[n]
      BY <1>2, <2>2
    <3>2. SeqOf[e] <= rows[n].seq /\ rows[n].by \in Events
      BY <1>4, <2>2, ConstantsAssumption DEF Result, Initiated
    <3>3. <<rows[n].by, n>> \in handled /\ rows[n].seq = SeqOf[rows[n].by]
      BY <1>4, <3>2, ConstantsAssumption DEF Result
    <3>4. \A d \in Events : <<d, n>> \in handled => SeqOf[d] <= rows[n].seq
      BY <1>4, <3>2, ConstantsAssumption DEF Result
    <3> QED
      BY <1>1, <1>5, <3>1, <3>2, <3>3, <3>4 DEF Result
  <2> QED
    BY <2>1, <2>2
<1>8. \A i \in DOMAIN rows' : Result(i)'
  BY <1>3, <1>6, <1>7
<1> QED
  BY <1>8 DEF ResultInv

LEMMA AlwaysResult == Spec => []ResultInv
<1>1. Init => ResultInv
  BY EmptySeq DEF Init, ResultInv
<1>2. Typed /\ ResultInv /\ [Next]_vars => ResultInv'
  <2> SUFFICES ASSUME Typed, ResultInv, [Next]_vars PROVE ResultInv'
    OBVIOUS
  <2>1. CASE rows' = rows /\ handled' = handled
    BY <2>1 DEF ResultInv, Result
  <2>2. ASSUME NEW c \in Commands, Insert(c) PROVE ResultInv'
    BY <2>2, NewResults
  <2>3. ASSUME NEW i \in DOMAIN rows, Age(i) PROVE ResultInv'
    BY <2>1, <2>3 DEF Age
  <2>4. ASSUME NEW h \in Handlers, Handle(h) PROVE ResultInv'
    BY <2>1, <2>4, FindByIdTyped, FindByPhoneTyped, UpdatedResult, CreatedResult DEF Handle
  <2>5. ASSUME NEW h \in Handlers, NEW e \in Events, Deliver(h, e) PROVE ResultInv'
    BY <2>1, <2>5 DEF Deliver
  <2> QED
    BY <2>1, <2>2, <2>3, <2>4, <2>5 DEF Next, vars
<1> QED
  BY <1>1, <1>2, AlwaysTyped, PTL DEF Spec

\* A row holds the result with the highest counter of all that were matched
\* with it, whatever the order in which they came and were written.
THEOREM LatestResultWins == Spec => []LatestWins
<1>1. Typed /\ ResultInv => LatestWins
  <2> SUFFICES ASSUME Typed, ResultInv, NEW i \in DOMAIN rows, MatchedWith(i) # {}
               PROVE  /\ rows[i].by \in MatchedWith(i)
                      /\ \A e \in MatchedWith(i) : SeqOf[e] <= SeqOf[rows[i].by]
    BY DEF LatestWins
  <2>1. MatchedWith(i) = {e \in Events : <<e, i>> \in handled}
    BY MatchedFacts
  <2>2. Result(i)
    BY DEF ResultInv
  <2> QED
    BY <2>1, <2>2 DEF Result
<1> QED
  BY <1>1, AlwaysResult, AlwaysTyped, PTL

-----------------------------------------------------------------------------
(* One row for a call that is named.  Its row is there before any          *)
(* notification, and the search by id finds it every time: the handler of  *)
(* such a notification never comes to search by the broker or to create.   *)

Carries(i) == rows[i].id.call = rows[i].of
KeyInv == \A i \in DOMAIN rows : Carries(i)

HasRow(c) ==
  IF c \in pending
  THEN \A i \in DOMAIN rows : rows[i].of # c
  ELSE \E i \in DOMAIN rows : rows[i].id = [kind |-> "command", call |-> c]
RowInv == \A c \in Orderly : HasRow(c)

OnItsWay(h) ==
  pc[h] # "idle" /\ CallOf[event[h]] \in Orderly =>
     /\ CallOf[event[h]] \notin pending
     /\ pc[h] \in {"byId", "update"}
     /\ pc[h] = "update" => rows[found[h]].of = CallOf[event[h]]
WorkInv == \A h \in Handlers : OnItsWay(h)

\* What was handled about such a call was matched with its row.
MatchInv ==
  \A x \in handled : CallOf[x[1]] \in Orderly => rows[x[2]].of = CallOf[x[1]]

Sorted == KeyInv /\ RowInv /\ WorkInv /\ OneRowPerCall /\ MatchInv

LEMMA OrderlyFacts ==
  /\ Orderly \subseteq Commands \ (Early \cup Lossy)
  /\ \A e \in Events : CallOf[e] \in Orderly => e \in Named
BY DEF Orderly

\* What a step keeps if it adds no row.
LEMMA SameRows ==
  ASSUME Typed, Sorted, RowsGrow, DOMAIN rows' = DOMAIN rows, pending' = pending
  PROVE  KeyInv' /\ RowInv' /\ OneRowPerCall'
<1>1. KeyInv'
  BY DEF Sorted, KeyInv, Carries, RowsGrow
<1>2. RowInv'
  BY DEF Sorted, RowInv, HasRow, RowsGrow
<1>3. OneRowPerCall'
  BY DEF Sorted, OneRowPerCall, RowsGrow
<1> QED
  BY <1>1, <1>2, <1>3

\* What a handler knows outlasts the steps of the others.
LEMMA OthersWork ==
  ASSUME Typed, Sorted, RowsGrow, pending' \subseteq pending, NEW h \in Handlers,
         pc'[h] = pc[h], event'[h] = event[h], found'[h] = found[h]
  PROVE  OnItsWay(h)'
BY DEF Sorted, WorkInv, OnItsWay, RowsGrow, Typed, HandlerInv

\* A matched result stays with the row it was matched with.
LEMMA KeptResults ==
  ASSUME Typed, Sorted, RowsGrow, handled' = handled
  PROVE  MatchInv'
BY DEF Sorted, MatchInv, RowsGrow, Typed, Tables

LEMMA InsertSorted ==
  ASSUME Typed, Sorted, NEW c \in Commands, Insert(c)
  PROVE  Sorted'
<1> DEFINE r == Row([kind |-> "command", call |-> c], 0, NoEvent, c)
<1>1. /\ c \in pending /\ pending' = pending \ {c}
      /\ \/ rows' = Append(rows, r)
         \/ c \in Lossy /\ rows' = rows
      /\ pc' = pc /\ event' = event /\ found' = found /\ handled' = handled
  BY DEF Insert, local
<1>2. RowsGrow
  BY InsertTyped
<1>3. WorkInv' /\ MatchInv'
  BY <1>1, <1>2, OthersWork, KeptResults DEF WorkInv
<1>4. KeyInv' /\ RowInv' /\ OneRowPerCall'
  <2>1. CASE rows' = Append(rows, r)
    <3>1. PICK n : /\ DOMAIN rows' = DOMAIN rows \cup {n} /\ n \notin DOMAIN rows
                   /\ \A i \in DOMAIN rows : rows'[i] = rows[i]
                   /\ rows'[n] = r
      BY <2>1, RecordFacts, AppendEffect DEF Typed
    <3>2. rows'[n].id = [kind |-> "command", call |-> c] /\ rows'[n].of = c
      BY <3>1 DEF Row
    <3> HIDE DEF r
    <3>3. KeyInv'
      BY <3>1, <3>2 DEF Sorted, KeyInv, Carries
    <3>4. RowInv'
      <4> SUFFICES ASSUME NEW d \in Orderly PROVE HasRow(d)'
        BY DEF RowInv
      <4>1. HasRow(d)
        BY DEF Sorted, RowInv
      <4>2. CASE d = c
        BY <1>1, <3>1, <3>2, <4>2 DEF HasRow
      <4>3. CASE d # c
        BY <1>1, <3>1, <3>2, <4>1, <4>3 DEF HasRow
      <4> QED
        BY <4>2, <4>3
    <3>5. OneRowPerCall'
      <4>1. c \in Orderly => \A i \in DOMAIN rows : rows[i].of # c
        BY <1>1 DEF Sorted, RowInv, HasRow
      <4> QED
        BY <3>1, <3>2, <4>1 DEF Sorted, OneRowPerCall
    <3> QED
      BY <3>3, <3>4, <3>5
  <2>2. CASE c \in Lossy /\ rows' = rows
    <3>1. c \notin Orderly
      BY <2>2, OrderlyFacts
    <3> QED
      BY <1>1, <2>2, <3>1 DEF Sorted, KeyInv, Carries, RowInv, HasRow, OneRowPerCall
  <2> QED
    BY <1>1, <2>1, <2>2
<1> QED
  BY <1>3, <1>4 DEF Sorted

LEMMA DeliverSorted ==
  ASSUME Typed, Sorted, NEW h \in Handlers, NEW e \in Events, Deliver(h, e)
  PROVE  Sorted'
<1>1. /\ rows' = rows /\ pending' = pending /\ handled' = handled
      /\ CallOf[e] \notin pending \ Early
      /\ \A g \in Handlers \ {h} : pc'[g] = pc[g] /\ event'[g] = event[g] /\ found'[g] = found[g]
      /\ pc'[h] = "byId" /\ event'[h] = e
  BY DeliverTyped DEF Deliver
<1>2. RowsGrow
  BY <1>1 DEF RowsGrow, Typed, Tables
<1>3. OnItsWay(h)'
  BY <1>1, OrderlyFacts DEF OnItsWay
<1>4. WorkInv'
  BY <1>1, <1>2, <1>3, OthersWork DEF WorkInv
<1> QED
  BY <1>1, <1>2, <1>4, SameRows, KeptResults DEF Sorted

LEMMA FindByIdSorted ==
  ASSUME Typed, Sorted, NEW h \in Handlers, FindById(h)
  PROVE  Sorted'
<1>1. /\ rows' = rows /\ pending' = pending /\ handled' = handled /\ event'[h] = event[h]
      /\ \A g \in Handlers \ {h} : pc'[g] = pc[g] /\ event'[g] = event[g] /\ found'[g] = found[g]
      /\ \/ pc'[h] = "byPhone" /\ \A i \in DOMAIN rows : ~RowsWith(i, event[h])
         \/ /\ pc'[h] = "update" /\ found'[h] \in DOMAIN rows
            /\ RowsWith(found'[h], event[h])
  BY FindByIdTyped
<1>2. RowsGrow
  BY <1>1 DEF RowsGrow, Typed, Tables
<1>3. OnItsWay(h)'
  <2> SUFFICES ASSUME CallOf[event[h]] \in Orderly
               PROVE  /\ CallOf[event[h]] \notin pending
                      /\ pc'[h] = "update"
                      /\ rows[found'[h]].of = CallOf[event[h]]
    BY <1>1 DEF OnItsWay
  <2>1. pc[h] = "byId" /\ event[h] \in Events
    BY DEF FindById, Typed, HandlerInv
  <2>2. CallOf[event[h]] \notin pending
    BY <2>1 DEF Sorted, WorkInv, OnItsWay
  <2>3. IdsOf(event[h]) = [kind : {"command", "call"}, call : {CallOf[event[h]]}]
    BY <2>1, OrderlyFacts DEF IdsOf
  <2>4. PICK i \in DOMAIN rows : rows[i].id = [kind |-> "command", call |-> CallOf[event[h]]]
    BY <2>2 DEF Sorted, RowInv, HasRow
  <2>5. RowsWith(i, event[h])
    BY <2>3, <2>4 DEF RowsWith
  <2>6. pc'[h] = "update" /\ found'[h] \in DOMAIN rows /\ RowsWith(found'[h], event[h])
    BY <1>1, <2>5
  <2>7. rows[found'[h]].id.call = CallOf[event[h]]
    BY <2>3, <2>6 DEF RowsWith
  <2> QED
    BY <2>2, <2>6, <2>7 DEF Sorted, KeyInv, Carries
<1>4. WorkInv'
  BY <1>1, <1>2, <1>3, OthersWork DEF WorkInv
<1> QED
  BY <1>1, <1>2, <1>4, SameRows, KeptResults DEF Sorted

LEMMA FindByPhoneSorted ==
  ASSUME Typed, Sorted, NEW h \in Handlers, FindByPhone(h)
  PROVE  Sorted'
<1>1. /\ rows' = rows /\ pending' = pending /\ handled' = handled /\ event'[h] = event[h]
      /\ \A g \in Handlers \ {h} : pc'[g] = pc[g] /\ event'[g] = event[g] /\ found'[g] = found[g]
  BY FindByPhoneTyped
<1>2. RowsGrow
  BY <1>1 DEF RowsGrow, Typed, Tables
<1>3. CallOf[event[h]] \notin Orderly
  BY DEF FindByPhone, Sorted, WorkInv, OnItsWay
<1>4. OnItsWay(h)'
  BY <1>1, <1>3 DEF OnItsWay
<1>5. WorkInv'
  BY <1>1, <1>2, <1>4, OthersWork DEF WorkInv
<1> QED
  BY <1>1, <1>2, <1>5, SameRows, KeptResults DEF Sorted

LEMMA UpdateSorted ==
  ASSUME Typed, Sorted, NEW h \in Handlers, Update(h)
  PROVE  Sorted'
<1>1. /\ RowsGrow /\ DOMAIN rows' = DOMAIN rows /\ pc'[h] = "idle" /\ pending' = pending
      /\ \A g \in Handlers \ {h} : pc'[g] = pc[g] /\ event'[g] = event[g] /\ found'[g] = found[g]
  BY UpdateTyped DEF Update
<1>2. WorkInv'
  BY <1>1, OthersWork DEF WorkInv, OnItsWay
<1>3. MatchInv'
  <2>1. pc[h] = "update" /\ handled' = handled \cup {<<event[h], found[h]>>}
    BY DEF Update, Done
  <2>2. found[h] \in DOMAIN rows
    BY <2>1 DEF Typed, HandlerInv
  <2>3. CallOf[event[h]] \in Orderly => rows'[found[h]].of = CallOf[event[h]]
    BY <1>1, <2>1, <2>2 DEF Sorted, WorkInv, OnItsWay, RowsGrow
  <2>4. \A x \in handled : CallOf[x[1]] \in Orderly => rows'[x[2]].of = CallOf[x[1]]
    BY <1>1 DEF Sorted, MatchInv, RowsGrow, Typed, Tables
  <2> QED
    BY <2>1, <2>3, <2>4 DEF MatchInv
<1> QED
  BY <1>1, <1>2, <1>3, SameRows DEF Sorted

\* The row of a call made elsewhere is no row of an orderly command.
LEMMA CreateSorted ==
  ASSUME Typed, Sorted, NEW h \in Handlers, Create(h)
  PROVE  Sorted'
<1>1. /\ RowsGrow /\ pc'[h] = "idle" /\ pending' = pending
      /\ \A g \in Handlers \ {h} : pc'[g] = pc[g] /\ event'[g] = event[g] /\ found'[g] = found[g]
  BY CreateTyped DEF Create
<1>2. PICK e \in Events : e = event[h] /\ pc[h] = "create"
  BY DEF Create, Typed, HandlerInv
<1>3. CallOf[e] \notin Orderly
  BY <1>2 DEF Sorted, WorkInv, OnItsWay
<1> DEFINE r == Row(CallId(e), SeqOf[e], e, CallOf[e])
<1>4. r \in Record /\ rows' = Append(rows, r) /\ r.id.call = CallOf[e] /\ r.of = CallOf[e]
  BY <1>2, RecordFacts DEF Create, Row, CallId
<1> HIDE DEF r
<1>5. PICK n : /\ n = Len(rows) + 1
               /\ DOMAIN rows' = DOMAIN rows \cup {n} /\ n \notin DOMAIN rows
               /\ \A i \in DOMAIN rows : rows'[i] = rows[i]
               /\ rows'[n] = r
  BY <1>4, AppendEffect DEF Typed
<1>6. WorkInv'
  BY <1>1, OthersWork DEF WorkInv, OnItsWay
<1>7. KeyInv'
  BY <1>4, <1>5 DEF Sorted, KeyInv, Carries
<1>8. RowInv'
  <2> SUFFICES ASSUME NEW c \in Orderly PROVE HasRow(c)'
    BY DEF RowInv
  <2>1. HasRow(c) /\ rows'[n].of # c
    BY <1>3, <1>4, <1>5 DEF Sorted, RowInv
  <2> QED
    BY <1>1, <1>5, <2>1 DEF HasRow
<1>9. OneRowPerCall'
  BY <1>3, <1>4, <1>5 DEF Sorted, OneRowPerCall
<1>10. MatchInv'
  <2>1. handled' = handled \cup {<<e, n>>}
    BY <1>2, <1>5 DEF Create, Done
  <2>2. \A x \in handled : CallOf[x[1]] \in Orderly => rows'[x[2]].of = CallOf[x[1]]
    BY <1>1 DEF Sorted, MatchInv, RowsGrow, Typed, Tables
  <2> QED
    BY <1>3, <2>1, <2>2 DEF MatchInv
<1> QED
  BY <1>6, <1>7, <1>8, <1>9, <1>10 DEF Sorted

LEMMA AlwaysSorted == Spec => []Sorted
<1>1. Init => Sorted
  BY EmptySeq, OrderlyFacts DEF Init, Sorted, KeyInv, RowInv, HasRow, WorkInv, OnItsWay, OneRowPerCall,
    MatchInv
<1>2. Typed /\ Sorted /\ [Next]_vars => Sorted'
  <2> SUFFICES ASSUME Typed, Sorted, [Next]_vars PROVE Sorted'
    OBVIOUS
  <2>1. CASE UNCHANGED <<rows, pending, pc, event, found, handled>>
    BY <2>1 DEF Sorted, KeyInv, Carries, RowInv, HasRow, WorkInv, OnItsWay, OneRowPerCall, MatchInv
  <2>2. ASSUME NEW c \in Commands, Insert(c) PROVE Sorted'
    BY <2>2, InsertSorted
  <2>3. ASSUME NEW i \in DOMAIN rows, Age(i) PROVE Sorted'
    BY <2>1, <2>3 DEF Age, local
  <2>4. ASSUME NEW h \in Handlers, Handle(h) PROVE Sorted'
    BY <2>4, FindByIdSorted, FindByPhoneSorted, UpdateSorted, CreateSorted DEF Handle
  <2>5. ASSUME NEW h \in Handlers, NEW e \in Events, Deliver(h, e) PROVE Sorted'
    BY <2>5, DeliverSorted
  <2> QED
    BY <2>1, <2>2, <2>3, <2>4, <2>5 DEF Next, vars, local
<1> QED
  BY <1>1, <1>2, AlwaysTyped, PTL DEF Spec

\* A call whose row is there first and whose notifications name it has one row.
THEOREM CallsAreSingle == Spec => []OneRowPerCall
<1>1. Sorted => OneRowPerCall
  BY DEF Sorted
<1> QED
  BY <1>1, AlwaysSorted, PTL

\* What is handled about such a call is matched with that row, which then shows
\* no older result, and never that of another such call.
THEOREM ResultsAreKept == Spec => []ResultKept
<1>1. Typed /\ ResultInv /\ Sorted => ResultKept
  <2> SUFFICES ASSUME Typed, ResultInv, Sorted, NEW x \in handled, CallOf[x[1]] \in Orderly
               PROVE  LET r == rows[x[2]] IN
                      /\ r.of = CallOf[x[1]]
                      /\ r.by # NoEvent /\ SeqOf[x[1]] <= SeqOf[r.by]
                      /\ CallOf[r.by] \in Orderly => CallOf[r.by] = r.of
    BY DEF ResultKept
  <2>1. PICK e \in Events, i \in DOMAIN rows : x = <<e, i>>
    BY DEF Typed, Tables
  <2>2. x[1] = e /\ x[2] = i
    BY <2>1
  <2>3. rows[i].of = CallOf[e]
    BY <2>2 DEF Sorted, MatchInv
  <2>4. /\ rows[i].by \in Events /\ <<rows[i].by, i>> \in handled
        /\ SeqOf[e] <= SeqOf[rows[i].by]
    BY <2>1 DEF ResultInv, Result
  <2>5. CallOf[rows[i].by] \in Orderly => rows[i].of = CallOf[rows[i].by]
    <3>1. <<rows[i].by, i>>[1] = rows[i].by /\ <<rows[i].by, i>>[2] = i
      OBVIOUS
    <3> QED
      BY <2>4, <3>1 DEF Sorted, MatchInv
  <2> QED
    BY <2>2, <2>3, <2>4, <2>5, ConstantsAssumption
<1> QED
  BY <1>1, AlwaysTyped, AlwaysResult, AlwaysSorted, PTL

=============================================================================
