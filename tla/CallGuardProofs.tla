--------------------------- MODULE CallGuardProofs ---------------------------
(***************************************************************************)
(* Proofs about CallGuard, for any number of requests, UUIDs and targets.  *)
(***************************************************************************)
EXTENDS CallGuard, TLAPS

\* No key expires under the request that owns it: a key lives thirty times as
\* long as a request to Mango may take.
KeysOutlive == Overrun = FALSE

\* TypeOK, with what a stage tells: only a request with a UUID handles its key,
\* and what Mango did and what was committed is on record from then on.
Typed ==
  /\ TypeOK
  /\ \A r \in Requests :
       /\ pc[r] \in {"get", "set", "reget", "save", "drop"} => Keyed(r)
       /\ pc[r] = "cool" => ~Keyed(r)
       /\ pc[r] \in {"row", "save"} => r \in rang
       /\ pc[r] = "save" => r \in journal

\* A record that is complete names a call that was journalled, by a request
\* with the UUID of its key and to the target it names.
RecordInv ==
  \A u \in Uuids : key[u].state = "completed" =>
    /\ key[u].call \in journal
    /\ Uuid[key[u].call] = u
    /\ Target[key[u].call] = key[u].target

\* A key is not free while a request owns it.
OwnerInv == \A r \in Requests : Owns(r) => key[Uuid[r]] # Free

\* While the ring of a journalled call is remembered for a UUID, its key is not
\* free, and the only request that may own it is the one that saves its result.
RingInv ==
  /\ \A r \in Requests : r \in journal => pc[r] \in {"save", "done"}
  /\ \A u \in Uuids : \A r \in life[u] : Uuid[r] = u
  /\ \A u \in Uuids : life[u] \cap journal # {} =>
       /\ key[u] # Free
       /\ \A r \in Requests : Owns(r) /\ Uuid[r] = u => pc[r] = "save"

LEMMA TypedInit == Init => Typed
<1> SUFFICES ASSUME Init PROVE Typed
  OBVIOUS
<1>1. TypeOK
  BY ConstantsAssumption DEF Init, TypeOK, Records, Free, Stages, Answers
<1>2. \A r \in Requests : pc[r] = IF Keyed(r) THEN "get" ELSE "cool"
  BY DEF Init
<1> QED
  BY <1>1, <1>2 DEF Typed

\* What a replay answers is one of the requests.
LEMMA ReadCachedTyped ==
  ASSUME Typed, NEW r \in Requests, Keyed(r), ReadCached(r)
  PROVE  \E a \in Answers, c \in Requests \cup {NoCall} : Reply(r, a, c)
<1>1. key[Uuid[r]] \in Records
  BY ConstantsAssumption DEF Typed, TypeOK, Keyed
<1>2. CASE key[Uuid[r]].target = Target[r] /\ key[Uuid[r]].state = "completed"
  <2>1. key[Uuid[r]].call \in Requests
    BY <1>1, <1>2 DEF Records, Free
  <2> QED
    BY <1>2, <2>1 DEF ReadCached, Answers
<1>3. CASE ~(key[Uuid[r]].target = Target[r] /\ key[Uuid[r]].state = "completed")
  BY <1>3 DEF ReadCached, Answers
<1> QED
  BY <1>2, <1>3

\* Every step keeps the types.
LEMMA TypedStep == Typed /\ [Next]_vars => Typed'
<1> SUFFICES ASSUME Typed, [Next]_vars PROVE Typed'
  OBVIOUS
<1> USE ConstantsAssumption DEF Typed, TypeOK, Stages, Keyed, redis, world, Goto, Reply,
        Fail, Unavailable
<1>1. ASSUME NEW r \in Requests, Work(r) PROVE Typed'
  <2>1. CASE Get(r)
    <3>1. CASE ReadCached(r)
      BY <2>1, <3>1, ReadCachedTyped DEF Get
    <3>2. CASE ~ReadCached(r)
      BY <2>1, <3>2 DEF Get, Answers
    <3> QED
      BY <3>1, <3>2
  <2>2. CASE Acquire(r)
    <3>1. [state |-> "processing", target |-> Target[r]] \in Records
      BY DEF Records
    <3> QED
      BY <2>2, <3>1 DEF Acquire, Answers
  <2>3. CASE Reget(r)
    <3>1. CASE ReadCached(r)
      BY <2>3, <3>1, ReadCachedTyped DEF Reget
    <3>2. CASE ~ReadCached(r)
      BY <2>3, <3>2 DEF Reget, Answers
    <3> QED
      BY <3>1, <3>2
  <2>4. CASE Cool(r)
    <3>1. cooldown' \in BOOLEAN
      BY <2>4, Zenon DEF Cool
    <3>2. CASE Goto(r, "budget")
      BY <2>4, <3>1, <3>2 DEF Cool
    <3>3. CASE Unavailable(r) \/ Reply(r, "limit", NoCall)
      BY <2>4, <3>1, <3>3 DEF Cool, Answers
    <3> QED
      BY <2>4, <3>2, <3>3 DEF Cool
  <2>5. CASE Spend(r)
    BY <2>5 DEF Spend, Answers
  <2>6. CASE Ring(r)
    BY <2>6 DEF Ring, Answers
  <2>7. CASE Row(r)
    BY <2>7 DEF Row, Answers
  <2>8. CASE Save(r)
    <3>1. Completed(r) \in Records
      BY DEF Completed, Records
    <3> QED
      BY <2>8, <3>1 DEF Save, Answers
  <2>9. CASE Drop(r)
    BY <2>9 DEF Drop, Records
  <2> QED
    BY <1>1, <2>1, <2>2, <2>3, <2>4, <2>5, <2>6, <2>7, <2>8, <2>9 DEF Work
<1>2. ASSUME NEW r \in Requests, Crash(r) PROVE Typed'
  BY <1>2 DEF Crash, Answers
<1>3. ASSUME NEW u \in Uuids, Expire(u) PROVE Typed'
  BY <1>3 DEF Expire, Records
<1>4. CASE CooldownEnds
  BY <1>4 DEF CooldownEnds
<1>5. CASE WindowEnds
  BY <1>5 DEF WindowEnds
<1>6. CASE UNCHANGED vars
  BY <1>6 DEF vars
<1> QED
  BY <1>1, <1>2, <1>3, <1>4, <1>5, <1>6 DEF Next

\* The type invariant of the guard.
THEOREM TypeCorrect == Spec => []TypeOK
<1>1. Spec => []Typed
  BY TypedInit, TypedStep, PTL DEF Spec
<1>2. Typed => TypeOK
  BY DEF Typed
<1> QED
  BY <1>1, <1>2, PTL

LEMMA AlwaysTyped == Spec => []Typed
BY TypedInit, TypedStep, PTL DEF Spec

-----------------------------------------------------------------------------
\* Every step keeps what a complete record and an answer say.
LEMMA RecordStep ==
  ASSUME Typed, RecordInv, CacheIsTruthful, [Next]_vars
  PROVE  RecordInv' /\ CacheIsTruthful'
<1> DEFINE Kept == RecordInv' /\ CacheIsTruthful'
<1> USE ConstantsAssumption DEF redis, world, Goto, Reply, Fail, Unavailable, Keyed, Typed, TypeOK,
        RecordInv, CacheIsTruthful, Free
<1>1. ASSUME NEW r \in Requests, Work(r) PROVE Kept
  <2>1. CASE Get(r)
    BY <2>1 DEF Get, ReadCached
  <2>2. CASE Acquire(r)
    BY <2>2 DEF Acquire
  <2>3. CASE Reget(r)
    BY <2>3 DEF Reget, ReadCached
  <2>4. CASE Cool(r)
    <3>1. CASE Goto(r, "budget")
      BY <2>4, <3>1 DEF Cool
    <3>2. CASE Unavailable(r) \/ Reply(r, "limit", NoCall)
      BY <2>4, <3>2 DEF Cool
    <3> QED
      BY <2>4, <3>1, <3>2 DEF Cool
  <2>5. CASE Spend(r)
    BY <2>5 DEF Spend
  <2>6. CASE Ring(r)
    BY <2>6 DEF Ring
  <2>7. CASE Row(r)
    BY <2>7 DEF Row
  <2>8. CASE Save(r)
    BY <2>8 DEF Save, Completed
  <2>9. CASE Drop(r)
    BY <2>9 DEF Drop
  <2> QED
    BY <1>1, <2>1, <2>2, <2>3, <2>4, <2>5, <2>6, <2>7, <2>8, <2>9 DEF Work
<1>2. ASSUME NEW r \in Requests, Crash(r) PROVE Kept
  BY <1>2 DEF Crash
<1>3. ASSUME NEW u \in Uuids, Expire(u) PROVE Kept
  BY <1>3 DEF Expire
<1>4. CASE CooldownEnds
  BY <1>4 DEF CooldownEnds
<1>5. CASE WindowEnds
  BY <1>5 DEF WindowEnds
<1>6. CASE UNCHANGED vars
  BY <1>6 DEF vars
<1> QED
  BY <1>1, <1>2, <1>3, <1>4, <1>5, <1>6 DEF Next

\* A repetition is answered with a call that was made and journalled, by a
\* request with its UUID to its target.
THEOREM RepliesAreTrue == Spec => []CacheIsTruthful
<1>1. Init => RecordInv /\ CacheIsTruthful
  BY DEF Init, RecordInv, CacheIsTruthful, Free
<1>2. Spec => [](RecordInv /\ CacheIsTruthful)
  BY AlwaysTyped, RecordStep, <1>1, PTL DEF Spec
<1> QED
  BY <1>2, PTL

-----------------------------------------------------------------------------
\* Every step keeps one owner of a key that is not free.
LEMMA OwnerStep ==
  ASSUME KeysOutlive, Typed, OwnerInv, OneCallerPerKey, [Next]_vars
  PROVE  OwnerInv' /\ OneCallerPerKey'
<1> DEFINE Kept == OwnerInv' /\ OneCallerPerKey'
<1> USE ConstantsAssumption DEF redis, world, Goto, Reply, Fail, Unavailable, Keyed, KeysOutlive,
        Typed, TypeOK, OwnerInv, OneCallerPerKey, Owns, Free
<1>1. ASSUME NEW r \in Requests, Work(r) PROVE Kept
  <2>1. CASE Get(r)
    BY <2>1 DEF Get, ReadCached
  <2>2. CASE Acquire(r)
    BY <2>2 DEF Acquire
  <2>3. CASE Reget(r)
    BY <2>3 DEF Reget, ReadCached
  <2>4. CASE Cool(r)
    <3>1. CASE Goto(r, "budget")
      BY <2>4, <3>1 DEF Cool
    <3>2. CASE Unavailable(r) \/ Reply(r, "limit", NoCall)
      BY <2>4, <3>2 DEF Cool
    <3> QED
      BY <2>4, <3>1, <3>2 DEF Cool
  <2>5. CASE Spend(r)
    BY <2>5 DEF Spend
  <2>6. CASE Ring(r)
    BY <2>6 DEF Ring
  <2>7. CASE Row(r)
    BY <2>7 DEF Row
  <2>8. CASE Save(r)
    BY <2>8 DEF Save, Completed
  <2>9. CASE Drop(r)
    BY <2>9 DEF Drop
  <2> QED
    BY <1>1, <2>1, <2>2, <2>3, <2>4, <2>5, <2>6, <2>7, <2>8, <2>9 DEF Work
<1>2. ASSUME NEW r \in Requests, Crash(r) PROVE Kept
  BY <1>2 DEF Crash
<1>3. ASSUME NEW u \in Uuids, Expire(u) PROVE Kept
  BY <1>3 DEF Expire
<1>4. CASE CooldownEnds
  BY <1>4 DEF CooldownEnds
<1>5. CASE WindowEnds
  BY <1>5 DEF WindowEnds
<1>6. CASE UNCHANGED vars
  BY <1>6 DEF vars
<1> QED
  BY <1>1, <1>2, <1>3, <1>4, <1>5, <1>6 DEF Next

\* If no key expires under a request at work, two requests with one UUID are never
\* between SET NX and its end together.
THEOREM OneOwner ==
  ASSUME KeysOutlive
  PROVE  Spec => []OneCallerPerKey
<1>1. Init => OwnerInv /\ OneCallerPerKey
  BY DEF Init, OwnerInv, OneCallerPerKey, Owns
<1>2. Spec => [](OwnerInv /\ OneCallerPerKey)
  BY AlwaysTyped, OwnerStep, <1>1, PTL DEF Spec
<1> QED
  BY <1>2, PTL

-----------------------------------------------------------------------------
\* Every step keeps the key of a journalled call.
LEMMA RingStep ==
  ASSUME KeysOutlive, Typed, OwnerInv, OneCallerPerKey, RingInv, [Next]_vars
  PROVE  RingInv'
<1> DEFINE Kept == RingInv'
<1> USE ConstantsAssumption DEF redis, world, Goto, Reply, Fail, Unavailable, Keyed, KeysOutlive,
        Typed, TypeOK, OwnerInv, OneCallerPerKey, RingInv, Owns, Free
<1>1. ASSUME NEW r \in Requests, Work(r) PROVE Kept
  <2>1. CASE Get(r)
    BY <2>1 DEF Get, ReadCached
  <2>2. CASE Acquire(r)
    BY <2>2 DEF Acquire
  <2>3. CASE Reget(r)
    BY <2>3 DEF Reget, ReadCached
  <2>4. CASE Cool(r)
    <3>1. CASE Goto(r, "budget")
      BY <2>4, <3>1 DEF Cool
    <3>2. CASE Unavailable(r) \/ Reply(r, "limit", NoCall)
      BY <2>4, <3>2 DEF Cool
    <3> QED
      BY <2>4, <3>1, <3>2 DEF Cool
  <2>5. CASE Spend(r)
    BY <2>5 DEF Spend
  <2>6. CASE Ring(r)
    BY <2>6 DEF Ring
  <2>7. CASE Row(r)
    BY <2>7 DEF Row
  <2>8. CASE Save(r)
    BY <2>8 DEF Save, Completed
  <2>9. CASE Drop(r)
    BY <2>9 DEF Drop
  <2> QED
    BY <1>1, <2>1, <2>2, <2>3, <2>4, <2>5, <2>6, <2>7, <2>8, <2>9 DEF Work
<1>2. ASSUME NEW r \in Requests, Crash(r) PROVE Kept
  BY <1>2 DEF Crash
<1>3. ASSUME NEW u \in Uuids, Expire(u) PROVE Kept
  BY <1>3 DEF Expire
<1>4. CASE CooldownEnds
  BY <1>4 DEF CooldownEnds
<1>5. CASE WindowEnds
  BY <1>5 DEF WindowEnds
<1>6. CASE UNCHANGED vars
  BY <1>6 DEF vars
<1> QED
  BY <1>1, <1>2, <1>3, <1>4, <1>5, <1>6 DEF Next

\* Once a call is in the journal, no repetition with its UUID rings while the
\* key lives.
THEOREM NoSecondRing ==
  ASSUME KeysOutlive
  PROVE  Spec => NoRingAfterJournal
<1> DEFINE A == \A u \in Uuids :
                   life[u] \cap journal # {} => life'[u] \subseteq life[u]
<1>1. Init => OwnerInv /\ OneCallerPerKey /\ RingInv
  BY DEF Init, OwnerInv, OneCallerPerKey, RingInv, Owns
<1>2. Spec => [](Typed /\ OwnerInv /\ OneCallerPerKey /\ RingInv)
  BY AlwaysTyped, OwnerStep, RingStep, <1>1, PTL DEF Spec
<1>3. Typed /\ RingInv /\ [Next]_vars => A
  <2> SUFFICES ASSUME Typed, RingInv, [Next]_vars PROVE A
    OBVIOUS
  <2> USE DEF Typed, TypeOK, RingInv, redis, world
  <2>1. ASSUME NEW r \in Requests, Ring(r) PROVE A
    BY <2>1 DEF Ring, Owns, Keyed
  <2>2. ASSUME NEW u \in Uuids, Expire(u) PROVE A
    BY <2>2 DEF Expire
  <2>3. CASE life' = life
    BY <2>3
  <2>4. ASSUME NEW r \in Requests, Work(r), ~Ring(r) PROVE life' = life
    BY <2>4 DEF Work, Get, Acquire, Reget, Cool, Spend, Row, Save, Drop
  <2>5. ASSUME NEW r \in Requests, Crash(r) PROVE life' = life
    BY <2>5 DEF Crash
  <2>6. CASE CooldownEnds \/ WindowEnds \/ UNCHANGED vars
    BY <2>3, <2>6 DEF CooldownEnds, WindowEnds, vars
  <2> QED
    BY <2>1, <2>2, <2>3, <2>4, <2>5, <2>6 DEF Next
<1>4. Spec => [][A]_vars
  BY <1>2, <1>3, PTL DEF Spec
<1> QED
  BY <1>4 DEF NoRingAfterJournal

=============================================================================
