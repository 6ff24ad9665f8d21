------------------------- MODULE FixationGuardProofs -------------------------
(***************************************************************************)
(* Proofs about FixationGuard, for any number of requests, workers, phones *)
(* and UUIDs and any number of vanished leases.                            *)
(***************************************************************************)
EXTENDS FixationGuard, TLAPS

\* Every entry of Redis is one of the three records its writers build.
LEMMA EntryTypes ==
  ASSUME NEW a \in Actors
  PROVE  /\ Processing(a) \in Entry
         /\ \A r \in Requests : Completed(a, r) \in Entry
         /\ Uncertain(a) \in Entry
  BY GuardAssumption DEF Processing, Completed, Uncertain, Entry

\* What a reader of an entry may rely on.
LEMMA EntryFields ==
  ASSUME NEW e \in Entry
  PROVE  /\ e # None
         /\ e.status = "completed" => e.result \in Requests /\ e.owner = None
         /\ e.owner # None => e.status = "processing"
  BY GuardAssumption DEF Entry

\* Only a request goes through the steps of a request, and only one with a
\* UUID through those of its replay key.
StepsOK ==
  \A a \in Actors :
    /\ pc[a] \in {"readUuid", "claimUuid", "rereadUuid", "cacheUuid", "markUuid"}
         \/ a \in holds => HasUuid(a)
    /\ pc[a] \in {"readPhone", "rereadPhone", "takeOver", "cacheReplay", "giveUp",
                  "cachePhone", "markPhone"} => a \in Requests
    /\ pc[a] = "release" => a \in Workers
    /\ pc[a] = "takeOver" =>
         seen[a] # None /\ seen[a].status = "completed" /\ seen[a].fp # Fp[a]
    /\ pc[a] = "cacheReplay" => a \in holds /\ reply[a] # None

Typed == TypeOK /\ StepsOK

LEMMA TypedInit == Init => Typed
  BY GuardAssumption
  DEF Init, Typed, TypeOK, StepsOK, Claiming, Acting, Closing, Final, Actors, HasUuid

\* Whatever a request decides about the entry under its phone, it stays typed.
LEMMA ResolveTyped ==
  ASSUME Typed, NEW r \in Requests, NEW entry \in Entry,
         pc[r] \in {"readPhone", "rereadPhone"}, Resolve(r, entry),
         UNCHANGED <<redis, holds, lost, uncached, lapses, ran, open>>
  PROVE  Typed'
<1> USE DEF Typed, TypeOK, StepsOK, Goto, Claiming, Acting, Closing, Final
<1>1. r \in Actors /\ entry # None
      /\ (entry.status = "completed" => entry.result \in Requests /\ entry.result # None)
  BY EntryFields, GuardAssumption DEF Actors
<1>2. CASE entry.status = "completed" /\ entry.fp = Fp[r]
  <2>1. reply' \in [Actors -> Requests \cup {None}]
    BY <1>1, <1>2 DEF Resolve
  <2>2. CASE r \in holds
    BY <1>1, <1>2, <2>1, <2>2 DEF Resolve
  <2>3. CASE r \notin holds
    BY <1>1, <1>2, <2>1, <2>3 DEF Resolve
  <2> QED
    BY <2>2, <2>3
<1>3. CASE entry.status = "completed" /\ entry.fp # Fp[r]
  BY <1>1, <1>3 DEF Resolve
<1>4. CASE entry.status # "completed"
  BY <1>1, <1>4 DEF Resolve
<1> QED
  BY <1>2, <1>3, <1>4

LEMMA TypedStep == Typed /\ [Next]_vars => Typed'
<1> SUFFICES ASSUME Typed, [Next]_vars PROVE Typed'
  OBVIOUS
<1> USE GuardAssumption
    DEF Typed, TypeOK, StepsOK, Goto, Put, Claiming, Acting, Closing, Final
<1>1. ASSUME NEW r \in Requests, Serve(r) PROVE Typed'
  <2>a. r \in Actors /\ Phone[r] \in Keys /\ (HasUuid(r) => Uuid[r] \in Keys)
    BY DEF Actors, Keys, HasUuid
  <2>b. /\ Processing(r) \in Entry /\ Uncertain(r) \in Entry
        /\ \A q \in Requests : Completed(r, q) \in Entry
    BY <2>a, EntryTypes
  <2>1. CASE ReadUuid(r)
    BY <2>a, <2>1, EntryFields DEF ReadUuid, Replay
  <2>2. CASE ClaimUuid(r)
    <3>1. CASE redis[Uuid[r]] = None
      BY <2>a, <2>b, <2>2, <3>1 DEF ClaimUuid
    <3>2. CASE ~(redis[Uuid[r]] = None)
      BY <2>a, <2>2, <3>2 DEF ClaimUuid
    <3> QED
      BY <3>1, <3>2
  <2>3. CASE RereadUuid(r)
    BY <2>a, <2>3, EntryFields DEF RereadUuid, Replay
  <2>4. CASE ReadPhone(r)
    <3>1. redis[Phone[r]] # None => redis[Phone[r]] \in Entry
      BY <2>a
    <3>2. CASE redis[Phone[r]] = None
      BY <2>a, <2>4, <3>2 DEF ReadPhone
    <3>3. CASE redis[Phone[r]] # None
      BY <2>a, <2>4, <3>1, <3>3, ResolveTyped DEF ReadPhone
    <3> QED
      BY <3>2, <3>3
  <2>5. CASE ClaimPhone(r)
    <3>1. CASE redis[Phone[r]] = None
      BY <2>a, <2>b, <2>5, <3>1 DEF ClaimPhone, Enter
    <3>2. CASE ~(redis[Phone[r]] = None)
      BY <2>a, <2>5, <3>2 DEF ClaimPhone
    <3> QED
      BY <3>1, <3>2
  <2>6. CASE RereadPhone(r)
    <3>1. redis[Phone[r]] # None => redis[Phone[r]] \in Entry
      BY <2>a
    <3>2. CASE redis[Phone[r]] = None
      BY <2>a, <2>6, <3>2 DEF RereadPhone
    <3>3. CASE redis[Phone[r]] # None
      BY <2>a, <2>6, <3>1, <3>3, ResolveTyped DEF RereadPhone
    <3> QED
      BY <3>2, <3>3
  <2>7. CASE TakeOver(r)
    <3>1. CASE redis[Phone[r]] = seen[r]
      BY <2>a, <2>b, <2>7, <3>1 DEF TakeOver, Enter
    <3>2. CASE ~(redis[Phone[r]] = seen[r])
      BY <2>a, <2>7, <3>2 DEF TakeOver
    <3> QED
      BY <3>1, <3>2
  <2>8. CASE CacheReplay(r)
    BY <2>a, <2>b, <2>8 DEF CacheReplay
  <2>9. CASE GiveUp(r)
    BY <2>a, <2>b, <2>9 DEF GiveUp
  <2>10. CASE ClaimFails(r)
    BY <2>a, <2>b, <2>10 DEF ClaimFails
  <2>11. CASE Return(r)
    BY <2>a, <2>b, <2>11 DEF Return
  <2>12. CASE Throw(r)
    BY <2>a, <2>b, <2>12 DEF Throw
  <2>13. CASE CachePhone(r)
    <3>1. CASE HasUuid(r)
      BY <2>a, <2>b, <2>13, <3>1 DEF CachePhone, AfterPhone, AfterCache
    <3>2. CASE ~(HasUuid(r))
      BY <2>a, <2>b, <2>13, <3>2 DEF CachePhone, AfterPhone, AfterCache
    <3> QED
      BY <3>1, <3>2
  <2>14. CASE CacheUuid(r)
    BY <2>a, <2>b, <2>14 DEF CacheUuid, AfterCache
  <2>15. CASE MarkPhone(r)
    BY <2>a, <2>b, <2>15 DEF MarkPhone, AfterPhone
  <2>16. CASE MarkUuid(r)
    BY <2>a, <2>b, <2>16 DEF MarkUuid
  <2> QED
    BY <1>1, <2>1, <2>2, <2>3, <2>4, <2>5, <2>6, <2>7, <2>8, <2>9, <2>10, <2>11, <2>12, <2>13, <2>14, <2>15, <2>16 DEF Serve, Claim, Close
<1>2. ASSUME NEW w \in Workers, Retry(w) PROVE Typed'
  <2>a. /\ w \in Actors /\ Phone[w] \in Keys /\ w \notin Requests /\ ~HasUuid(w)
        /\ Processing(w) \in Entry
    BY EntryTypes DEF Actors, Keys, HasUuid
  <2> QED
    BY <1>2, <2>a DEF Retry, TryAcquireLease, Finish, Release, Enter
<1>3. ASSUME NEW a \in Actors, Renew(a) \/ Fence(a) \/ Write(a) \/ Crash(a) PROVE Typed'
  <2>1. CASE Renew(a)
    BY <1>3, <2>1 DEF Renew
  <2>2. CASE Fence(a)
    <3>1. CASE \A k \in KeysOf(a) : Owns(k, a)
      BY <1>3, <2>2, <3>1 DEF Fence
    <3>2. CASE ~ \A k \in KeysOf(a) : Owns(k, a)
      BY <1>3, <2>2, <3>2 DEF Fence
    <3> QED
      BY <3>1, <3>2
  <2>3. CASE Write(a) \/ Crash(a)
    BY <1>3, <2>3 DEF Write, Crash
  <2> QED
    BY <1>3, <2>1, <2>2, <2>3
<1>4. ASSUME NEW k \in Keys, Expire(k) \/ Lapse(k) PROVE Typed'
  BY <1>4 DEF Expire, Lapse, Vanish
<1>5. CASE UNCHANGED vars
  BY <1>5 DEF vars
<1> QED
  BY <1>1, <1>2, <1>3, <1>4, <1>5 DEF Next
\* TypeOK of every reachable state.
THEOREM TypeCorrect == Spec => []TypeOK
<1>1. Spec => []Typed
  BY TypedInit, TypedStep, PTL DEF Spec
<1>2. Typed => TypeOK
  BY DEF Typed
<1> QED
  BY <1>1, <1>2, PTL

-----------------------------------------------------------------------------
(* The phone lock. *)

\* The doubt about an action is written in its phone's key, so the next one,
\* which needs the key gone or completed, finds no doubt.
DoubtInv ==
  /\ \A p \in Phones : \A a \in open[p] :
       Phone[a] = p /\ redis[p] \in {Processing(a), Uncertain(a)}
  /\ SingleWriter

\* A free or a settled phone is in no doubt.
LEMMA NoDoubt ==
  ASSUME Typed, DoubtInv, NEW p \in Phones,
         redis[p] = None \/ redis[p].status = "completed"
  PROVE  open[p] = {}
<1> SUFFICES ASSUME NEW a \in open[p] PROVE FALSE
  OBVIOUS
<1>1. a \in Actors
  BY DEF Typed, TypeOK, Keys
<1>2. Processing(a) # None /\ Uncertain(a) # None
  BY <1>1, EntryTypes, EntryFields
<1> QED
  BY <1>2 DEF DoubtInv, Processing, Uncertain

\* An action that begins where there is no doubt leaves exactly one.
LEMMA EnterDoubt ==
  ASSUME Typed, DoubtInv, NEW a \in Actors, open[Phone[a]] = {},
         Put(Phone[a], Processing(a)), Enter(a)
  PROVE  DoubtInv'
BY GuardAssumption
DEF Typed, TypeOK, DoubtInv, SingleWriter, Put, Enter, Processing, Uncertain, Keys

\* A key that appears or vanishes under a phone without doubt changes nothing.
LEMMA PutDoubt ==
  ASSUME Typed, DoubtInv, NEW k \in Keys, NEW entry, Put(k, entry),
         k \in Phones => open'[k] = {},
         \A j \in Keys \ {k} : open'[j] = open[j]
  PROVE  DoubtInv'
BY DEF Typed, TypeOK, DoubtInv, SingleWriter, Put, Keys, Processing, Uncertain

LEMMA DoubtStep == Typed /\ DoubtInv /\ [Next]_vars => DoubtInv'
<1> SUFFICES ASSUME Typed, DoubtInv, [Next]_vars PROVE DoubtInv'
  OBVIOUS
<1> USE GuardAssumption
    DEF Typed, TypeOK, DoubtInv, SingleWriter, Goto, Put, Owns, Processing,
        Uncertain, Completed, Keys
<1>1. ASSUME NEW r \in Requests, Serve(r) PROVE DoubtInv'
  <2>a. /\ r \in Actors /\ Phone[r] \in Phones /\ Phone[r] \in Keys
        /\ (HasUuid(r) => Uuid[r] \in Uuids /\ Uuid[r] \in Keys)
    BY GuardAssumption DEF Actors, Keys, HasUuid
  <2>b. /\ pc[r] \in {"claimUuid", "cacheUuid", "markUuid", "cacheReplay"} \/ r \in holds
             => HasUuid(r)
        /\ pc[r] = "takeOver" => seen[r] # None /\ seen[r].status = "completed"
    BY <2>a DEF StepsOK
  <2>1. CASE \/ ReadUuid(r) \/ RereadUuid(r) \/ ReadPhone(r) \/ RereadPhone(r)
             \/ Return(r) \/ Throw(r)
    BY <2>a, <2>1 DEF ReadUuid, Replay, RereadUuid, ReadPhone, Resolve, RereadPhone, Return, Throw
  <2>2. CASE ClaimUuid(r)
    BY <2>a, <2>b, <2>2 DEF ClaimUuid
  <2>3. CASE ClaimPhone(r)
    <3>1. CASE redis[Phone[r]] = None
      BY <2>a, <2>3, <3>1, NoDoubt, EnterDoubt DEF ClaimPhone
    <3>2. CASE redis[Phone[r]] # None
      BY <2>3, <3>2 DEF ClaimPhone
    <3> QED
      BY <3>1, <3>2
  <2>4. CASE TakeOver(r)
    <3>1. CASE redis[Phone[r]] = seen[r]
      <4>1. redis[Phone[r]].status = "completed"
        BY <2>a, <2>b, <2>4, <3>1 DEF TakeOver
      <4> QED
        BY <2>a, <2>4, <3>1, <4>1, NoDoubt, EnterDoubt DEF TakeOver
    <3>2. CASE redis[Phone[r]] # seen[r]
      BY <2>4, <3>2 DEF TakeOver
    <3> QED
      BY <3>1, <3>2
  <2>5. CASE CacheReplay(r)
    BY <2>a, <2>b, <2>5 DEF CacheReplay
  <2>6. CASE GiveUp(r)
    BY <2>a, <2>b, <2>6 DEF GiveUp
  <2>7. CASE ClaimFails(r)
    <3>1. CASE UNCHANGED redis
      BY <2>7, <3>1 DEF ClaimFails
    <3>2. CASE pc[r] = "claimUuid" /\ Put(Uuid[r], Processing(r))
      BY <2>a, <2>b, <2>7, <3>2 DEF ClaimFails
    <3>3. CASE /\ redis[Phone[r]] = None \/ redis[Phone[r]].status = "completed"
               /\ Put(Phone[r], Processing(r))
      BY <2>a, <2>7, <3>3, NoDoubt, PutDoubt DEF ClaimFails
    <3> QED
      BY <2>a, <2>b, <2>7, <3>1, <3>2, <3>3 DEF ClaimFails
  <2>8. CASE CachePhone(r)
    BY <2>a, <2>8 DEF CachePhone
  <2>9. CASE CacheUuid(r)
    BY <2>a, <2>b, <2>9 DEF CacheUuid
  <2>10. CASE MarkPhone(r)
    BY <2>a, <2>10 DEF MarkPhone
  <2>11. CASE MarkUuid(r)
    BY <2>a, <2>b, <2>11 DEF MarkUuid
  <2> QED
    BY <1>1, <2>1, <2>2, <2>3, <2>4, <2>5, <2>6, <2>7, <2>8, <2>9, <2>10, <2>11
    DEF Serve, Claim, Close
<1>2. ASSUME NEW w \in Workers, Retry(w) PROVE DoubtInv'
  <2>a. /\ w \in Actors /\ Phone[w] \in Phones /\ Phone[w] \in Keys
        /\ w \notin Requests /\ ~HasUuid(w)
    BY GuardAssumption DEF Actors, Keys, HasUuid
  <2>1. CASE TryAcquireLease(w)
    <3>1. CASE UNCHANGED <<redis, open>>
      BY <3>1
    <3>2. CASE redis[Phone[w]] = None /\ Put(Phone[w], Processing(w)) /\ UNCHANGED open
      BY <2>a, <3>2, NoDoubt, PutDoubt
    <3>3. CASE redis[Phone[w]] = None /\ Put(Phone[w], Processing(w)) /\ Enter(w)
      BY <2>a, <3>3, NoDoubt, EnterDoubt
    <3> QED
      BY <2>1, <3>1, <3>2, <3>3 DEF TryAcquireLease
  <2>2. CASE Finish(w)
    BY <2>a, <2>2 DEF Finish
  <2>3. CASE Release(w)
    BY <2>a, <2>3 DEF Release
  <2> QED
    BY <1>2, <2>1, <2>2, <2>3 DEF Retry
<1>3. ASSUME NEW a \in Actors, Renew(a) \/ Fence(a) \/ Write(a) \/ Crash(a) PROVE DoubtInv'
  BY <1>3 DEF Renew, Fence, Write, Crash, Running
<1>4. ASSUME NEW k \in Keys, Expire(k) \/ Lapse(k) PROVE DoubtInv'
  <2>1. Vanish(k)
    BY ONLY <1>4 DEF Expire, Lapse
  <2>2. open' = [open EXCEPT ![k] = {}] /\ open \in [Keys -> SUBSET Actors]
    BY <2>1 DEF Vanish
  <2>3. (k \in Phones => open'[k] = {}) /\ \A j \in Keys \ {k} : open'[j] = open[j]
    BY ONLY <2>2
  <2>4. Put(k, None)
    BY ONLY <2>1 DEF Vanish
  <2> HIDE DEF Typed, TypeOK, DoubtInv, SingleWriter, Goto, Put, Owns, Processing,
               Uncertain, Completed, Keys
  <2> QED
    BY <2>3, <2>4, PutDoubt
<1>5. CASE UNCHANGED vars
  BY <1>5 DEF vars
<1> QED
  BY <1>1, <1>2, <1>3, <1>4, <1>5 DEF Next

THEOREM AlwaysInDoubt == Spec => []DoubtInv
<1>1. Init => DoubtInv
  BY GuardAssumption DEF Init, DoubtInv, SingleWriter, Keys
<1> QED
  BY <1>1, TypedInit, TypedStep, DoubtStep, PTL DEF Spec

\* At most one action per phone is running or in doubt, whoever started it.
THEOREM OneWriterPerPhone == Spec => []SingleWriter
<1>1. DoubtInv => SingleWriter
  BY DEF DoubtInv
<1> QED
  BY <1>1, AlwaysInDoubt, PTL

\* An action without a recorded outcome keeps its phone locked: nobody frees the
\* key or takes it over.
THEOREM UnknownIsLocked == Spec => []InDoubtLocked
<1>1. DoubtInv => InDoubtLocked
  BY DEF DoubtInv, InDoubtLocked
<1> QED
  BY <1>1, AlwaysInDoubt, PTL

-----------------------------------------------------------------------------
(* The replay keys. *)

\* The one action started under a UUID is still named by its key, or the key
\* names nobody; so no other actor owns the key when its action starts.
RunsInv ==
  \A u \in Uuids : \A a \in ran[u] :
    /\ redis[u] # None
    /\ redis[u].owner \in {a, None}
    /\ pc[a] \notin Claiming
    /\ \A b \in ran[u] : a = b

LEMMA EnterRuns ==
  ASSUME Typed, RunsInv, NEW a \in Actors, pc[a] \in Claiming, Enter(a),
         Put(Phone[a], Processing(a))
  PROVE  RunsInv'
<1> USE GuardAssumption DEF Typed, TypeOK, Enter, Put, Goto, Keys
<1> SUFFICES ASSUME NEW u \in Uuids, NEW b \in ran'[u]
             PROVE  /\ redis'[u] # None
                    /\ redis'[u].owner \in {b, None}
                    /\ pc'[b] \notin Claiming
                    /\ \A c \in ran'[u] : b = c
  BY DEF RunsInv
<1>1. redis'[u] = redis[u] /\ u # Phone[a] /\ b \in Actors /\ a # None
  BY DEF Actors
<1>2. pc'[a] \notin Claiming
  BY DEF Claiming
<1>3. CASE Owns(u, a)
  <2>1. ran[u] = {}
    BY <1>1, <1>3 DEF RunsInv, Owns
  <2>2. ran'[u] \subseteq {a}
    BY <2>1
  <2> QED
    BY <1>1, <1>2, <1>3, <2>2 DEF Owns
<1>4. CASE ~Owns(u, a)
  <2>1. ran'[u] = ran[u]
    BY <1>1, <1>4
  <2>2. b # a
    BY <2>1 DEF RunsInv
  <2> QED
    BY <1>1, <2>1, <2>2 DEF RunsInv
<1> QED
  BY <1>3, <1>4

LEMMA RunsStep == Typed /\ RunsInv /\ [Next]_vars => RunsInv'
<1> SUFFICES ASSUME Typed, RunsInv, [Next]_vars PROVE RunsInv'
  OBVIOUS
<1> USE GuardAssumption
    DEF Typed, TypeOK, StepsOK, RunsInv, Goto, Put, Owns, Keys, Claiming
<1>1. ASSUME NEW r \in Requests, Serve(r) PROVE RunsInv'
  <2>a. /\ r \in Actors /\ Phone[r] \in Phones /\ Phone[r] \in Keys /\ r # None
        /\ (HasUuid(r) => Uuid[r] \in Uuids /\ Uuid[r] \in Keys)
    BY GuardAssumption DEF Actors, Keys, HasUuid
  <2>1. CASE ReadUuid(r) \/ RereadUuid(r)
    BY <2>a, <2>1 DEF ReadUuid, RereadUuid, Replay
  <2>2. CASE ReadPhone(r) \/ RereadPhone(r)
    BY <2>a, <2>2 DEF ReadPhone, RereadPhone, Resolve
  <2>3. CASE Return(r) \/ Throw(r)
    BY <2>a, <2>3 DEF Return, Throw, Acting
  <2>4. CASE ClaimUuid(r)
    BY <2>a, <2>4, EntryTypes, EntryFields DEF ClaimUuid, Processing
  <2>5. CASE ClaimPhone(r)
    <3>1. CASE redis[Phone[r]] = None
      <4> HIDE DEF RunsInv, Typed, Put
      <4> QED
        BY <2>a, <2>5, <3>1, EnterRuns DEF ClaimPhone
    <3>2. CASE redis[Phone[r]] # None
      BY <2>a, <2>5, <3>2 DEF ClaimPhone
    <3> QED
      BY <3>1, <3>2
  <2>6. CASE TakeOver(r)
    <3>1. CASE redis[Phone[r]] = seen[r]
      <4> HIDE DEF RunsInv, Typed, Put
      <4> QED
        BY <2>a, <2>6, <3>1, EnterRuns DEF TakeOver
    <3>2. CASE redis[Phone[r]] # seen[r]
      BY <2>a, <2>6, <3>2 DEF TakeOver
    <3> QED
      BY <3>1, <3>2
  <2>7. CASE CacheReplay(r)
    BY <2>a, <2>7, EntryTypes, EntryFields DEF CacheReplay, Completed
  <2>8. CASE GiveUp(r)
    BY <2>a, <2>8 DEF GiveUp
  <2>9. CASE ClaimFails(r)
    BY <2>a, <2>9 DEF ClaimFails
  <2>10. CASE CachePhone(r)
    BY <2>a, <2>10 DEF CachePhone, AfterPhone, AfterCache
  <2>11. CASE CacheUuid(r)
    BY <2>a, <2>11, EntryTypes, EntryFields DEF CacheUuid, AfterCache, Completed
  <2>12. CASE MarkPhone(r)
    BY <2>a, <2>12 DEF MarkPhone, AfterPhone
  <2>13. CASE MarkUuid(r)
    <3>1. Uncertain(r) # None /\ Uncertain(r).owner = None
      BY <2>a, EntryTypes, EntryFields DEF Uncertain
    <3>2. CASE UNCHANGED redis
      BY <2>a, <2>13, <3>2 DEF MarkUuid
    <3>3. CASE Owns(Uuid[r], r) /\ Put(Uuid[r], Uncertain(r))
      BY <2>a, <2>13, <3>1, <3>3 DEF MarkUuid
    <3> QED
      BY <2>13, <3>2, <3>3 DEF MarkUuid
  <2> QED
    BY <1>1, <2>1, <2>2, <2>3, <2>4, <2>5, <2>6, <2>7, <2>8, <2>9, <2>10, <2>11, <2>12, <2>13 DEF Serve, Claim, Close
<1>2. ASSUME NEW w \in Workers, Retry(w) PROVE RunsInv'
  <2>a. /\ w \in Actors /\ Phone[w] \in Phones /\ Phone[w] \in Keys /\ w # None
        /\ w \notin Requests /\ ~HasUuid(w)
    BY GuardAssumption DEF Actors, Keys, HasUuid
  <2>1. CASE TryAcquireLease(w)
    <3>1. CASE Enter(w) /\ Put(Phone[w], Processing(w))
      <4> HIDE DEF RunsInv, Typed, Put
      <4> QED
        BY <2>a, <2>1, <3>1, EnterRuns DEF TryAcquireLease, Claiming
    <3>2. CASE Goto(w, "refused") /\ UNCHANGED ran
      BY <2>a, <2>1, <3>2 DEF TryAcquireLease
    <3> QED
      BY <2>1, <3>1, <3>2 DEF TryAcquireLease
  <2>2. CASE Finish(w)
    BY <2>a, <2>2 DEF Finish, Acting
  <2>3. CASE Release(w)
    BY <2>a, <2>3 DEF Release
  <2> QED
    BY <1>2, <2>1, <2>2, <2>3 DEF Retry
<1>3. ASSUME NEW a \in Actors, Renew(a) \/ Fence(a) \/ Write(a) \/ Crash(a) PROVE RunsInv'
  BY <1>3 DEF Renew, Fence, Write, Crash
<1>4. ASSUME NEW k \in Keys, Expire(k) \/ Lapse(k) PROVE RunsInv'
  BY <1>4 DEF Expire, Lapse, Vanish
<1>5. CASE UNCHANGED vars
  BY <1>5 DEF vars
<1> QED
  BY <1>1, <1>2, <1>3, <1>4, <1>5 DEF Next

\* One UUID starts the action at most once while its replay key lives.
THEOREM OneRunPerUuid == Spec => []UuidRunsOnce
<1>1. Init => RunsInv
  BY GuardAssumption DEF Init, RunsInv, Keys
<1>2. Spec => [](Typed /\ RunsInv)
  BY <1>1, TypedInit, TypedStep, RunsStep, PTL DEF Spec
<1>3. RunsInv => UuidRunsOnce
  BY DEF RunsInv, UuidRunsOnce
<1> QED
  BY <1>2, <1>3, PTL

-----------------------------------------------------------------------------
(* Replayed answers. *)

\* A completed entry carries the fingerprint of the request it answers.
AnswersInv ==
  /\ NoForeignReplay
  /\ \A k \in Keys :
       redis[k] # None /\ redis[k].status = "completed" => Fp[redis[k].result] = redis[k].fp

LEMMA AnswersStep == Typed /\ AnswersInv /\ [Next]_vars => AnswersInv'
<1> SUFFICES ASSUME Typed, AnswersInv, [Next]_vars PROVE AnswersInv'
  OBVIOUS
<1> USE GuardAssumption
    DEF Typed, TypeOK, StepsOK, AnswersInv, NoForeignReplay, Goto, Put, Owns, Keys
<1>1. ASSUME NEW r \in Requests, Serve(r) PROVE AnswersInv'
  <2>a. /\ r \in Actors /\ Phone[r] \in Phones /\ Phone[r] \in Keys /\ r # None
        /\ (HasUuid(r) => Uuid[r] \in Uuids /\ Uuid[r] \in Keys)
    BY GuardAssumption DEF Actors, Keys, HasUuid
  <2>1. CASE ReadUuid(r) \/ RereadUuid(r)
    <3>1. UNCHANGED redis /\ reply' \in {reply, [reply EXCEPT ![r] = redis[Uuid[r]].result]}
      BY <2>1 DEF ReadUuid, RereadUuid, Replay
    <3>2. CASE UNCHANGED <<redis, reply>>
      BY <3>2
    <3>3. CASE /\ redis[Uuid[r]] # None /\ redis[Uuid[r]].status = "completed"
               /\ redis[Uuid[r]].fp = Fp[r] /\ HasUuid(r)
               /\ reply' = [reply EXCEPT ![r] = redis[Uuid[r]].result]
      BY <2>a, <3>1, <3>3
    <3> QED
      BY <2>a, <2>1, <3>1, <3>2, <3>3 DEF ReadUuid, RereadUuid, Replay
  <2>2. CASE ReadPhone(r) \/ RereadPhone(r)
    <3>1. UNCHANGED redis
      BY <2>2 DEF ReadPhone, RereadPhone
    <3>2. CASE UNCHANGED <<redis, reply>>
      BY <3>2
    <3>3. CASE /\ redis[Phone[r]] # None /\ redis[Phone[r]].status = "completed"
               /\ redis[Phone[r]].fp = Fp[r]
               /\ reply' = [reply EXCEPT ![r] = redis[Phone[r]].result]
      BY <2>a, <3>1, <3>3
    <3> QED
      BY <2>a, <2>2, <3>1, <3>2, <3>3 DEF ReadPhone, RereadPhone, Resolve
  <2>3. CASE Return(r) \/ Throw(r)
    BY <2>a, <2>3 DEF Return, Throw
  <2>4. CASE ClaimUuid(r)
    BY <2>a, <2>4 DEF ClaimUuid, Processing
  <2>5. CASE ClaimPhone(r)
    BY <2>a, <2>5 DEF ClaimPhone, Processing
  <2>6. CASE TakeOver(r)
    BY <2>a, <2>6 DEF TakeOver, Processing
  <2>7. CASE CacheReplay(r)
    BY <2>a, <2>7 DEF CacheReplay, Completed
  <2>8. CASE GiveUp(r)
    BY <2>a, <2>8 DEF GiveUp
  <2>9. CASE ClaimFails(r)
    <3>1. UNCHANGED reply
      BY <2>9 DEF ClaimFails
    <3>2. CASE UNCHANGED redis
      BY <3>1, <3>2
    <3>3. CASE pc[r] = "claimUuid" /\ Put(Uuid[r], Processing(r))
      BY <2>a, <3>1, <3>3 DEF Processing
    <3>4. CASE Put(Phone[r], Processing(r))
      BY <2>a, <3>1, <3>4 DEF Processing
    <3> QED
      BY <2>9, <3>2, <3>3, <3>4 DEF ClaimFails
  <2>10. CASE CachePhone(r)
    BY <2>a, <2>10 DEF CachePhone, Completed
  <2>11. CASE CacheUuid(r)
    BY <2>a, <2>11 DEF CacheUuid, Completed
  <2>12. CASE MarkPhone(r)
    BY <2>a, <2>12 DEF MarkPhone, Uncertain
  <2>13. CASE MarkUuid(r)
    BY <2>a, <2>13 DEF MarkUuid, Uncertain
  <2> QED
    BY <1>1, <2>1, <2>2, <2>3, <2>4, <2>5, <2>6, <2>7, <2>8, <2>9, <2>10, <2>11, <2>12, <2>13 DEF Serve, Claim, Close
<1>2. ASSUME NEW w \in Workers, Retry(w) PROVE AnswersInv'
  <2>a. /\ w \in Actors /\ Phone[w] \in Phones /\ Phone[w] \in Keys /\ w # None
        /\ w \notin Requests /\ ~HasUuid(w)
    BY GuardAssumption DEF Actors, Keys, HasUuid
  <2>1. CASE TryAcquireLease(w)
    BY <2>a, <2>1 DEF TryAcquireLease, Processing
  <2>2. CASE Finish(w)
    BY <2>a, <2>2 DEF Finish
  <2>3. CASE Release(w)
    BY <2>a, <2>3 DEF Release
  <2> QED
    BY <1>2, <2>1, <2>2, <2>3 DEF Retry
<1>3. ASSUME NEW a \in Actors, Renew(a) \/ Fence(a) \/ Write(a) \/ Crash(a) PROVE AnswersInv'
  BY <1>3 DEF Renew, Fence, Write, Crash
<1>4. ASSUME NEW k \in Keys, Expire(k) \/ Lapse(k) PROVE AnswersInv'
  BY <1>4 DEF Expire, Lapse, Vanish
<1>5. CASE UNCHANGED vars
  BY <1>5 DEF vars
<1> QED
  BY <1>1, <1>2, <1>3, <1>4, <1>5 DEF Next

\* No request is answered with the result of another payload or actor.
THEOREM OwnAnswersOnly == Spec => []NoForeignReplay
<1>1. Init => AnswersInv
  BY GuardAssumption DEF Init, AnswersInv, NoForeignReplay, Keys, Actors
<1>2. Spec => [](Typed /\ AnswersInv)
  BY <1>1, TypedInit, TypedStep, AnswersStep, PTL DEF Spec
<1>3. AnswersInv => NoForeignReplay
  BY DEF AnswersInv
<1> QED
  BY <1>2, <1>3, PTL

-----------------------------------------------------------------------------
(* The guard implements the lease. *)

\* A living action that still owns its phone is the one in doubt.
OwnerInv ==
  \A a \in Actors :
    pc[a] \in Acting \cup {"cachePhone"} /\ Owns(Phone[a], a) => a \in open[Phone[a]]

LEMMA OwnerStep == Typed /\ OwnerInv /\ [Next]_vars => OwnerInv'
<1> SUFFICES ASSUME Typed, OwnerInv, [Next]_vars PROVE OwnerInv'
  OBVIOUS
<1> USE GuardAssumption
    DEF Typed, TypeOK, StepsOK, OwnerInv, Goto, Put, Owns, Keys, Acting
<1>1. ASSUME NEW r \in Requests, Serve(r) PROVE OwnerInv'
  <2>a. /\ r \in Actors /\ Phone[r] \in Phones /\ Phone[r] \in Keys /\ r # None
        /\ (HasUuid(r) => Uuid[r] \in Uuids /\ Uuid[r] \in Keys)
    BY GuardAssumption DEF Actors, Keys, HasUuid
  <2>1. CASE ReadUuid(r) \/ RereadUuid(r)
    BY <2>a, <2>1 DEF ReadUuid, RereadUuid, Replay
  <2>2. CASE ReadPhone(r) \/ RereadPhone(r)
    BY <2>a, <2>2 DEF ReadPhone, RereadPhone, Resolve
  <2>3. CASE Return(r) \/ Throw(r)
    BY <2>a, <2>3 DEF Return, Throw
  <2>4. CASE ClaimUuid(r)
    BY <2>a, <2>4 DEF ClaimUuid
  <2>5. CASE ClaimPhone(r)
    BY <2>a, <2>5 DEF ClaimPhone, Enter, Processing
  <2>6. CASE TakeOver(r)
    BY <2>a, <2>6 DEF TakeOver, Enter, Processing
  <2>7. CASE CacheReplay(r)
    BY <2>a, <2>7 DEF CacheReplay
  <2>8. CASE GiveUp(r)
    BY <2>a, <2>8 DEF GiveUp
  <2>9. CASE ClaimFails(r)
    BY <2>a, <2>9 DEF ClaimFails, Processing
  <2>10. CASE CachePhone(r)
    BY <2>a, <2>10 DEF CachePhone, AfterPhone, AfterCache, Completed
  <2>11. CASE CacheUuid(r)
    BY <2>a, <2>11 DEF CacheUuid, AfterCache
  <2>12. CASE MarkPhone(r)
    BY <2>a, <2>12 DEF MarkPhone, AfterPhone, Uncertain
  <2>13. CASE MarkUuid(r)
    BY <2>a, <2>13 DEF MarkUuid
  <2> QED
    BY <1>1, <2>1, <2>2, <2>3, <2>4, <2>5, <2>6, <2>7, <2>8, <2>9, <2>10, <2>11, <2>12, <2>13
    DEF Serve, Claim, Close
<1>2. ASSUME NEW w \in Workers, Retry(w) PROVE OwnerInv'
  <2>a. /\ w \in Actors /\ Phone[w] \in Phones /\ Phone[w] \in Keys /\ w # None
        /\ w \notin Requests /\ ~HasUuid(w)
    BY GuardAssumption DEF Actors, Keys, HasUuid
  <2>1. CASE TryAcquireLease(w)
    BY <2>a, <2>1 DEF TryAcquireLease, Enter, Processing
  <2>2. CASE Finish(w)
    BY <2>a, <2>2 DEF Finish
  <2>3. CASE Release(w)
    BY <2>a, <2>3 DEF Release
  <2> QED
    BY <1>2, <2>1, <2>2, <2>3 DEF Retry
<1>3. ASSUME NEW a \in Actors, Renew(a) \/ Fence(a) \/ Write(a) \/ Crash(a) PROVE OwnerInv'
  BY <1>3 DEF Renew, Fence, Write, Crash
<1>4. ASSUME NEW k \in Keys, Expire(k) \/ Lapse(k) PROVE OwnerInv'
  BY <1>4 DEF Expire, Lapse, Vanish
<1>5. CASE UNCHANGED vars
  BY <1>5 DEF vars
<1> QED
  BY <1>1, <1>2, <1>3, <1>4, <1>5 DEF Next

LeaseInv == Typed /\ DoubtInv /\ OwnerInv

\* Steps that touch neither a phone's key nor its doubt are invisible.
LEMMA Invisible ==
  ASSUME \A p \in Phones : open'[p] = open[p] /\ Recorded(p)' = Recorded(p)
  PROVE  UNCHANGED Lease!vars
  BY DEF Lease!vars

LEMMA SameRecord ==
  ASSUME NEW p \in Phones, redis'[p] = redis[p]
  PROVE  Recorded(p)' = Recorded(p)
  BY DEF Recorded

\* An action begins.
LEMMA BeginStep ==
  ASSUME LeaseInv, NEW a \in Actors, Enter(a), Put(Phone[a], Processing(a)),
         \/ redis[Phone[a]] = None
         \/ redis[Phone[a]].status = "completed" /\ redis[Phone[a]].fp # Fp[a]
  PROVE  Lease!Begin(a)
<1> DEFINE p == Phone[a]
<1>1. p \in Phones /\ p \in Keys
  BY GuardAssumption DEF Keys
<1>2. open[p] = {} /\ open'[p] = {a}
  BY <1>1, NoDoubt DEF LeaseInv, Enter, Typed, TypeOK
<1>3. Recorded(p) # Fp[a] /\ Recorded(p)' = None
  <2>1. redis'[p] = Processing(a)
    BY <1>1 DEF LeaseInv, Typed, TypeOK, Put
  <2> QED
    BY <2>1, GuardAssumption DEF Recorded, Processing
<1>4. \A q \in Phones \ {p} : open'[q] = open[q] /\ Recorded(q)' = Recorded(q)
  BY <1>1, SameRecord DEF LeaseInv, Typed, TypeOK, Put, Enter, Keys
<1> QED
  BY <1>1, <1>2, <1>3, <1>4 DEF Lease!Begin

\* The lock forgets a phone: a key vanishes, or a take-over whose reply was
\* lost replaces an answer.
LEMMA ForgetStep ==
  ASSUME LeaseInv, NEW p \in Phones, open'[p] = {}, Recorded(p)' = None,
         \A q \in Phones \ {p} : open'[q] = open[q] /\ redis'[q] = redis[q]
  PROVE  Lease!Forget(p)
  BY SameRecord DEF Lease!Forget

\* The steps of a request.
LEMMA ServeRefines ==
  ASSUME LeaseInv, NEW r \in Requests, Serve(r)
  PROVE  [Lease!Next]_(Lease!vars)
<1>1. /\ r \in Actors /\ Phone[r] \in Phones /\ Phone[r] \in Keys
      /\ (HasUuid(r) => Uuid[r] \in Keys /\ Uuid[r] \notin Phones)
  BY GuardAssumption DEF Actors, Keys, HasUuid
<1> USE DEF LeaseInv, Typed, TypeOK, StepsOK, Put
<1>2. CASE \/ ReadUuid(r) \/ RereadUuid(r) \/ ReadPhone(r) \/ RereadPhone(r)
           \/ Return(r) \/ Throw(r)
  <2>1. UNCHANGED <<redis, open>>
    BY <1>2 DEF ReadUuid, RereadUuid, ReadPhone, RereadPhone, Return, Throw
  <2> QED
    BY <2>1, SameRecord, Invisible
<1>3. CASE \/ ClaimUuid(r) \/ CacheReplay(r) \/ GiveUp(r) \/ CacheUuid(r) \/ MarkUuid(r)
  <2>1. UNCHANGED open
    BY <1>3 DEF ClaimUuid, CacheReplay, GiveUp, CacheUuid, MarkUuid
  <2>2. ASSUME NEW p \in Phones PROVE redis'[p] = redis[p]
    <3>1. HasUuid(r) \/ UNCHANGED redis
      BY <1>1, <1>3 DEF ClaimUuid, CacheReplay, GiveUp, CacheUuid, MarkUuid
    <3>2. HasUuid(r) => Uuid[r] # p
      BY <1>1
    <3> QED
      BY <1>1, <1>3, <3>1, <3>2 DEF ClaimUuid, CacheReplay, GiveUp, CacheUuid, MarkUuid, Keys
  <2> QED
    BY <2>1, <2>2, SameRecord, Invisible
<1>4. CASE ClaimPhone(r)
  <2>1. CASE redis[Phone[r]] = None
    <3>1. Lease!Begin(r)
      <4> HIDE DEF LeaseInv, Put
      <4> QED
        BY <1>1, <1>4, <2>1, BeginStep DEF ClaimPhone
    <3> QED
      BY <1>1, <3>1 DEF Lease!Next, Actors
  <2>2. CASE redis[Phone[r]] # None
    BY <1>4, <2>2, SameRecord, Invisible DEF ClaimPhone
  <2> QED
    BY <2>1, <2>2
<1>5. CASE TakeOver(r)
  <2>1. CASE redis[Phone[r]] = seen[r]
    <3>1. redis[Phone[r]].status = "completed" /\ redis[Phone[r]].fp # Fp[r]
      BY <1>1, <1>5, <2>1 DEF TakeOver
    <3>2. Lease!Begin(r)
      <4> HIDE DEF LeaseInv, Put
      <4> QED
        BY <1>1, <1>5, <2>1, <3>1, BeginStep DEF TakeOver
    <3> QED
      BY <1>1, <3>2 DEF Lease!Next, Actors
  <2>2. CASE redis[Phone[r]] # seen[r]
    BY <1>5, <2>2, SameRecord, Invisible DEF TakeOver
  <2> QED
    BY <2>1, <2>2
<1>6. CASE ClaimFails(r)
  <2>1. UNCHANGED open
    BY <1>6 DEF ClaimFails
  <2>2. CASE \A p \in Phones : redis'[p] = redis[p]
    BY <2>1, <2>2, SameRecord, Invisible
  <2>3. CASE /\ redis[Phone[r]] = None \/ redis[Phone[r]].status = "completed"
             /\ Put(Phone[r], Processing(r))
    <3>1. open[Phone[r]] = {}
      BY <1>1, <2>3, NoDoubt
    <3>2. Recorded(Phone[r])' = None
      <4>1. redis'[Phone[r]] = Processing(r)
        BY <1>1, <2>3
      <4> QED
        BY <4>1 DEF Recorded, Processing
    <3>3. Lease!Forget(Phone[r])
      BY <1>1, <2>1, <2>3, <3>1, <3>2, ForgetStep DEF Keys
    <3> QED
      BY <1>1, <3>3 DEF Lease!Next
  <2>4. pc[r] = "claimUuid" => HasUuid(r)
    BY <1>1
  <2>5. pc[r] = "takeOver" => seen[r].status = "completed"
    BY <1>1
  <2>6. HasUuid(r) /\ Put(Uuid[r], Processing(r)) => \A p \in Phones : redis'[p] = redis[p]
    BY <1>1 DEF Keys
  <2> HIDE DEF LeaseInv, Put
  <2> QED
    BY <1>6, <2>2, <2>3, <2>4, <2>5, <2>6 DEF ClaimFails
<1>7. CASE CachePhone(r)
  <2>1. CASE /\ Owns(Phone[r], r) /\ Put(Phone[r], Completed(r, r))
             /\ open' = [open EXCEPT ![Phone[r]] = @ \ {r}]
    <3>1. r \in open[Phone[r]]
      BY <1>1, <1>7, <2>1 DEF CachePhone, OwnerInv
    <3>2. open[Phone[r]] = {r}
      BY <1>1, <3>1 DEF DoubtInv, SingleWriter
    <3>3. Recorded(Phone[r])' = Fp[r]
      <4>1. redis'[Phone[r]] = Completed(r, r)
        BY <1>1, <2>1
      <4>2. Completed(r, r) # None
        BY <1>1, EntryTypes, EntryFields
      <4> QED
        BY <4>1, <4>2 DEF Recorded, Completed
    <3>4. \A q \in Phones \ {Phone[r]} : open'[q] = open[q] /\ Recorded(q)' = Recorded(q)
      BY <1>1, <2>1, SameRecord DEF Keys
    <3>5. open'[Phone[r]] = {}
      BY <1>1, <2>1, <3>2
    <3>6. Lease!Answer(r)
      BY <1>1, <3>2, <3>3, <3>4, <3>5 DEF Lease!Answer
    <3> QED
      BY <3>6 DEF Lease!Next
  <2>2. CASE UNCHANGED <<redis, open>>
    BY <2>2, SameRecord, Invisible
  <2> QED
    BY <1>7, <2>1, <2>2 DEF CachePhone
<1>8. CASE MarkPhone(r)
  <2>1. UNCHANGED open
    BY <1>8 DEF MarkPhone
  <2>2. CASE UNCHANGED redis
    BY <2>1, <2>2, SameRecord, Invisible
  <2>3. CASE Owns(Phone[r], r) /\ Put(Phone[r], Uncertain(r))
    <3>1. Recorded(Phone[r]) = None
      BY <1>1, <2>3, EntryFields, GuardAssumption DEF Owns, Recorded
    <3>2. Recorded(Phone[r])' = None
      <4>1. redis'[Phone[r]] = Uncertain(r)
        BY <1>1, <2>3
      <4> QED
        BY <4>1 DEF Recorded, Uncertain
    <3>3. \A q \in Phones \ {Phone[r]} : Recorded(q)' = Recorded(q)
      BY <1>1, <2>3, SameRecord DEF Keys
    <3> QED
      BY <2>1, <3>1, <3>2, <3>3, Invisible
  <2> QED
    BY <1>8, <2>2, <2>3 DEF MarkPhone
<1> QED
  BY <1>2, <1>3, <1>4, <1>5, <1>6, <1>7, <1>8 DEF Serve, Claim, Close

\* The steps of a scheduler's lease.
LEMMA RetryRefines ==
  ASSUME LeaseInv, NEW w \in Workers, Retry(w)
  PROVE  [Lease!Next]_(Lease!vars)
<1>1. w \in Actors /\ Phone[w] \in Phones /\ Phone[w] \in Keys
  BY GuardAssumption DEF Actors, Keys
<1> USE DEF LeaseInv, Typed, TypeOK, StepsOK, Put
<1>2. CASE TryAcquireLease(w)
  <2>1. CASE UNCHANGED <<redis, open>>
    BY <2>1, SameRecord, Invisible
  <2>2. CASE redis[Phone[w]] = None /\ Put(Phone[w], Processing(w)) /\ Enter(w)
    <3>1. Lease!Begin(w)
      <4> HIDE DEF LeaseInv, Put
      <4> QED
        BY <1>1, <2>2, BeginStep
    <3> QED
      BY <3>1 DEF Lease!Next
  <2>3. CASE redis[Phone[w]] = None /\ Put(Phone[w], Processing(w)) /\ UNCHANGED open
    <3>1. open[Phone[w]] = {}
      BY <1>1, <2>3, NoDoubt
    <3>2. Recorded(Phone[w])' = None
      <4>1. redis'[Phone[w]] = Processing(w)
        BY <1>1, <2>3
      <4> QED
        BY <4>1 DEF Recorded, Processing
    <3>3. Lease!Forget(Phone[w])
      BY <1>1, <2>3, <3>1, <3>2, ForgetStep DEF Keys
    <3> QED
      BY <1>1, <3>3 DEF Lease!Next
  <2> QED
    BY <1>2, <2>1, <2>2, <2>3 DEF TryAcquireLease
<1>3. CASE Finish(w)
  BY <1>3, SameRecord, Invisible DEF Finish
<1>4. CASE Release(w)
  <2>1. \A q \in Phones \ {Phone[w]} : open'[q] = open[q] /\ redis'[q] = redis[q]
    BY <1>1, <1>4 DEF Release, Keys
  <2>2. Recorded(Phone[w])' = Recorded(Phone[w])
    <3>1. CASE UNCHANGED redis
      BY <1>1, <3>1, SameRecord
    <3>2. CASE Owns(Phone[w], w) /\ Put(Phone[w], None)
      <4>1. Recorded(Phone[w]) = None
        BY <1>1, <3>2, EntryFields, GuardAssumption DEF Owns, Recorded
      <4>2. redis'[Phone[w]] = None
        BY <1>1, <3>2
      <4> QED
        BY <4>1, <4>2 DEF Recorded
    <3> QED
      BY <1>4, <3>1, <3>2 DEF Release
  <2>3. CASE w \in open[Phone[w]]
    <3>1. open[Phone[w]] = {w} /\ open'[Phone[w]] = {}
      BY <1>1, <1>4, <2>3 DEF DoubtInv, SingleWriter, Release
    <3>2. Lease!Release(w)
      BY <1>1, <2>1, <2>2, <3>1, SameRecord DEF Lease!Release
    <3> QED
      BY <3>2 DEF Lease!Next
  <2>4. CASE w \notin open[Phone[w]]
    <3>1. open'[Phone[w]] = open[Phone[w]]
      BY <1>1, <1>4, <2>4 DEF Release
    <3> QED
      BY <2>1, <2>2, <3>1, SameRecord, Invisible
  <2> QED
    BY <2>3, <2>4
<1> QED
  BY <1>2, <1>3, <1>4 DEF Retry

\* The guard implements the lease: whatever fails, on one phone actions follow
\* one another and a recorded answer is not recomputed for the same request.
THEOREM GuardImplementsLease == Spec => LeaseRefined
<1>1. Init => LeaseInv /\ Lease!Init
  BY TypedInit, GuardAssumption
  DEF Init, LeaseInv, DoubtInv, SingleWriter, OwnerInv, Owns, Keys, Lease!Init, Recorded
<1>2. LeaseInv /\ [Next]_vars => LeaseInv'
  BY TypedStep, DoubtStep, OwnerStep DEF LeaseInv
<1>3. LeaseInv /\ [Next]_vars => [Lease!Next]_(Lease!vars)
  <2> SUFFICES ASSUME LeaseInv, [Next]_vars PROVE [Lease!Next]_(Lease!vars)
    OBVIOUS
  <2>1. ASSUME NEW r \in Requests, Serve(r) PROVE [Lease!Next]_(Lease!vars)
    BY <2>1, ServeRefines
  <2>2. ASSUME NEW w \in Workers, Retry(w) PROVE [Lease!Next]_(Lease!vars)
    BY <2>2, RetryRefines
  <2>3. ASSUME NEW a \in Actors, Renew(a) \/ Fence(a) \/ Write(a) \/ Crash(a)
        PROVE  [Lease!Next]_(Lease!vars)
    BY <2>3, SameRecord, Invisible DEF Renew, Fence, Write, Crash
  <2>4. ASSUME NEW k \in Keys, Expire(k) \/ Lapse(k) PROVE [Lease!Next]_(Lease!vars)
    <3> USE DEF LeaseInv, Typed, TypeOK, Put
    <3>1. redis' = [redis EXCEPT ![k] = None] /\ open' = [open EXCEPT ![k] = {}]
      BY <2>4 DEF Expire, Lapse, Vanish
    <3>2. CASE k \in Phones
      <4>1. Recorded(k)' = None
        BY <3>1 DEF Recorded
      <4>2. Lease!Forget(k)
        BY <3>1, <3>2, <4>1, ForgetStep DEF Keys
      <4> QED
        BY <3>2, <4>2 DEF Lease!Next
    <3>3. CASE k \notin Phones
      BY <3>1, <3>3, SameRecord, Invisible DEF Keys
    <3> QED
      BY <3>2, <3>3
  <2>5. CASE UNCHANGED vars
    BY <2>5, SameRecord, Invisible DEF vars
  <2> QED
    BY <2>1, <2>2, <2>3, <2>4, <2>5 DEF Next
<1> QED
  BY <1>1, <1>2, <1>3, PTL DEF Spec, LeaseRefined, Lease!Spec
=============================================================================
