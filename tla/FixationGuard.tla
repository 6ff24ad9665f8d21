---------------------------- MODULE FixationGuard ----------------------------
(***************************************************************************)
(* The Redis guard in front of POST /clients/fix                           *)
(* (ClientFixationSafetyService.execute) together with the phone lease the *)
(* scheduler's retry takes on the same key                                 *)
(* (AmoFixationPhoneLockService.tryAcquireLease).                          *)
(*                                                                         *)
(* One Redis round trip is one step.  A round trip of a request may fail   *)
(* before it took effect or after it (the reply is lost).  A key leaves    *)
(* Redis by its TTL (Expire), or under a holder that is still alive        *)
(* because its renewals stalled or Redis restarted without it (Lapse).     *)
(* The time to live is not counted: a key whose holder runs does not       *)
(* expire, any other key may.                                              *)
(***************************************************************************)
EXTENDS Integers, FiniteSets

CONSTANTS
  Requests,     \* calls of execute, one per HTTP request
  Workers,      \* rows the scheduler retries, one lease each
  Phones,       \* canonical client phones: the semantic keys
  Uuids,        \* actor + idempotency UUID: the replay keys
  Fingerprints, \* digests of actor and payload
  Phone,        \* the phone of a request or of a row
  Uuid,         \* the replay key of a request, or NoKey
  Fp,           \* the fingerprint of a request or of a row
  NoKey,
  None,
  MaxLapses     \* bound: how many leases of living holders may vanish

Actors == Requests \cup Workers
Keys == Phones \cup Uuids

Entry == [status : {"processing"}, fp : Fingerprints, owner : Actors, result : {None}]
  \cup [status : {"completed"}, fp : Fingerprints, owner : {None}, result : Requests]
  \cup [status : {"uncertain"}, fp : Fingerprints, owner : {None}, result : {None}]

ASSUME GuardAssumption ==
  /\ Phone \in [Actors -> Phones]
  /\ Uuid \in [Requests -> Uuids \cup {NoKey}]
  /\ Fp \in [Actors -> Fingerprints]
  /\ Requests \cap Workers = {}
  /\ Phones \cap Uuids = {}
  /\ NoKey \notin Keys
  /\ None \notin Actors \cup Fingerprints \cup Entry
  /\ MaxLapses \in Nat

\* The payload holds the phone; the fingerprint of a row is its own.
ASSUME FingerprintAssumption ==
  /\ \A a, b \in Actors : Fp[a] = Fp[b] => Phone[a] = Phone[b]
  /\ \A w \in Workers, a \in Actors : Fp[a] = Fp[w] => a = w

VARIABLES
  redis,   \* what each key holds: an Entry, or None
  pc,      \* where each actor is
  holds,   \* requests whose SET NX of the replay key was acknowledged (ownsReplay)
  seen,    \* the completed entry a request is about to take over
  lost,    \* actors whose lease has its sticky lostOwnership flag set
  uncached, \* requests that failed to cache their result
  reply,   \* the request whose result the caller received, or None
  lapses,  \* number of Lapse steps
  ran,     \* history: actors whose action began under a key, since it last vanished
  open     \* history: of these, those whose outcome no key records yet

vars == <<redis, pc, holds, seen, lost, uncached, reply, lapses, ran, open>>

Processing(a) == [status |-> "processing", fp |-> Fp[a], owner |-> a, result |-> None]
Completed(a, r) == [status |-> "completed", fp |-> Fp[a], owner |-> None, result |-> r]
\* Mutant: the uncertain record keeps its owner.
UncertainKeepsOwner(a) ==
  [status |-> "uncertain", fp |-> Fp[a], owner |-> a, result |-> None]

Uncertain(a) == [status |-> "uncertain", fp |-> Fp[a], owner |-> None, result |-> None]

Claiming == {"readUuid", "claimUuid", "rereadUuid", "readPhone", "claimPhone",
             "rereadPhone", "takeOver", "cacheReplay", "giveUp"}
Acting == {"act", "fenced", "wrote"}
Closing == {"cachePhone", "cacheUuid", "markPhone", "markUuid", "release"}
Final == {"answered", "refused", "failed", "done", "dead"}

HasUuid(a) == a \in Requests /\ Uuid[a] # NoKey
KeysOf(a) == IF HasUuid(a) THEN {Phone[a], Uuid[a]} ELSE {Phone[a]}

\* The compare-owner scripts: only the owner stored in the key passes.
Owns(k, a) == redis[k] # None /\ redis[k].owner = a

Goto(a, step) == pc' = [pc EXCEPT ![a] = step]
Put(k, entry) == redis' = [redis EXCEPT ![k] = entry]

\* The action starts under the keys the actor holds at this moment.
Enter(a) ==
  /\ Goto(a, "act")
  /\ ran' = [k \in Keys |-> IF k \in KeysOf(a) /\ (k = Phone[a] \/ Owns(k, a))
                            THEN ran[k] \cup {a} ELSE ran[k]]
  /\ open' = [open EXCEPT ![Phone[a]] = @ \cup {a}]

Init ==
  /\ redis = [k \in Keys |-> None]
  /\ pc = [a \in Actors |-> IF a \in Workers THEN "claimPhone"
                            ELSE IF HasUuid(a) THEN "readUuid" ELSE "readPhone"]
  /\ holds = {}
  /\ seen = [a \in Actors |-> None]
  /\ lost = {}
  /\ uncached = {}
  /\ reply = [a \in Actors |-> None]
  /\ lapses = 0
  /\ ran = [k \in Keys |-> {}]
  /\ open = [k \in Keys |-> {}]

-----------------------------------------------------------------------------
(* Claiming the replay key. *)

\* Mutant: any completed entry under the UUID answers.
ReplayAnyData(r, entry) ==
  IF entry.status = "completed"
  THEN Goto(r, "answered") /\ reply' = [reply EXCEPT ![r] = entry.result]
  ELSE Goto(r, "refused") /\ UNCHANGED reply

\* readStoredResult: only a completed entry of the same fingerprint answers.
Replay(r, entry) ==
  IF entry.fp = Fp[r] /\ entry.status = "completed"
  THEN Goto(r, "answered") /\ reply' = [reply EXCEPT ![r] = entry.result]
  ELSE Goto(r, "refused") /\ UNCHANGED reply

ReadUuid(r) ==
  /\ pc[r] = "readUuid"
  /\ IF redis[Uuid[r]] = None
     THEN Goto(r, "claimUuid") /\ UNCHANGED reply
     ELSE Replay(r, redis[Uuid[r]])
  /\ UNCHANGED <<redis, holds, seen, lost, uncached, lapses, ran, open>>

ClaimUuid(r) ==
  /\ pc[r] = "claimUuid"
  /\ IF redis[Uuid[r]] = None
     THEN /\ Put(Uuid[r], Processing(r))
          /\ holds' = holds \cup {r}
          /\ Goto(r, "readPhone")
     ELSE Goto(r, "rereadUuid") /\ UNCHANGED <<redis, holds>>
  /\ UNCHANGED <<seen, lost, uncached, reply, lapses, ran, open>>

RereadUuid(r) ==
  /\ pc[r] = "rereadUuid"
  /\ IF redis[Uuid[r]] = None
     THEN Goto(r, "refused") /\ UNCHANGED reply
     ELSE Replay(r, redis[Uuid[r]])
  /\ UNCHANGED <<redis, holds, seen, lost, uncached, lapses, ran, open>>

-----------------------------------------------------------------------------
(* Claiming the phone. *)

\* resolveSemantic: the same request is answered, a settled one of somebody
\* else is taken over, everything else is a conflict.
Resolve(r, entry) ==
  \/ /\ entry.status = "completed" /\ entry.fp = Fp[r]
     /\ reply' = [reply EXCEPT ![r] = entry.result]
     /\ UNCHANGED seen
     /\ Goto(r, IF r \in holds THEN "cacheReplay" ELSE "answered")
  \/ /\ entry.status = "completed" /\ entry.fp # Fp[r]
     /\ seen' = [seen EXCEPT ![r] = entry]
     /\ Goto(r, "takeOver") /\ UNCHANGED reply
  \/ /\ entry.status # "completed"
     /\ Goto(r, "giveUp") /\ UNCHANGED <<seen, reply>>

ReadPhone(r) ==
  /\ pc[r] = "readPhone"
  /\ IF redis[Phone[r]] = None
     THEN Goto(r, "claimPhone") /\ UNCHANGED <<seen, reply>>
     ELSE Resolve(r, redis[Phone[r]])
  /\ UNCHANGED <<redis, holds, lost, uncached, lapses, ran, open>>

ClaimPhone(r) ==
  /\ r \in Requests /\ pc[r] = "claimPhone"
  /\ IF redis[Phone[r]] = None
     THEN Put(Phone[r], Processing(r)) /\ Enter(r)
     ELSE Goto(r, "rereadPhone") /\ UNCHANGED <<redis, ran, open>>
  /\ UNCHANGED <<holds, seen, lost, uncached, reply, lapses>>

RereadPhone(r) ==
  /\ pc[r] = "rereadPhone"
  /\ IF redis[Phone[r]] = None
     THEN Goto(r, "giveUp") /\ UNCHANGED <<seen, reply>>
     ELSE Resolve(r, redis[Phone[r]])
  /\ UNCHANGED <<redis, holds, lost, uncached, lapses, ran, open>>

\* Mutant: the swap does not compare the entry that was read.
TakeOverBlind(r) ==
  /\ pc[r] = "takeOver"
  /\ Put(Phone[r], Processing(r)) /\ Enter(r)
  /\ seen' = [seen EXCEPT ![r] = None]
  /\ UNCHANGED <<holds, lost, uncached, reply, lapses>>

\* TAKE_OVER_COMPLETED_SCRIPT: swap only the very entry that was read.
TakeOver(r) ==
  /\ pc[r] = "takeOver"
  /\ IF redis[Phone[r]] = seen[r]
     THEN Put(Phone[r], Processing(r)) /\ Enter(r)
     ELSE Goto(r, "giveUp") /\ UNCHANGED <<redis, ran, open>>
  /\ seen' = [seen EXCEPT ![r] = None]
  /\ UNCHANGED <<holds, lost, uncached, reply, lapses>>

\* A replayed answer is stored under the new UUID too, if that key is still ours.
CacheReplay(r) ==
  /\ pc[r] = "cacheReplay"
  /\ Goto(r, "answered")
  /\ \/ Owns(Uuid[r], r) /\ Put(Uuid[r], Completed(r, reply[r]))
     \/ UNCHANGED redis
  /\ UNCHANGED <<holds, seen, lost, uncached, reply, lapses, ran, open>>

\* A refusal gives the replay key back; a failing DEL is only logged.
GiveUp(r) ==
  /\ pc[r] = "giveUp"
  /\ Goto(r, "refused")
  /\ \/ r \in holds /\ Owns(Uuid[r], r) /\ Put(Uuid[r], None)
     \/ UNCHANGED redis
  /\ UNCHANGED <<holds, seen, lost, uncached, reply, lapses, ran, open>>

\* A claiming round trip throws: nothing is known to be held that was not
\* acknowledged, so only an acknowledged replay key is given back (GiveUp).
ClaimFails(r) ==
  /\ pc[r] \in {"readUuid", "claimUuid", "rereadUuid", "readPhone", "claimPhone",
                "rereadPhone", "takeOver"}
  /\ r \in Requests
  /\ Goto(r, "giveUp")
  /\ \/ UNCHANGED redis
     \/ pc[r] = "claimUuid" /\ redis[Uuid[r]] = None /\ Put(Uuid[r], Processing(r))
     \/ pc[r] = "claimPhone" /\ redis[Phone[r]] = None /\ Put(Phone[r], Processing(r))
     \/ pc[r] = "takeOver" /\ redis[Phone[r]] = seen[r] /\ Put(Phone[r], Processing(r))
  /\ UNCHANGED <<holds, seen, lost, uncached, reply, lapses, ran, open>>

-----------------------------------------------------------------------------
(* The guarded action: uniqueness GET, optional one-shot amo write. *)

\* The renewal timer notices a key it no longer owns, or cannot reach Redis.
Renew(a) ==
  /\ pc[a] \in Acting /\ a \notin lost
  /\ lost' = lost \cup {a}
  /\ UNCHANGED <<redis, pc, holds, seen, uncached, reply, lapses, ran, open>>

\* assertOwned, immediately before the write.
Fence(a) ==
  /\ pc[a] = "act" /\ a \notin lost
  /\ IF \A k \in KeysOf(a) : Owns(k, a)
     THEN Goto(a, "fenced") /\ UNCHANGED lost
     ELSE lost' = lost \cup {a} /\ UNCHANGED pc
  /\ UNCHANGED <<redis, holds, seen, uncached, reply, lapses, ran, open>>

Write(a) ==
  /\ pc[a] = "fenced"
  /\ Goto(a, "wrote")
  /\ UNCHANGED <<redis, holds, seen, lost, uncached, reply, lapses, ran, open>>

\* The action returns a result (a rule may decide without any write).
Return(r) ==
  /\ r \in Requests /\ pc[r] \in Acting
  /\ Goto(r, IF r \in lost THEN "markPhone" ELSE "cachePhone")
  /\ UNCHANGED <<redis, holds, seen, lost, uncached, reply, lapses, ran, open>>

Throw(r) ==
  /\ r \in Requests /\ pc[r] \in Acting
  /\ Goto(r, "markPhone")
  /\ UNCHANGED <<redis, holds, seen, lost, uncached, reply, lapses, ran, open>>

-----------------------------------------------------------------------------
(* Closing a request. *)

AfterPhone(r, uuidStep, end) == IF HasUuid(r) THEN uuidStep ELSE end
AfterCache(r, ok) == IF ok THEN "answered" ELSE "markPhone"

CachePhone(r) ==
  /\ pc[r] = "cachePhone"
  /\ \/ /\ Owns(Phone[r], r)
        /\ Put(Phone[r], Completed(r, r))
        /\ open' = [open EXCEPT ![Phone[r]] = @ \ {r}]
        /\ uncached' \in {uncached, uncached \cup {r}}
     \/ uncached' = uncached \cup {r} /\ UNCHANGED <<redis, open>>
  /\ Goto(r, AfterPhone(r, "cacheUuid", AfterCache(r, r \notin uncached')))
  /\ reply' = [reply EXCEPT ![r] = IF ~HasUuid(r) /\ r \notin uncached' THEN r ELSE @]
  /\ UNCHANGED <<holds, seen, lost, lapses, ran>>

CacheUuid(r) ==
  /\ pc[r] = "cacheUuid"
  /\ \/ /\ Owns(Uuid[r], r)
        /\ Put(Uuid[r], Completed(r, r))
        /\ uncached' \in {uncached, uncached \cup {r}}
     \/ uncached' = uncached \cup {r} /\ UNCHANGED redis
  /\ Goto(r, AfterCache(r, r \notin uncached'))
  /\ reply' = [reply EXCEPT ![r] = IF r \notin uncached' THEN r ELSE @]
  /\ UNCHANGED <<holds, seen, lost, lapses, ran, open>>

\* Mutant: a failed request frees its phone.
MarkPhoneFrees(r) ==
  /\ pc[r] = "markPhone"
  /\ IF Owns(Phone[r], r) THEN Put(Phone[r], None) ELSE UNCHANGED redis
  /\ Goto(r, AfterPhone(r, "markUuid", "failed"))
  /\ UNCHANGED <<holds, seen, lost, uncached, reply, lapses, ran, open>>

MarkPhone(r) ==
  /\ pc[r] = "markPhone"
  /\ \/ Owns(Phone[r], r) /\ Put(Phone[r], Uncertain(r))
     \/ UNCHANGED redis
  /\ Goto(r, AfterPhone(r, "markUuid", "failed"))
  /\ UNCHANGED <<holds, seen, lost, uncached, reply, lapses, ran, open>>

\* Mutant: a failed request frees its UUID for another attempt.
MarkUuidFrees(r) ==
  /\ pc[r] = "markUuid"
  /\ IF Owns(Uuid[r], r) THEN Put(Uuid[r], None) ELSE UNCHANGED redis
  /\ Goto(r, "failed")
  /\ UNCHANGED <<holds, seen, lost, uncached, reply, lapses, ran, open>>

MarkUuid(r) ==
  /\ pc[r] = "markUuid"
  /\ \/ Owns(Uuid[r], r) /\ Put(Uuid[r], Uncertain(r))
     \/ UNCHANGED redis
  /\ Goto(r, "failed")
  /\ UNCHANGED <<holds, seen, lost, uncached, reply, lapses, ran, open>>

-----------------------------------------------------------------------------
(* The scheduler's lease. *)

\* tryAcquireLease: a busy phone is skipped, a failing SET ends the cycle.
TryAcquireLease(w) ==
  /\ w \in Workers /\ pc[w] = "claimPhone"
  /\ \/ redis[Phone[w]] = None /\ Put(Phone[w], Processing(w)) /\ Enter(w)
     \/ /\ \/ redis[Phone[w]] = None /\ Put(Phone[w], Processing(w))
           \/ UNCHANGED redis
        /\ Goto(w, "refused") /\ UNCHANGED <<ran, open>>
  /\ UNCHANGED <<holds, seen, lost, uncached, reply, lapses>>

Finish(w) ==
  /\ w \in Workers /\ pc[w] \in Acting
  /\ Goto(w, "release")
  /\ UNCHANGED <<redis, holds, seen, lost, uncached, reply, lapses, ran, open>>

\* Mutant: release deletes the key without comparing its owner.
ReleaseBlind(w) ==
  /\ pc[w] = "release"
  /\ Put(Phone[w], None)
  /\ Goto(w, "done")
  /\ open' = [open EXCEPT ![Phone[w]] = @ \ {w}]
  /\ UNCHANGED <<holds, seen, lost, uncached, reply, lapses, ran>>

\* release: the row in the database records the outcome from here on.
Release(w) ==
  /\ pc[w] = "release"
  /\ \/ Owns(Phone[w], w) /\ Put(Phone[w], None)
     \/ UNCHANGED redis
  /\ Goto(w, "done")
  /\ open' = [open EXCEPT ![Phone[w]] = @ \ {w}]
  /\ UNCHANGED <<holds, seen, lost, uncached, reply, lapses, ran>>

-----------------------------------------------------------------------------
(* The environment. *)

Running(a) == pc[a] \notin Final

Vanish(k) ==
  /\ Put(k, None)
  /\ ran' = [ran EXCEPT ![k] = {}]
  /\ open' = [open EXCEPT ![k] = {}]
  /\ UNCHANGED <<pc, holds, seen, lost, uncached, reply>>

\* Mutant: processing and uncertain keys are written without a time to live.
ExpireCompletedOnly(k) ==
  /\ redis[k] # None /\ redis[k].status = "completed"
  /\ Vanish(k)
  /\ UNCHANGED lapses

Expire(k) ==
  /\ redis[k] # None
  /\ ~ \E a \in Actors : Owns(k, a) /\ Running(a)
  /\ Vanish(k)
  /\ UNCHANGED lapses

Lapse(k) ==
  /\ lapses < MaxLapses
  /\ \E a \in Actors : Owns(k, a) /\ Running(a)
  /\ Vanish(k)
  /\ lapses' = lapses + 1

\* The API process stops: nothing of the request's code runs any more.
Crash(a) ==
  /\ Running(a)
  /\ Goto(a, "dead")
  /\ UNCHANGED <<redis, holds, seen, lost, uncached, reply, lapses, ran, open>>

-----------------------------------------------------------------------------
Claim(r) == \/ ReadUuid(r) \/ ClaimUuid(r) \/ RereadUuid(r) \/ ReadPhone(r)
            \/ ClaimPhone(r) \/ RereadPhone(r) \/ TakeOver(r) \/ CacheReplay(r)
            \/ GiveUp(r) \/ ClaimFails(r)
Close(r) == CachePhone(r) \/ CacheUuid(r) \/ MarkPhone(r) \/ MarkUuid(r)
Serve(r) == Claim(r) \/ Return(r) \/ Throw(r) \/ Close(r)
Retry(w) == TryAcquireLease(w) \/ Finish(w) \/ Release(w)

Next ==
  \/ \E r \in Requests : Serve(r)
  \/ \E w \in Workers : Retry(w)
  \/ \E a \in Actors : Renew(a) \/ Fence(a) \/ Write(a) \/ Crash(a)
  \/ \E k \in Keys : Expire(k) \/ Lapse(k)

Spec == Init /\ [][Next]_vars

\* Node keeps running the handlers (every amo call has a timeout), and Redis
\* drops a key whose TTL elapsed.
Fairness ==
  /\ \A r \in Requests : WF_vars(Serve(r))
  /\ \A w \in Workers : WF_vars(Retry(w))
  /\ \A k \in Keys : WF_vars(Expire(k))

FairSpec == Spec /\ Fairness
-----------------------------------------------------------------------------
(* What the guard must ensure. *)

TypeOK ==
  /\ redis \in [Keys -> Entry \cup {None}]
  /\ pc \in [Actors -> Claiming \cup Acting \cup Closing \cup Final]
  /\ holds \subseteq Requests
  /\ seen \in [Actors -> Entry \cup {None}]
  /\ lost \subseteq Actors
  /\ uncached \subseteq Requests
  /\ reply \in [Actors -> Requests \cup {None}]
  /\ lapses \in 0..MaxLapses
  /\ ran \in [Keys -> SUBSET Actors]
  /\ open \in [Keys -> SUBSET Actors]

\* While a phone key lives, at most one action on that phone is unfinished or
\* ended without a recorded outcome, whoever started it, UI or scheduler.
SingleWriter == \A p \in Phones : \A a, b \in open[p] : a = b

\* An action that began and whose outcome was never recorded - it runs, threw,
\* lost its lease or died with the process - keeps its phone locked until the
\* TTL: nobody frees the key or takes it over.
InDoubtLocked ==
  \A p \in Phones : \A a \in open[p] : redis[p] \in {Processing(a), Uncertain(a)}

\* One idempotency UUID starts the action at most once in the life of its
\* replay key, however its duplicates interleave with refusals and take-overs.
UuidRunsOnce == \A u \in Uuids : \A a, b \in ran[u] : a = b

\* A cached answer is only ever given to a request with the fingerprint (actor
\* and payload) of the request that produced it, through either key.
NoForeignReplay ==
  \A r \in Requests : reply[r] # None => Fp[reply[r]] = Fp[r]

\* What the lock promises, without Redis: see PhoneLease.
Recorded(p) == IF redis[p] # None /\ redis[p].status = "completed"
               THEN redis[p].fp ELSE None
Lease == INSTANCE PhoneLease WITH
  inDoubt <- [p \in Phones |-> open[p]],
  answered <- [p \in Phones |-> Recorded(p)]
LeaseRefined == Lease!Spec

\* A phone is never locked for good: a processing or uncertain key settles or
\* goes, after a crash as well.
PhoneUnblocks ==
  \A p \in Phones :
    redis[p] # None /\ redis[p].status # "completed"
      ~> redis[p] = None \/ redis[p].status = "completed"

=============================================================================
