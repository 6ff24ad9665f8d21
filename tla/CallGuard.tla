----------------------------- MODULE CallGuard -----------------------------
(***************************************************************************)
(* MangoCallSafetyService: what stands between a button of the cabinet and *)
(* a telephone that rings.                                                 *)
(*                                                                         *)
(* A request with an idempotency UUID owns the key of its UUID in Redis    *)
(* while it calls Mango, and leaves its result there for a repetition.  A  *)
(* request without one takes a short cooldown key.  Both draw on one       *)
(* budget of calls per window.  Every key of the service carries the id of *)
(* the actor, so one actor is modelled.                                    *)
(*                                                                         *)
(* A command to Redis may fail before or after it took effect, Mango may   *)
(* ring and its answer be lost, and the process may die at any stage.      *)
(***************************************************************************)
EXTENDS Naturals, FiniteSets

CONSTANTS
    Requests,
    Uuids, NoUuid,
    Targets,      \* what a fingerprint tells apart
    Uuid,         \* the idempotency UUID of a request, or NoUuid
    Target,       \* the fingerprint of a request
    NoCall,
    RateLimit,    \* RATE_LIMIT
    Overrun       \* may a key expire under the request that owns it?

ASSUME ConstantsAssumption ==
    /\ NoUuid \notin Uuids
    /\ NoCall \notin Requests
    /\ Uuid \in [Requests -> Uuids \cup {NoUuid}]
    /\ Target \in [Requests -> Targets]
    /\ RateLimit \in Nat
    /\ Overrun \in BOOLEAN

VARIABLES
    key,        \* the record under the key of a UUID
    cooldown,   \* is the cooldown key set?
    spent,      \* the counter of the present window
    pc, answer, result,
    rang,       \* requests whose command Mango carried out
    journal,    \* requests whose row of `calls` is committed
    life        \* per UUID: the rings since its key last expired

redis == <<key, cooldown, spent>>
world == <<rang, journal, life>>
vars  == <<key, cooldown, spent, pc, answer, result, rang, journal, life>>

Stages  == {"get", "set", "reget", "cool", "budget", "ring", "row", "save",
            "drop", "done"}
Answers == {"none", "ok", "conflict", "limit", "unavailable", "failed", "lost"}

\* StoredCall, or no record at all.  A result names the request that made it.
Free    == [state |-> "free"]
Records == {Free}
           \cup [state : {"processing"}, target : Targets]
           \cup [state : {"completed"}, target : Targets, call : Requests]

Keyed(r) == Uuid[r] # NoUuid
\* r has taken the key of its UUID and not let it go.
Owns(r)  == Keyed(r) /\ pc[r] \in {"budget", "ring", "row", "save", "drop"}

Init ==
    /\ key = [u \in Uuids |-> Free]
    /\ cooldown = FALSE
    /\ spent = 0
    /\ pc = [r \in Requests |-> IF Keyed(r) THEN "get" ELSE "cool"]
    /\ answer = [r \in Requests |-> "none"]
    /\ result = [r \in Requests |-> NoCall]
    /\ rang = {} /\ journal = {}
    /\ life = [u \in Uuids |-> {}]

Goto(r, stage) ==
    /\ pc' = [pc EXCEPT ![r] = stage]
    /\ UNCHANGED <<answer, result>>

Reply(r, a, c) ==
    /\ pc' = [pc EXCEPT ![r] = "done"]
    /\ answer' = [answer EXCEPT ![r] = a]
    /\ result' = [result EXCEPT ![r] = c]

\* An error inside execute: the owner of a key first deletes it.
Fail(r, a) ==
    /\ pc' = [pc EXCEPT ![r] = IF Keyed(r) THEN "drop" ELSE "done"]
    /\ answer' = [answer EXCEPT ![r] = a]
    /\ UNCHANGED result

Unavailable(r) == Reply(r, "unavailable", NoCall)

-----------------------------------------------------------------------------
\* Faulty on purpose: the fingerprint is not compared.
ReadCachedAnyTarget(r) ==
    IF key[Uuid[r]].state = "completed"
    THEN Reply(r, "ok", key[Uuid[r]].call)
    ELSE Reply(r, "conflict", NoCall)

\* Only a completed record of the same target is replayed.
ReadCached(r) ==
    LET rec == key[Uuid[r]]
    IN  IF rec.target = Target[r] /\ rec.state = "completed"
        THEN Reply(r, "ok", rec.call)
        ELSE Reply(r, "conflict", NoCall)

Get(r) ==
    /\ pc[r] = "get"
    /\ \/ key[Uuid[r]] = Free /\ Goto(r, "set")
       \/ key[Uuid[r]] # Free /\ ReadCached(r)
       \/ Unavailable(r)
    /\ UNCHANGED <<redis, world>>

\* Faulty on purpose: SET without NX.
AcquireAnyway(r) ==
    /\ pc[r] = "set"
    /\ key' = [key EXCEPT ![Uuid[r]] = [state |-> "processing", target |-> Target[r]]]
    /\ Goto(r, "budget")
    /\ UNCHANGED <<cooldown, spent, world>>

\* SET NX; without its answer the request does not know that it owns the key.
Acquire(r) ==
    LET mine == [key EXCEPT ![Uuid[r]] = [state |-> "processing", target |-> Target[r]]]
    IN  /\ pc[r] = "set"
        /\ \/ key[Uuid[r]] = Free /\ key' = mine /\ Goto(r, "budget")
           \/ key[Uuid[r]] = Free /\ key' = mine /\ Unavailable(r)
           \/ key[Uuid[r]] # Free /\ Goto(r, "reget") /\ UNCHANGED key
           \/ Unavailable(r) /\ UNCHANGED key
        /\ UNCHANGED <<cooldown, spent, world>>

\* The key was taken by another request, or is free once more.
Reget(r) ==
    /\ pc[r] = "reget"
    /\ \/ key[Uuid[r]] = Free /\ Reply(r, "conflict", NoCall)
       \/ key[Uuid[r]] # Free /\ ReadCached(r)
       \/ Unavailable(r)
    /\ UNCHANGED <<redis, world>>

\* The cooldown of a client that sends no UUID; nobody deletes it.
Cool(r) ==
    /\ pc[r] = "cool"
    /\ \/ ~cooldown /\ cooldown' = TRUE /\ Goto(r, "budget")
       \/ ~cooldown /\ cooldown' = TRUE /\ Unavailable(r)
       \/ cooldown /\ Reply(r, "limit", NoCall) /\ UNCHANGED cooldown
       \/ Unavailable(r) /\ UNCHANGED cooldown
    /\ UNCHANGED <<key, spent, world>>

\* The script increments, and compares what it incremented to: a refused
\* request has spent too.
Spend(r) ==
    /\ pc[r] = "budget"
    /\ \/ /\ spent' = spent + 1
          /\ \/ spent' <= RateLimit /\ Goto(r, "ring")
             \/ spent' > RateLimit /\ Fail(r, "limit")
             \/ Fail(r, "unavailable")
       \/ UNCHANGED spent /\ Fail(r, "unavailable")
    /\ UNCHANGED <<key, cooldown, world>>

\* The action of the caller: its checks and Mango may refuse, Mango may ring
\* and answer, or ring and its answer be lost.
Ring(r) ==
    /\ pc[r] = "ring"
    /\ \/ Fail(r, "failed") /\ UNCHANGED <<rang, life>>
       \/ /\ rang' = rang \cup {r}
          /\ life' = IF Keyed(r) THEN [life EXCEPT ![Uuid[r]] = @ \cup {r}] ELSE life
          /\ Goto(r, "row") \/ Fail(r, "failed")
    /\ UNCHANGED <<redis, journal>>

\* call.create; its failure is a failure of the action.
Row(r) ==
    /\ pc[r] = "row"
    /\ \/ /\ journal' = journal \cup {r}
          /\ IF Keyed(r) THEN Goto(r, "save") ELSE Reply(r, "ok", r)
       \/ Fail(r, "failed") /\ UNCHANGED journal
    /\ UNCHANGED <<redis, rang, life>>

Completed(r) == [state |-> "completed", target |-> Target[r], call |-> r]

\* Faulty on purpose: the result is left out of the record.
SaveWithoutResult(r) ==
    /\ pc[r] = "save"
    /\ key' = [key EXCEPT ![Uuid[r]] = IF @ = Free THEN @ ELSE
                    [state |-> "completed", target |-> Target[r]]]
    /\ Reply(r, "ok", r)
    /\ UNCHANGED <<cooldown, spent, world>>

\* Faulty on purpose: an error of Redis is an error of the call.
SaveOrFail(r) ==
    /\ pc[r] = "save"
    /\ \/ /\ key' = [key EXCEPT ![Uuid[r]] = IF @ = Free THEN @ ELSE Completed(r)]
          /\ Reply(r, "ok", r)
       \/ Fail(r, "failed") /\ UNCHANGED key
    /\ UNCHANGED <<cooldown, spent, world>>

\* SET XX: whoever's record is there becomes r's; its failure is logged only.
Save(r) ==
    /\ pc[r] = "save"
    /\ \/ key' = [key EXCEPT ![Uuid[r]] = IF @ = Free THEN @ ELSE Completed(r)]
       \/ UNCHANGED key
    /\ Reply(r, "ok", r)
    /\ UNCHANGED <<cooldown, spent, world>>

\* safeDelete: whoever's record is there is deleted.
Drop(r) ==
    /\ pc[r] = "drop"
    /\ \/ key' = [key EXCEPT ![Uuid[r]] = Free]
       \/ UNCHANGED key
    /\ pc' = [pc EXCEPT ![r] = "done"]
    /\ UNCHANGED <<cooldown, spent, answer, result, world>>

-----------------------------------------------------------------------------
\* The process dies with the request in it.
Crash(r) ==
    /\ pc[r] # "done"
    /\ Reply(r, "lost", NoCall)
    /\ UNCHANGED <<redis, world>>

\* IDEMPOTENCY_TTL_MS is thirty times the timeout of Mango.
Expire(u) ==
    /\ key[u] # Free
    /\ Overrun \/ \A r \in Requests : Uuid[r] = u => ~Owns(r)
    /\ key' = [key EXCEPT ![u] = Free]
    /\ life' = [life EXCEPT ![u] = {}]
    /\ UNCHANGED <<cooldown, spent, pc, answer, result, rang, journal>>

\* LEGACY_COOLDOWN_MS
CooldownEnds ==
    /\ cooldown /\ cooldown' = FALSE
    /\ UNCHANGED <<key, spent, pc, answer, result, world>>

\* RATE_WINDOW_MS
WindowEnds ==
    /\ spent > 0 /\ spent' = 0
    /\ UNCHANGED <<key, cooldown, pc, answer, result, world>>

Work(r) ==
    \/ Get(r) \/ Acquire(r) \/ Reget(r) \/ Cool(r) \/ Spend(r)
    \/ Ring(r) \/ Row(r) \/ Save(r) \/ Drop(r)

Next ==
    \/ \E r \in Requests : Work(r) \/ Crash(r)
    \/ \E u \in Uuids : Expire(u)
    \/ CooldownEnds \/ WindowEnds

Spec == Init /\ [][Next]_vars

-----------------------------------------------------------------------------
\* The types of the keys, of the requests and of the ledgers.
TypeOK ==
    /\ key \in [Uuids -> Records]
    /\ cooldown \in BOOLEAN
    /\ spent \in Nat
    /\ pc \in [Requests -> Stages]
    /\ answer \in [Requests -> Answers]
    /\ result \in [Requests -> Requests \cup {NoCall}]
    /\ rang \in SUBSET Requests
    /\ journal \in SUBSET rang
    /\ life \in [Uuids -> SUBSET rang]

\* Two requests with one UUID are never between SET NX and its end together
\* (mango-call-safety.service.ts:69-86): neither can delete or complete the
\* record of the other, though safeDelete and SET XX compare no owner.
OneCallerPerKey ==
    \A r, s \in Requests :
        Owns(r) /\ Owns(s) /\ Uuid[r] = Uuid[s] => r = s

\* A repetition is answered with a call that was really made and journalled,
\* by a request with its UUID to its target (readCachedResult, :146-164).
CacheIsTruthful ==
    \A r \in Requests : answer[r] = "ok" =>
        /\ result[r] \in journal
        /\ Uuid[result[r]] = Uuid[r]
        /\ Target[result[r]] = Target[r]

\* Once a call is in the journal, no repetition with its UUID rings while the
\* key lives: an error of Redis after that is not an error of the call (:131-137).
NoRingAfterJournal ==
    [][\A u \in Uuids :
        life[u] \cap journal # {} => life'[u] \subseteq life[u]]_vars

\* One UUID rings once while its key lives: "new clients [...] receive the
\* cached result on a retry" (:39-42).  No run checks this: the code does not
\* keep it when Mango rang and the action failed after that.
RingsOnce == \A u \in Uuids : Cardinality(life[u]) <= 1

=============================================================================
