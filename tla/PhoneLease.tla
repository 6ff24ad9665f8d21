----------------------------- MODULE PhoneLease -----------------------------
(***************************************************************************)
(* What the phone lock promises to the writers of amoCRM leads: on one     *)
(* phone, actions follow one another.  The next begins when the last one's *)
(* outcome is recorded - for a request an answer that the same request     *)
(* receives again instead of a second run - or when the lock has forgotten *)
(* it (TTL, Redis without its data).                                       *)
(***************************************************************************)
CONSTANTS Requests, Workers, Phones, Phone, Fp, None

VARIABLES
  inDoubt,  \* the actors whose action on a phone has no recorded outcome: {} or one
  answered  \* the fingerprint of the recorded answer of a phone

vars == <<inDoubt, answered>>

Init ==
  /\ inDoubt = [p \in Phones |-> {}]
  /\ answered = [p \in Phones |-> None]

\* An action begins on a phone without doubt, unless its answer is on record.
Begin(a) ==
  /\ inDoubt[Phone[a]] = {}
  /\ answered[Phone[a]] # Fp[a]
  /\ inDoubt' = [inDoubt EXCEPT ![Phone[a]] = {a}]
  /\ answered' = [answered EXCEPT ![Phone[a]] = None]

Answer(r) ==
  /\ inDoubt[Phone[r]] = {r}
  /\ inDoubt' = [inDoubt EXCEPT ![Phone[r]] = {}]
  /\ answered' = [answered EXCEPT ![Phone[r]] = Fp[r]]

Release(w) ==
  /\ inDoubt[Phone[w]] = {w}
  /\ inDoubt' = [inDoubt EXCEPT ![Phone[w]] = {}]
  /\ UNCHANGED answered

Forget(p) ==
  /\ inDoubt' = [inDoubt EXCEPT ![p] = {}]
  /\ answered' = [answered EXCEPT ![p] = None]

Next ==
  \/ \E a \in Requests \cup Workers : Begin(a)
  \/ \E r \in Requests : Answer(r)
  \/ \E w \in Workers : Release(w)
  \/ \E p \in Phones : Forget(p)

Spec == Init /\ [][Next]_vars
=============================================================================
