--------------------------- MODULE MCFixationGuard ---------------------------
(* Instances of FixationGuard: requests that share a phone, a UUID, a payload. *)
EXTENDS FixationGuard

CONSTANTS r1, r2, r3, w1, p1, u1, f1, f2, f3

OnePhone == [a \in Actors |-> p1]

\* r1 and r2 repeat one click with one UUID, r3 sends another payload for the
\* same phone, and w1 is a row of that phone.
ClickFp == [a \in Actors |-> CASE a \in {r1, r2} -> f1 [] a = r3 -> f2 [] a = w1 -> f3]

\* r3 reuses the UUID of the click, or has none.
ReusedUuid == [r \in Requests |-> u1]
ClickUuid == [r \in Requests |-> IF r = r3 THEN NoKey ELSE u1]
=============================================================================
