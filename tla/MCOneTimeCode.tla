--------------------------- MODULE MCOneTimeCode ---------------------------
(* Small instances of OneTimeCode.                                         *)
EXTENDS OneTimeCode, TLC

CONSTANTS r1, r2, r3, v1, v2

\* r3 asks for a code of another purpose.
PurposeMixed == [c \in Requests \cup Checks |-> IF c = r3 THEN "reset" ELSE "login"]

\* Verifications are alike, and so are the requests of one purpose.
Alike == Permutations(Checks) \cup Permutations({r1, r2})
=============================================================================
