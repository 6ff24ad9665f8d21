---------------------------- MODULE MCCallGuard ----------------------------
(***************************************************************************)
(* An instance of CallGuard: three requests share one UUID, one of them    *)
(* for another target, and one has none.                                   *)
(***************************************************************************)
EXTENDS CallGuard

CONSTANTS r1, r2, r3, l1, u1, t1, t2

\* r1 and r2 are one request sent twice.
MCUuid ==
    [r \in Requests |-> IF r = l1 THEN NoUuid ELSE u1]
MCTarget == [r \in Requests |-> IF r = r3 THEN t2 ELSE t1]

=============================================================================
