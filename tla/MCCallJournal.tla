--------------------------- MODULE MCCallJournal ---------------------------
(***************************************************************************)
(* An instance of CallJournal: a1 and a2 are about c1 and name it, so does *)
(* b1, in the legacy shape, about c2.  The row of x1 comes late or never,  *)
(* as that of a call made elsewhere, and y1 does not name it.              *)
(***************************************************************************)
EXTENDS CallJournal, TLC

CONSTANTS c1, c2, x1, a1, a2, b1, y1

MCCallOf ==
    [e \in Events |->
        IF e \in {a1, a2} THEN c1 ELSE IF e = b1 THEN c2 ELSE x1]
MCSeqOf ==
    [e \in Events |->
        IF e = b1 THEN 0 ELSE IF e = a2 THEN 2 ELSE 1]

Alike == Permutations(Handlers)
=============================================================================
