-------------------------- MODULE MCAgencyCampaign --------------------------
(* Small instances of AgencyCampaign.                                      *)
EXTENDS AgencyCampaign, TLC

CONSTANTS pilot, plain,   \* a campaign of the workspace, and another
          a1, a2,         \* agencies
          o1, o2,         \* operators
          s1, s2          \* two sessions of o1

\* The pilot has both agencies, the other campaign only the first.
TargetsBoth == [c \in Campaigns |-> IF c = pilot THEN {a1, a2} ELSE {a1}]
TabOne      == [s \in Sessions |-> o1]

Alike == Permutations(Requests) \cup Permutations(Submissions)
=============================================================================
