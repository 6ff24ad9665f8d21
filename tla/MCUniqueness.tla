---------------------------- MODULE MCUniqueness ----------------------------
(* Small instances of UniquenessLifecycle.                                 *)
EXTENDS UniquenessLifecycle, TLC

CONSTANTS a, b,      \* clients
          k, s,      \* a lead of the call centre, and a sales lead
          A, B       \* contacts of their brokers

\* a is on the sales lead, b waits on a later lead of the call centre.
LeadEach      == [c \in Clients |-> IF c = a THEN s ELSE k]
EffectiveEach == [c \in Clients |-> IF c = a THEN A ELSE B]
\* a was fixed by B for A.
TeamDelegated == [c \in Clients |-> IF c = a THEN {A, B} ELSE {B}]

\* Only b's broker comes near the lead of the call centre.
NearbyDelegated == [l \in Leads |-> IF l = s THEN {A, B} ELSE {B}]

Alike == Permutations(Workers)
=============================================================================
