------------------------ MODULE MCBrokerContactGate ------------------------
(* Symmetry for TLC: gates, and rows of brokers, are interchangeable.      *)
EXTENDS BrokerContactGate, TLC

Alike == Permutations(Gates) \cup Permutations(Brokers)
=============================================================================
