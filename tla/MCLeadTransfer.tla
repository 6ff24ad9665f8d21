--------------------------- MODULE MCLeadTransfer ---------------------------
EXTENDS LeadTransfer, TLC

Symmetry == Permutations(Rows) \cup Permutations(Leads) \cup Permutations(Uis)
            \cup Permutations(Brokers)
=============================================================================
