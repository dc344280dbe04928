------------------------- MODULE MCTrafficAccounting -------------------------
(* Instances of TrafficAccounting for TLC.                                 *)
EXTENDS TrafficAccounting, TLC

\* Nodes, readers and identities are only compared for equality.
Symmetry == Permutations(Nodes) \cup Permutations(Readers) \cup Permutations(Ids)
=============================================================================
