--------------------------- MODULE MCNodeCommands ---------------------------
(* Instances of NodeCommands for TLC.                                      *)
EXTENDS NodeCommands, TLC

\* Command identities are only compared for equality.
Symmetry == Permutations(Ids)
=============================================================================
