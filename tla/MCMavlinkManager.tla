-------------------------- MODULE MCMavlinkManager --------------------------
(* Model-checking instances of MavlinkManager.                             *)
EXTENDS MavlinkManager, TLC

\* Connections, flights and rounds are only told apart by identity.
Interchangeable == Permutations(Conns) \cup Permutations(Sims)
=============================================================================
