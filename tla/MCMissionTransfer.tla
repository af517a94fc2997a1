-------------------------- MODULE MCMissionTransfer --------------------------
(* Model-checking instances of MissionTransfer.                            *)
EXTENDS MissionTransfer, TLC

\* Uploads are only told apart by identity.
Interchangeable == Permutations(Transfers)
=============================================================================
