--------------------------- MODULE MCMissionUpload ---------------------------
(* Model-checking instances of MissionUpload.                              *)
EXTENDS MissionUpload, TLC

\* Connections and uploads are only told apart by identity.
Interchangeable == Permutations(Links) \cup Permutations(Uploads)
=============================================================================
