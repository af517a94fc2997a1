------------------------ MODULE MCCommandController ------------------------
(* Model-checking instances of CommandController.                          *)
EXTENDS CommandController, TLC

\* Calls of send() are only told apart by identity.
Interchangeable == Permutations(Reqs)
=============================================================================
