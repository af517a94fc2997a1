------------------------------ MODULE MCBackup ------------------------------
(* An instance of Backup: what the pg_dump file of database_dumps/ holds. *)
EXTENDS Backup

MCSqlRows == [t \in {"types", "links"} |-> {1}]
=============================================================================
