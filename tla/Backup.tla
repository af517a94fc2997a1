------------------------------- MODULE Backup -------------------------------
(***************************************************************************)
(* core/backup.py, core/sql_dump_loader.py and core/backup_router.py: the  *)
(* scheduled and the write-triggered dumps of the main database, their     *)
(* copies on local disk and in MinIO with their rotation, the loss check   *)
(* and the restore, beside the transactions of the request handlers, with  *)
(* dumps that fail, crashes, lost volumes and a MinIO that goes away.      *)
(*                                                                         *)
(* Two tables stand for the metadata: "types" (drone_types) and "links"    *)
(* (drone_payload_links), whose row i refers to row i of "types" and is    *)
(* deleted with it; the one sequence modelled is that of "types".  A dump  *)
(* is named after the second it was begun in, so a store of dumps is a     *)
(* function from stamps to contents.                                       *)
(***************************************************************************)
EXTENDS Integers, FiniteSets

CONSTANTS MaxId,         \* bound: row ids handed out by the sequence
          Requests,      \* transactions of handlers that may be open at once
          Retention,     \* cfg.backup_retention_count
          Interval,      \* cfg.backup_interval_minutes, in seconds
          HistoryDepth,  \* RESTORE_HISTORY_DEPTH
          SqlRows,       \* what the pg_dump file of database_dumps/ holds
          AutoRestore,   \* cfg.backup_auto_restore
          Restorers,     \* of "monitor", "request" and "operator"
          MaxNow,        \* bound: seconds
          MaxEvents      \* bound: transactions, losses, crashes, failed dumps and outages together

ASSUME BackupAssumption == /\ MaxId \in Nat /\ Retention \in Nat \ {0}
                           /\ HistoryDepth \in Nat \ {0} /\ Interval \in Nat \ {0}
                           /\ MaxNow \in Nat \ {0} /\ MaxEvents \in Nat
                           /\ AutoRestore \in BOOLEAN
                           /\ Restorers \subseteq {"monitor", "request", "operator"}
                           /\ SqlRows \in [{"types", "links"} -> SUBSET (1..MaxId)]

VARIABLES db,        \* committed rows of each table
          nextId,    \* the id sequence of "types": the last value it gave
          request,   \* the open transactions of the handlers that create a type
          overlapped, \* history: the sequence was last set from the rows while another
                     \* transaction had an id of its own that it could not see
          dirty,     \* _pending_dirty_tables
          timer,     \* _write_dump_handle: when it was armed, 0 for None
          waiting,   \* a _debounced_write_dump() waits for _write_dump_lock
          now,       \* the clock, in seconds
          local,     \* backup_dir/dump_*.json
          minio,     \* the bucket
          minioUp,   \* MinIO answers
          marker,    \* the .sql file is recorded in sql_fallback_applied.json
          serving,   \* lifespan() has reached its yield
          dumper,    \* create_dump() calls: the scheduler's and the write-triggered one
          restorer,  \* restore_latest_dump() calls, the one of lifespan() included
          behind,    \* history: tables with a change that the newest dump may miss and no
                     \* running one is to read: the hooks missed it, the dump that was to
                     \* read it failed, or another one of the same second replaced it
          events     \* how many of the bounded events happened

bvars == <<db, nextId, request, overlapped, dirty, timer, waiting, now, local, minio,
           minioUp, marker, serving, dumper, restorer, behind, events>>
rows == <<db, nextId, request, overlapped>>
files == <<local, minio>>
pending == <<dirty, timer, waiting>>
fixed == <<now, minioUp, events>>   \* what only the environment changes

Tables == {"types", "links"}
Ids == 1..MaxId
Contents == [Tables -> SUBSET Ids]
Nothing == [t \in Tables |-> {}]
Stamps == 0..MaxNow
Stores == UNION {[S -> Contents] : S \in SUBSET Stamps}
Dumpers == {"scheduler", "write"}
AllRestorers == Restorers \cup {"boot"}

Highest(S) == CHOOSE x \in S : \A y \in S : y <= x
Newest(store, k) == {s \in DOMAIN store : Cardinality({u \in DOMAIN store : u > s}) < k}
Only(store, S) == [s \in S |-> store[s]]
Over(new, store) == [s \in DOMAIN new \cup DOMAIN store |->
                        IF s \in DOMAIN new THEN new[s] ELSE store[s]]

NoDumps == [s \in {} |-> Nothing]
IdleRequest == [pc |-> "idle", id |-> 0, rows |-> {}]
Request == {IdleRequest} \cup [pc : {"insert", "commit"}, id : Ids, rows : SUBSET Tables]
Dumper == [pc : {"idle", "read", "upload", "rotate", "expire"}, stamp : Stamps,
           toRead : SUBSET Tables, data : Contents,
           owes : SUBSET Tables]   \* history: the tables it was begun for
Restorer == [pc : {"idle", "fetch", "open", "count", "insert", "reset", "commit", "mark"},
             table : Tables, dumps : Stores, rows : Contents, fromSql : BOOLEAN]
IdleDumper == [pc |-> "idle", stamp |-> 0, toRead |-> {}, data |-> Nothing, owes |-> {}]
IdleRestorer == [pc |-> "idle", table |-> "types", dumps |-> NoDumps, rows |-> Nothing,
                 fromSql |-> FALSE]
Marking == [IdleRestorer EXCEPT !.pc = "mark"]

Init == /\ db = Nothing /\ nextId = 0 /\ overlapped = FALSE
        /\ request = [q \in Requests |-> IdleRequest]
        /\ dirty = {} /\ timer = 0 /\ waiting = FALSE /\ now = 1
        /\ local = NoDumps /\ minio = NoDumps /\ minioUp = TRUE /\ marker = FALSE
        /\ serving = FALSE
        /\ dumper = [d \in Dumpers |-> IdleDumper]
        /\ restorer = [r \in AllRestorers |-> IdleRestorer]
        /\ behind = {} /\ events = 0

-----------------------------------------------------------------------------
(* Commits of the application *)

\* _on_before_commit and _on_after_commit: what the session still holds as new,
\* dirty or deleted objects at the commit is noted, and the timer is armed anew.
NoteCommit(changed, seen) ==
    /\ dirty' = dirty \cup seen
    /\ timer' = IF seen = {} THEN timer ELSE now
    /\ behind' = (behind \cup changed) \ seen
    /\ UNCHANGED <<waiting, now, files, minioUp, marker, serving, dumper, restorer>>

\* The rows of t the transaction of r has inserted.
Inserted(r, t) == IF restorer[r].pc = "insert" /\ restorer[r].table = t THEN {}
                  ELSE restorer[r].rows[t]
Uncommitted(t) == UNION {Inserted(r, t) : r \in AllRestorers}

Ended(q) == request' = [request EXCEPT ![q] = IdleRequest]

\* The INSERT of a new type takes the next id of the sequence.  It runs where the handler
\* flushes, or at the commit.
TakeId(q) ==
    /\ serving /\ events < MaxEvents /\ nextId < MaxId
    /\ request[q].pc = "idle"
    /\ nextId' = nextId + 1
    /\ request' = [request EXCEPT ![q] = [pc |-> "insert", id |-> nextId + 1, rows |-> {}]]
    /\ events' = events + 1
    /\ UNCHANGED <<db, overlapped, pending, now, minioUp, files, marker, serving, dumper, restorer,
                   behind>>

\* It waits while another transaction holds the id, and fails if the id is taken.  The type
\* comes with or without its link.
InsertType(q, linked) ==
    LET i == request[q].id
    IN /\ request[q].pc = "insert"
       /\ i \notin Uncommitted("types")
       /\ \A o \in Requests \ {q} : request[o].pc = "commit" => request[o].id # i
       /\ IF i \in db["types"] THEN Ended(q)
          ELSE request' = [request EXCEPT ![q].pc = "commit",
                                          ![q].rows = IF linked THEN Tables ELSE {"types"}]
       /\ UNCHANGED <<db, nextId, overlapped, pending, fixed, files, marker, serving, dumper,
                      restorer, behind>>

\* get_db commits when the handler has returned.  Objects the handler has flushed are
\* persistent and clean by then: the hooks see only those it has not.
CommitCreate(q, flushed) ==
    LET changed == request[q].rows
    IN /\ request[q].pc = "commit"
       /\ db' = [t \in Tables |-> IF t \in changed THEN db[t] \cup {request[q].id} ELSE db[t]]
       /\ Ended(q)
       /\ NoteCommit(changed, IF flushed THEN {} ELSE changed)
       /\ UNCHANGED <<nextId, overlapped, events>>

\* Or it rolls back; a sequence does not.
RollbackCreate(q) ==
    /\ request[q].pc = "commit"
    /\ Ended(q)
    /\ UNCHANGED <<db, nextId, overlapped, pending, fixed, files, marker, serving, dumper,
                   restorer, behind>>

\* A handler deletes a type (ON DELETE CASCADE takes its link) or only the link.
\* A link a restore has inserted and not committed locks its type.
Delete(i, t, flushed) ==
    LET gone == IF t = "types" THEN Tables ELSE {t}
        seen == IF flushed THEN {} ELSE {t}
    IN /\ serving /\ events < MaxEvents
       /\ i \in db[t] \ Uncommitted("links")
       /\ db' = [u \in Tables |-> IF u \in gone THEN db[u] \ {i} ELSE db[u]]
       /\ events' = events + 1
       /\ NoteCommit({u \in gone : i \in db[u]}, seen)
       /\ UNCHANGED <<nextId, request, overlapped>>

-----------------------------------------------------------------------------
(* create_dump() *)

\* run_backup_scheduler: a full dump at once, then one after each interval.
BeginFullDump ==
    /\ serving /\ dumper["scheduler"].pc = "idle"
    /\ dumper["scheduler"].stamp # 0 => now >= dumper["scheduler"].stamp + Interval
    /\ dumper' = [dumper EXCEPT !["scheduler"] =
                    [pc |-> "read", stamp |-> now, toRead |-> Tables, data |-> Nothing,
                     owes |-> behind]]
    /\ behind' = {}
    /\ UNCHANGED <<rows, pending, fixed, files, marker, serving, restorer>>

\* Mutant: the timer is armed again instead of being cleared.
X_TimerRearmed ==
    /\ serving /\ timer # 0 /\ now > timer
    /\ timer' = now + 1 /\ waiting' = TRUE
    /\ UNCHANGED <<rows, dirty, fixed, files, marker, serving, dumper, restorer, behind>>

\* The timer fires _WRITE_DUMP_DEBOUNCE_SECONDS after the last noted commit.
TimerFires ==
    /\ serving /\ timer # 0 /\ now > timer
    /\ timer' = 0 /\ waiting' = TRUE
    /\ UNCHANGED <<rows, dirty, fixed, files, marker, serving, dumper, restorer, behind>>

\* Mutant: the tables that are not read again are left out of the dump.
X_NoCarry ==
    /\ serving /\ waiting /\ dumper["write"].pc = "idle"
    /\ waiting' = FALSE /\ dirty' = {}
    /\ dumper' = IF dirty = {} THEN dumper
                 ELSE [dumper EXCEPT !["write"] =
                         [pc |-> "read", stamp |-> now, toRead |-> dirty, data |-> Nothing,
                          owes |-> dirty]]
    /\ UNCHANGED <<rows, timer, fixed, files, marker, serving, restorer, behind>>

\* _debounced_write_dump takes the tables noted, under _write_dump_lock, and
\* carries the others over from the newest local dump, if there is one.
BeginWriteDump ==
    /\ serving /\ waiting /\ dumper["write"].pc = "idle"
    /\ waiting' = FALSE /\ dirty' = {}
    /\ dumper' = IF dirty = {} THEN dumper
                 ELSE [dumper EXCEPT !["write"] =
                         [pc |-> "read", stamp |-> now,
                          toRead |-> IF DOMAIN local = {} THEN Tables ELSE dirty,
                          data |-> IF DOMAIN local = {} THEN Nothing
                                   ELSE local[Highest(DOMAIN local)],
                          owes |-> dirty]]
    /\ UNCHANGED <<rows, timer, fixed, files, marker, serving, restorer, behind>>

\* The SELECT of one table: sorted_tables lists "types" before "links".
ReadTable(d, t) ==
    /\ dumper[d].pc = "read" /\ t \in dumper[d].toRead
    /\ t = "links" => "types" \notin dumper[d].toRead
    /\ dumper' = [dumper EXCEPT ![d].data[t] = db[t], ![d].toRead = @ \ {t}]
    /\ UNCHANGED <<rows, pending, fixed, files, marker, serving, restorer, behind>>

\* The file replaces one of the same second.  What the scheduler's dump was begun for is
\* read by it for good if it is the newest, and no older dump is being carried over.
WriteDump(d) ==
    LET n == dumper[d].stamp
        newest == \A s \in DOMAIN local : s < n
        healed == d = "write" \/ (newest /\ dumper["write"].pc # "read")
    IN /\ dumper[d].pc = "read" /\ dumper[d].toRead = {}
       /\ local' = Over([s \in {n} |-> dumper[d].data], local)
       /\ behind' = IF n \in DOMAIN local THEN Tables
                    ELSE IF healed THEN behind ELSE behind \cup dumper[d].owes
       /\ dumper' = [dumper EXCEPT ![d] = [IdleDumper EXCEPT !.pc = "upload", !.stamp = n]]
       /\ UNCHANGED <<rows, pending, fixed, minio, marker, serving, restorer>>

\* dumps[:excess]: a negative excess counts from the end of the list.
Rotated(store) ==
    LET n == Cardinality(DOMAIN store)
        excess == n - Retention
        dropped == IF excess >= 0 THEN excess ELSE n + excess
    IN Only(store, Newest(store, IF dropped > 0 THEN n - dropped ELSE n))

\* The dump is over; run_backup_scheduler goes to sleep.
Rested(d) == [dumper EXCEPT ![d] =
                [IdleDumper EXCEPT !.stamp = IF d = "scheduler" THEN dumper[d].stamp ELSE 0]]

\* _upload_to_minio in a thread, where the file is read again: the other dump of the same
\* second may have replaced it, and its rotation removed it, which raises.  A MinIO that
\* does not answer is logged.
UploadDump(d) ==
    LET own == {dumper[d].stamp} \cap DOMAIN local
    IN /\ dumper[d].pc = "upload"
       /\ minio' = IF minioUp THEN Over(Only(local, own), minio) ELSE minio
       /\ dumper' = IF minioUp /\ own = {} THEN Rested(d) ELSE [dumper EXCEPT ![d].pc = "rotate"]
       /\ UNCHANGED <<rows, pending, fixed, local, marker, serving, restorer, behind>>

RotateLocal(d) ==
    /\ dumper[d].pc = "rotate"
    /\ local' = Rotated(local)
    /\ dumper' = [dumper EXCEPT ![d].pc = "expire"]
    /\ UNCHANGED <<rows, pending, fixed, minio, marker, serving, restorer, behind>>

\* _rotate_old_minio_dumps, in a thread.
RotateMinio(d) ==
    /\ dumper[d].pc = "expire"
    /\ minio' = IF minioUp THEN Rotated(minio) ELSE minio
    /\ dumper' = Rested(d)
    /\ UNCHANGED <<rows, pending, fixed, local, marker, serving, restorer, behind>>

-----------------------------------------------------------------------------
(* The loss check and the restore *)

\* _fetch_recent_dumps: MinIO's newest dumps, or the local ones when it lists
\* none.  A key that also exists on disk is read from disk.
Fetched ==
    IF minioUp /\ DOMAIN minio # {}
    THEN [s \in Newest(minio, HistoryDepth) |-> IF s \in DOMAIN local THEN local[s] ELSE minio[s]]
    ELSE Only(local, Newest(local, HistoryDepth))

\* Mutant: only the newest dump says what the database is expected to hold.
X_NewestOnly ==
    DOMAIN Fetched # {} /\ \E t \in Tables : db[t] = {} /\ Fetched[Highest(DOMAIN Fetched)][t] # {}

\* _tables_with_expected_data_are_empty
DataLost == \E t \in Tables : db[t] = {} /\ \E s \in DOMAIN Fetched : Fetched[s][t] # {}

\* check_and_restore_if_lost, by run_integrity_monitor or maybe_check_and_restore.
CheckForLoss(r) ==
    /\ serving /\ r \in {"monitor", "request"} /\ restorer[r].pc = "idle"
    /\ DataLost
    /\ local' = Over(local, Fetched)
    /\ restorer' = [restorer EXCEPT ![r].pc = "fetch"]
    /\ UNCHANGED <<rows, pending, fixed, minio, marker, serving, dumper, behind>>

\* POST /api/system/backup/restore, and restore_all() before anything is served.
StartRestore(r) ==
    /\ \/ serving /\ r = "operator"
       \/ ~serving /\ r = "boot"
    /\ restorer[r].pc = "idle"
    /\ restorer' = [restorer EXCEPT ![r].pc = "fetch"]
    /\ UNCHANGED <<rows, pending, fixed, files, marker, serving, dumper, behind>>

\* The call returns; lifespan() goes on to serve.
Returned(r) == /\ restorer' = [restorer EXCEPT ![r] = IdleRestorer]
               /\ serving' = (serving \/ r = "boot")

\* load_best: the .sql file, as stamp 0, if it has rows and is not marked as applied.
SqlFallback == IF marker \/ SqlRows = Nothing THEN NoDumps ELSE [s \in {0} |-> SqlRows]

\* restore_latest_dump loads the dumps, and after them the .sql file.
FetchDumps(r) ==
    /\ restorer[r].pc = "fetch"
    /\ IF r # "operator" /\ ~AutoRestore THEN Returned(r) /\ UNCHANGED local
       ELSE /\ local' = Over(local, Fetched)
            /\ IF DOMAIN Over(Fetched, SqlFallback) = {} THEN Returned(r)
               ELSE /\ restorer' = [restorer EXCEPT ![r].pc = "open",
                                                   ![r].dumps = Over(Fetched, SqlFallback)]
                    /\ UNCHANGED serving
    /\ UNCHANGED <<rows, pending, fixed, minio, marker, dumper, behind>>

\* Every table the .sql file has rows for is empty.
Wiped == \A t \in Tables : SqlRows[t] # {} => db[t] = {}

\* The .sql file is left out unless the whole database looks wiped.
OpenTransaction(r) ==
    LET dumps == restorer[r].dumps
    IN /\ restorer[r].pc = "open"
       /\ restorer' = [restorer EXCEPT ![r].pc = "count",
                          ![r].dumps = Only(dumps, DOMAIN dumps \ (IF Wiped THEN {} ELSE {0}))]
       /\ UNCHANGED <<rows, pending, fixed, files, marker, serving, dumper, behind>>

\* A table that holds rows is left alone; an empty one gets the rows of the
\* newest dump that has some.
CountTable(r, t) ==
    LET with == {s \in DOMAIN restorer[r].dumps : restorer[r].dumps[s][t] # {}}
    IN /\ restorer[r].pc = "count" /\ restorer[r].table = t
       /\ restorer' = IF db[t] = {} /\ with # {}
                      THEN [restorer EXCEPT ![r].pc = "insert",
                                            ![r].rows[t] = restorer[r].dumps[Highest(with)][t],
                                            ![r].fromSql = @ \/ Highest(with) = 0]
                      ELSE [restorer EXCEPT ![r].pc = IF t = "types" THEN "count" ELSE "reset",
                                            ![r].table = "links"]
       /\ UNCHANGED <<rows, pending, fixed, files, marker, serving, dumper, behind>>

\* INSERT waits while another transaction holds one of its keys (that of a link is held
\* with its type's).  A key that is taken, or a link without its type, fails the whole
\* transaction: the check logs it, the request answers 500, lifespan() ends and the
\* process starts anew.
InsertRows(r, t) ==
    LET new == restorer[r].rows
    IN /\ restorer[r].pc = "insert" /\ restorer[r].table = t
       /\ \A o \in AllRestorers \ {r} : Inserted(o, t) \cap new[t] = {}
       /\ \A q \in Requests : t \in request[q].rows => request[q].id \notin new[t]
       /\ restorer' = IF /\ new[t] \cap db[t] = {}
                         /\ t = "links" => new[t] \subseteq db["types"] \cup new["types"]
                      THEN [restorer EXCEPT ![r].pc = IF t = "types" THEN "count" ELSE "reset",
                                            ![r].table = "links"]
                      ELSE [restorer EXCEPT ![r] = IdleRestorer]
       /\ UNCHANGED <<rows, pending, fixed, files, marker, serving, dumper, behind>>

\* Mutant: the id sequences are left where they are.
X_NoReset(r) ==
    /\ restorer[r].pc = "reset"
    /\ restorer' = [restorer EXCEPT ![r].pc = "commit"]
    /\ UNCHANGED <<rows, pending, fixed, files, marker, serving, dumper, behind>>

\* Another transaction than that of r has an id of "types" it has not committed.
IdsHeld(r) == \/ \E q \in Requests : request[q].pc # "idle"
              \/ \E o \in AllRestorers \ {r} : Inserted(o, "types") # {}

\* _reset_id_sequences: setval(MAX(id)) of a restored table, over the rows that the
\* transaction sees, the committed ones and its own.  It takes effect at once.
ResetSequences(r) ==
    LET new == restorer[r].rows["types"]
    IN /\ restorer[r].pc = "reset"
       /\ nextId' = IF new = {} THEN nextId ELSE Highest(db["types"] \cup new)
       /\ overlapped' = IF new = {} THEN overlapped ELSE IdsHeld(r)
       /\ restorer' = [restorer EXCEPT ![r].pc = "commit"]
       /\ UNCHANGED <<db, request, pending, fixed, files, marker, serving, dumper, behind>>

\* The inserts are not made by the session's objects, so no write-triggered dump follows.
CommitRestore(r) ==
    LET new == restorer[r].rows
    IN /\ restorer[r].pc = "commit"
       /\ db' = [t \in Tables |-> db[t] \cup new[t]]
       /\ behind' = behind \cup {t \in Tables : new[t] # {}}
       /\ IF restorer[r].fromSql
          THEN restorer' = [restorer EXCEPT ![r] = Marking] /\ UNCHANGED serving
          ELSE Returned(r)
       /\ UNCHANGED <<nextId, request, overlapped, pending, fixed, files, marker, dumper>>

MarkApplied(r) ==
    /\ restorer[r].pc = "mark"
    /\ marker' = TRUE
    /\ Returned(r)
    /\ UNCHANGED <<rows, pending, fixed, files, dumper, behind>>

-----------------------------------------------------------------------------
(* The environment: time, lost data, lost processes, an unreachable MinIO *)

Tick == /\ now < MaxNow /\ now' = now + 1
        /\ UNCHANGED <<rows, pending, files, minioUp, marker, serving, dumper, restorer,
                       behind, events>>

Fault == events < MaxEvents /\ events' = events + 1 /\ UNCHANGED now

\* create_dump() raises: a SELECT, the write of the file, or an upload that MinIO refuses.
\* Both callers log it.  What the dump was begun for is noted no more.
DumpFails(d) ==
    /\ Fault
    /\ dumper[d].pc # "idle"
    /\ dumper' = Rested(d)
    /\ behind' = behind \cup dumper[d].owes
    /\ UNCHANGED <<rows, pending, files, minioUp, marker, serving, restorer>>

\* TRUNCATE links, or types CASCADE, waits for the rows a transaction has inserted.
LoseTables(t) ==
    /\ Fault
    /\ db[t] # {} /\ Uncommitted(t) = {} /\ Uncommitted("links") = {}
    /\ \A q \in Requests : request[q].pc = "idle"
    /\ db' = [u \in Tables |-> IF u = t \/ t = "types" THEN {} ELSE db[u]]
    /\ behind' = Tables
    /\ UNCHANGED <<nextId, request, overlapped, pending, files, minioUp, marker, serving, dumper,
                   restorer>>

\* The process ends, alone or with the volume of the backend or of the database.
Crash(volume) ==
    /\ Fault
    /\ serving' = FALSE
    /\ dirty' = {} /\ timer' = 0 /\ waiting' = FALSE
    /\ dumper' = [d \in Dumpers |-> IdleDumper]
    /\ restorer' = [r \in AllRestorers |-> IdleRestorer]
    /\ behind' = Tables
    /\ local' = IF volume = "backend" THEN NoDumps ELSE local
    /\ marker' = (marker /\ volume # "backend")
    /\ db' = IF volume = "database" THEN Nothing ELSE db
    /\ nextId' = IF volume = "database" THEN 0 ELSE nextId
    /\ request' = [q \in Requests |-> IdleRequest]
    /\ overlapped' = (overlapped /\ volume # "database")
    /\ UNCHANGED <<minio, minioUp>>

MinioDown == /\ minioUp /\ minioUp' = FALSE /\ Fault
             /\ UNCHANGED <<rows, pending, files, marker, serving, dumper, restorer, behind>>

MinioBack == /\ ~minioUp /\ minioUp' = TRUE
             /\ UNCHANGED <<rows, pending, now, files, marker, serving, dumper, restorer,
                            behind, events>>

DumpStep(d) == \/ \E t \in Tables : ReadTable(d, t)
               \/ WriteDump(d) \/ UploadDump(d) \/ RotateLocal(d) \/ RotateMinio(d)

RequestStep(q) == \/ \E linked \in BOOLEAN : InsertType(q, linked)
                  \/ \E flushed \in BOOLEAN : CommitCreate(q, flushed)
                  \/ RollbackCreate(q)

RestoreStep(r) == \/ FetchDumps(r) \/ OpenTransaction(r)
                  \/ \E t \in Tables : CountTable(r, t) \/ InsertRows(r, t)
                  \/ ResetSequences(r) \/ CommitRestore(r) \/ MarkApplied(r)

Next == \/ \E q \in Requests : TakeId(q) \/ RequestStep(q)
        \/ \E t \in Tables, i \in Ids, flushed \in BOOLEAN : Delete(i, t, flushed)
        \/ BeginFullDump \/ TimerFires \/ BeginWriteDump
        \/ \E d \in Dumpers : DumpStep(d) \/ DumpFails(d)
        \/ \E r \in AllRestorers : CheckForLoss(r) \/ StartRestore(r) \/ RestoreStep(r)
        \/ Tick \/ MinioDown \/ MinioBack
        \/ \E t \in Tables : LoseTables(t)
        \/ \E volume \in {"none", "backend", "database"} : Crash(volume)

\* The event loop runs every task that is ready, the integrity monitor is an
\* endless loop, transactions and threads end, and the process is started anew.
Fairness == /\ WF_bvars(StartRestore("boot") \/ RestoreStep("boot"))
            /\ \A r \in Restorers : WF_bvars((r = "monitor" /\ CheckForLoss(r)) \/ RestoreStep(r))
            /\ \A q \in Requests : WF_bvars(RequestStep(q))

Spec == Init /\ [][Next]_bvars /\ Fairness
-----------------------------------------------------------------------------
(* Properties *)

\* Every variable keeps its type.
TypeOK ==
    /\ db \in Contents /\ nextId \in 0..MaxId
    /\ request \in [Requests -> Request] /\ overlapped \in BOOLEAN
    /\ dirty \subseteq Tables /\ timer \in Stamps /\ waiting \in BOOLEAN /\ now \in Stamps
    /\ local \in Stores /\ minio \in Stores /\ minioUp \in BOOLEAN /\ marker \in BOOLEAN
    /\ serving \in BOOLEAN
    /\ dumper \in [Dumpers -> Dumper] /\ restorer \in [AllRestorers -> Restorer]
    /\ behind \subseteq Tables /\ events \in 0..MaxEvents

\* Once the write-triggered dump has ended, the newest local dump holds what the database
\* holds, although it read only the noted tables and carried the others over while the
\* scheduler wrote dumps of its own; but for the tables whose change the hooks missed, or
\* whose dump failed, until a full dump has read them (create_dump with tables=...,
\* backup.py:249-259).
NewestDumpIsCurrent ==
    (dirty = {} /\ dumper["write"].pc # "read" /\ DOMAIN local # {})
        => \A t \in Tables \ (behind \cup dumper["scheduler"].owes) :
              local[Highest(DOMAIN local)][t] = db[t]

\* No id the sequence gives, or has given to an INSERT that still runs, is taken by a row,
\* restored ones included (_reset_id_sequences, backup.py:229), unless the restore set the
\* sequence while another transaction had an id that MAX(id) does not see.
SequencesAhead ==
    ~overlapped => /\ \A i \in db["types"] : i <= nextId
                   /\ \A q \in Requests : request[q].pc = "insert" => request[q].id \notin db["types"]

\* The rows that restore_latest_dump would insert into t.
Found(t) ==
    LET dumps == Over(Fetched, IF Wiped THEN SqlFallback ELSE NoDumps)
        with == {s \in DOMAIN dumps : dumps[s][t] # {}}
    IN IF db[t] # {} \/ with = {} THEN {} ELSE dumps[Highest(with)][t]

\* A table that lost its rows gets rows back as long as a dump of the last HistoryDepth has
\* some for it, even when newer dumps were taken of the empty table, and even when the rows
\* they refer to were lost with them; but for links whose type neither the database nor the
\* dump that is used for the types has (restore_latest_dump, backup.py:388).
Restorable(t) ==
    /\ serving /\ AutoRestore /\ db[t] = {}
    /\ \E s \in DOMAIN Fetched : Fetched[s][t] # {}
    /\ Found("links") \subseteq db["types"] \cup Found("types")
LossRepaired == \A t \in Tables : []<>~Restorable(t)

\* Rotation removes dumps only when there are more than backup_retention_count
\* of them (BACKUP_RETENTION_COUNT=24 in .env.example).
RotationKeepsRetention ==
    [][\A d \in Dumpers : RotateLocal(d) =>
          (Cardinality(DOMAIN local) <= Retention => local' = local)]_bvars
=============================================================================
