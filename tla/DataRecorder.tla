----------------------------- MODULE DataRecorder -----------------------------
(***************************************************************************)
(* drone_control/data_recorder.py inside the lifespan() of main.py: what   *)
(* the process starts before it serves, the secondary services started one *)
(* after the other, the telemetry buffered between flushes, and shutdown.  *)
(*                                                                         *)
(* A frame is the reading of a drone with the order it was recorded in.    *)
(***************************************************************************)
EXTENDS Integers

CONSTANTS RecDrones,    \* drone ids
          Readings,     \* the values of _COMPARE_FIELDS
          MaxHistory,   \* MAX_PENDING_HISTORY
          MaxRecords,   \* bound: readings recorded
          MaxEnds       \* bound: times the process ends

ASSUME RecorderAssumption == MaxHistory \in Nat /\ MaxRecords \in Nat /\ MaxEnds \in Nat

VARIABLES stage,      \* where lifespan() is; "down" without a process
          secondary,  \* what initialize_secondary_services() starts next
          last,       \* _last
          pending,    \* _pending_frames and _pending_gauges
          history,    \* the length of _pending_history
          flusher,    \* where _flush_loop() is
          batch,      \* the frames and the history rows of the transaction under way
          rowsOf,     \* the telemetry and telemetry_gauges row of each drone
          stored,     \* rows of telemetry_history
          missed,     \* history: drones whose last frame a flush has lost
          dropped,    \* history: history rows lost
          records,    \* readings that were recorded
          ends        \* times the process has ended

recvars == <<stage, secondary, last, pending, history, flusher, batch, rowsOf, stored,
             missed, dropped, records, ends>>
memory == <<last, pending, history>>
tables == <<rowsOf, stored>>
counters == <<records, ends>>

Services == <<"broker", "bucket", "recorder", "feed", "index">>
Stages == {"down", "connect", "restore", "seed", "serve", "stopping", "final", "closing"}
Frame == [at : 1..MaxRecords, reading : Readings]
Frames == UNION {[D -> Frame] : D \in SUBSET RecDrones}
NoFrame == [d \in {} |-> 0]
EmptyBatch == [frames |-> NoFrame, history |-> 0]
Upserted(new, old) == [d \in DOMAIN new \cup DOMAIN old |->
                         IF d \in DOMAIN new THEN new[d] ELSE old[d]]

RecorderInit == /\ stage = "down" /\ secondary = 0
                /\ last = NoFrame /\ pending = NoFrame /\ history = 0
                /\ flusher = "off" /\ batch = EmptyBatch
                /\ rowsOf = NoFrame /\ stored = 0
                /\ missed = {} /\ dropped = 0 /\ records = 0 /\ ends = 0

-----------------------------------------------------------------------------
(* lifespan() *)

Boots == /\ stage = "down"
         /\ stage' = "connect"
         /\ UNCHANGED <<secondary, memory, flusher, batch, tables, missed, dropped, counters>>

\* Both databases answer within ten attempts, restore_all() returns and the first
\* account exists: requests are served and the secondary services begin to start.
\* Anything that raises on the way ends the process.
StartsUp == /\ stage \in {"connect", "restore", "seed"}
            /\ stage' = CASE stage = "connect" -> "restore"
                          [] stage = "restore" -> "seed"
                          [] OTHER -> "serve"
            /\ secondary' = IF stage = "seed" THEN 1 ELSE 0
            /\ UNCHANGED <<memory, flusher, batch, tables, missed, dropped, counters>>

\* init_rabbitmq() swallows its failure, the others end the sequence: what comes
\* after them stays off.  data_recorder.start() begins the flush loop.
ServiceStarts(up) ==
    /\ stage = "serve" /\ secondary \in 1..5
    /\ ~up => Services[secondary] # "broker"
    /\ secondary' = IF up THEN secondary + 1 ELSE 7
    /\ flusher' = IF up /\ Services[secondary] = "recorder" THEN "sleep" ELSE flusher
    /\ UNCHANGED <<stage, memory, batch, tables, missed, dropped, counters>>

-----------------------------------------------------------------------------
(* record() and _flush() *)

\* A StateManager listener: an unchanged reading is skipped; the history has a cap.
Record(d, r) ==
    LET f == [at |-> records + 1, reading |-> r]
        same == d \in DOMAIN last /\ last[d].reading = r
        new == [x \in {d} |-> f]
    IN /\ stage \in {"serve", "stopping", "final", "closing"} /\ records < MaxRecords /\ ~same
       /\ records' = records + 1
       /\ last' = Upserted(new, last) /\ pending' = Upserted(new, pending)
       /\ history' = IF history < MaxHistory THEN history + 1 ELSE history
       /\ dropped' = IF history < MaxHistory THEN dropped ELSE dropped + 1
       /\ missed' = missed \ {d}
       /\ UNCHANGED <<stage, secondary, flusher, batch, tables, ends>>

\* Mutant: what is taken stays in the buffers.
X_TakesLater ==
    /\ \/ flusher = "sleep" /\ flusher' = "write" /\ UNCHANGED stage
       \/ stage = "final" /\ flusher = "off" /\ flusher' = "finish" /\ UNCHANGED stage
    /\ pending # NoFrame \/ history > 0
    /\ batch' = [frames |-> pending, history |-> history]
    /\ UNCHANGED <<secondary, memory, tables, missed, dropped, counters>>

\* Everything buffered is taken before the transaction begins.
FlushTakes ==
    /\ \/ flusher = "sleep" /\ flusher' = "write" /\ UNCHANGED stage
       \/ stage = "final" /\ flusher = "off" /\ flusher' = "finish" /\ UNCHANGED stage
    /\ pending # NoFrame \/ history > 0
    /\ batch' = [frames |-> pending, history |-> history]
    /\ pending' = NoFrame /\ history' = 0
    /\ UNCHANGED <<secondary, last, tables, missed, dropped, counters>>

\* One transaction: all of the batch or, with a logged error, nothing of it.
BatchEnds(ok) ==
    /\ batch' = EmptyBatch
    /\ IF ok THEN /\ rowsOf' = Upserted(batch.frames, rowsOf)
                  /\ stored' = stored + batch.history
                  /\ UNCHANGED <<missed, dropped>>
       ELSE /\ missed' = missed \cup {d \in DOMAIN batch.frames : d \notin DOMAIN pending}
            /\ dropped' = dropped + batch.history
            /\ UNCHANGED tables

FlushEnds(ok) ==
    /\ flusher = "write" /\ flusher' = "sleep"
    /\ BatchEnds(ok)
    /\ UNCHANGED <<stage, secondary, memory, counters>>

-----------------------------------------------------------------------------
(* Shutdown *)

\* The background tasks are cancelled, the secondary services first of all.
ShutsDown == /\ stage = "serve" /\ ends < MaxEnds
             /\ stage' = "stopping" /\ secondary' = 7
             /\ UNCHANGED <<memory, flusher, batch, tables, missed, dropped, counters>>

\* data_recorder.stop(): a transaction under way is rolled back, or was committed
\* before the cancellation reached it; one more flush follows.
StopsRecorder(ok) ==
    /\ stage = "stopping" /\ stage' = "final"
    /\ flusher' = "off"
    /\ BatchEnds(ok)
    /\ UNCHANGED <<secondary, memory, counters>>

Recorded(ok) ==
    /\ stage = "final" /\ stage' = "closing"
    /\ flusher = "off" => pending = NoFrame /\ history = 0
    /\ flusher' = "off" /\ BatchEnds(ok)
    /\ last' = NoFrame
    /\ UNCHANGED <<secondary, pending, history, counters>>

\* The process ends, after its shutdown or at any moment, with what it buffered.
ProcessEnds ==
    /\ stage # "down" /\ stage' = "down" /\ secondary' = 0
    /\ ends < MaxEnds /\ ends' = ends + 1
    /\ last' = NoFrame /\ pending' = NoFrame /\ history' = 0
    /\ flusher' = "off" /\ batch' = EmptyBatch
    /\ missed' = {} /\ dropped' = dropped + history + batch.history
    /\ UNCHANGED <<tables, records>>

RecorderNext ==
    \/ Boots \/ StartsUp \/ ShutsDown \/ FlushTakes \/ ProcessEnds
    \/ \E ok \in BOOLEAN : ServiceStarts(ok) \/ FlushEnds(ok) \/ StopsRecorder(ok) \/ Recorded(ok)
    \/ \E d \in RecDrones, r \in Readings : Record(d, r)
RecorderSpec == RecorderInit /\ [][RecorderNext]_recvars

-----------------------------------------------------------------------------
(* Properties *)

\* Every variable keeps its type; the history buffer keeps its cap, and the flush
\* loop runs only when every secondary service before it has started.
RecorderTypeOK ==
    /\ stage \in Stages /\ secondary \in 0..7
    /\ last \in Frames /\ pending \in Frames /\ rowsOf \in Frames
    /\ history \in 0..MaxHistory
    /\ batch.frames \in Frames /\ batch.history \in 0..MaxHistory
    /\ flusher \in {"off", "sleep", "write", "finish"}
    /\ flusher \in {"sleep", "write"} => stage \in {"serve", "stopping"} /\ secondary > 3
    /\ missed \subseteq RecDrones
    /\ records \in 0..MaxRecords /\ ends \in 0..MaxEnds

\* The last reading of a drone is in its row, on its way there, or its flush was
\* reported lost; a row never overtakes what is still on the way, and every history
\* row is counted once (_flush and record, data_recorder.py).
RecorderLosesNothing ==
    /\ \A d \in DOMAIN last :
          \/ d \in missed
          \/ \E fs \in {rowsOf, batch.frames, pending} : d \in DOMAIN fs /\ fs[d] = last[d]
    /\ \A d \in DOMAIN pending :
          \A fs \in {rowsOf, batch.frames} : d \in DOMAIN fs => fs[d].at < pending[d].at
    /\ \A d \in DOMAIN batch.frames : d \in DOMAIN rowsOf => rowsOf[d].at < batch.frames[d].at
    /\ stored + dropped + history + batch.history = records
=============================================================================
