# TLA+ models of Drone-Arjuna

Drone-Arjuna is a ground station: a FastAPI backend that talks MAVLink to drones,
plans and uploads missions, watches geofences and health, records telemetry and
simulates flights, with a React frontend.  This directory holds TLA+ models of its
core logic, TLC configurations that check them on small instances, and proofs that
TLAPS checks for every value of the constants.

`tlc -config <run>.cfg MC<Module>` repeats a run, `tlapm <Proofs>.tla` the proofs of a module in the table of section 2.

## 1. Inventory

Paths are below `src/backend/app/modules/` unless they start with `app/` (`src/backend/app/`).

| Part | State it keeps | Operations | What is hard about it |
|---|---|---|---|
| `MAVLinkManager` (`drone_control/mavlink_manager.py`) | `_connections`, `_connect_locks`, `operator_disconnected`; per connection: link, reader task, home updater, controller, `connected`, `uploaded_mission_id` | `connect`, `disconnect`, `_read_loop`, `attach_/detach_simulation`, `send_command`, the RTL consumer | candidates race to one registry entry; a reader acts on the registry after an await; cancellation anywhere |
| Auto-connector (`auto_connector.py`) | failure counts and cooldowns; the running rounds | list, probe all candidates at once, cancel the losers, retry every 15 s | acts on a list that is already old; cancels coroutines whose threads go on |
| `CommandController` (`command_controller.py`) | `_pending` Futures by MAVLink command id, `_history` | `send`, `handle_ack` | two calls with one id; lost and late ACKs; retries of executed commands |
| Mission upload (`drone_flight/mission_planner.py`) | `uploaded_mission_id`, `io_lock`; in the vehicle: the stored mission | `upload_to_drone`, `upload_live_waypoints`, `_send_mission_items` | threads, coroutines and transactions overlap; transfers fail half-way |
| Missions API (`drone_flight/router.py`) | Mission and Waypoint rows, status | create, edit, delete, status, upload, live sync | an edit must revoke an upload that may be running |
| Geofence store (`app/utils/geofence.py`) and breach handling (`telemetry_processor.py`, `mavlink_manager.py`, `app/core/events.py`) | fence, enforcement flag, `_breaching`, the broker's queue | set, clear, edge-triggered check, publish, consume, send RTL | the edge is spent before the event is out; state outlives connections; the broker may be down |
| Simulated flights (`mission_simulator.py`) | one task per drone, its phase, `_flights` | start, command, tick, stop | share the registry entry with real links; restart while stopping |
| `StateManager` (`state_manager.py`) | telemetry by drone, listeners | `update`, `init_drone`, `remove_drone` | listeners run in sequence with awaits; entries vanish under an update |
| Health monitor, black box, proximity (`health_monitor.py`, `blackbox.py`, `proximity_monitor.py`) | alerts fired per drone | evaluate on each update | marks an alert after the awaits that send it; two updates overlap |
| Data recorder (`data_recorder.py`) and startup (`app/main.py`) | pending frames, gauges, history; which services have started | record, flush loop, start, stop | writes fail; the backlog is bounded; services start one after the other in one `try` |
| HF link adapters (`hf_link_adapter.py`) | one adapter per HF drone, its tier queues | filter, tick | the registry is keyed by drone, shared by racing calls; tiers share one budget |
| Broadcaster (`mavlink_broadcaster.py`) | one UDP link per simulated flight | send on a thread, remove | a late send opens a removed link again |
| Telemetry stream (`router.py`, `ConnectionManager`) | a bounded queue per WebSocket | subscribe, broadcast, drain, ping | frames and pongs share the queue; dictionaries of ended sessions |
| Payload camera (`payload_camera.py`) | one capture session and thread per source, a queue per viewer | view, capture, stop | a stopped thread still holds the device; thread and event loop |
| Drone master and inventory (`drone_master/`, `drone_inventory/`) | types, drones, vessels, payloads, threats, templates, links | register, update, archive, delete, link, plan | checks and writes of overlapping requests; few foreign keys |
| Accounts, access requests (`app/core/auth.py`) | accounts, requests, passwords, tokens, attempts | submit, accept, reject, resend, set and reset a password | the review and the mail that tells its result; two calls about one username |
| Audit log (`app/core/security.py`) | hash-chained rows | append, verify | two appends on one predecessor; the caller's session is committed or rolled back by it |
| Backup and integrity (`app/core/backup.py`) | dumps on disk and in MinIO, noted tables, timer | full and debounced dump, rotate, check, restore | debounce; two dumps of one second; restoring while the service writes; crashes |
| HF feed (`app/core/hf_feed.py`) and home points (`state_manager.py`) | the last fix in Redis | ingest, plausibility check, poll, send home | ingests overlap; a read may fail; values expire |
| Fleet planner (`drone_flight/fleet_router.py`) | none | decompose, QUBO, solve | penalties and budgets at their limits |
| Serial bridge (`src/com_bridge/com_bridge.py`) | the open port, the single client | open, pipe, disconnect | threads of an old client close a new port |
| Knowledge base, airspace, terrain, storage, search, e-mail, frontend | rows, files, geometry | queries and input/output | little shared state |

Interactions: HTTP handlers and the auto-connector call `MAVLinkManager`; its readers call
`TelemetryProcessor`, which updates `StateManager` (whose listeners are the health monitor,
the recorder, the black box and the WebSocket fan-out) and hands ACKs to `CommandController`;
uploads and the AUTO check share `DroneConnection.uploaded_mission_id`; a breach travels over
RabbitMQ back to `MAVLinkManager.send_command`; simulated flights register themselves in
the same `_connections` and `StateManager`.

Everything but executor threads, capture threads, the bridge and the broker runs on one asyncio event loop.
So an action of a model is what a coroutine does between two suspension points, and an
executor call is two steps: the thread's effect, and the resumption of the coroutine.

## 2. Modules

| Module | Models | Proofs |
|---|---|---|
| `MavlinkManager` | the registry entry of one drone: `connect`, `disconnect`, `_read_loop`, simulated flights, probing rounds, `archive` | `MavlinkManagerProofs` |
| `CommandController` | `send`, `_await_ack`, `handle_ack` over a lossy, delaying, reordering radio | `CommandControllerProofs` |
| `MissionUpload` | uploads, live syncs, edits, deletions, geofence arming, the AUTO check | `MissionUploadProofs` |
| `MissionTransfer` | the item protocol of `_send_mission_items`, upload after upload over one lossy link | `DroneFlightProofs` |
| `TelemetryPipeline` | `StateManager.update` and its listeners (health monitor, black box), the geofence check, the event bus and the RTL consumer, session after session | `TelemetryPipelineProofs` |
| `MissionStore` | abstract: an accepted upload is what the vehicle stores until the next one begins | |
| `SimulatedFlight` | the phases of simulated flights, their command queue, the broadcast link, avoidance, the fence and the way home | `DroneFlightProofs` |
| `Backup` | scheduled and write-triggered dumps, rotation, loss check, restore, crashes | `BackupProofs` |
| `DataRecorder` | buffers and flushes of the recorder inside the startup and shutdown of the process | `StationProofs` |
| `ComBridge` | the port watcher, the client slot and the pipe threads of the serial bridge | `StationProofs` |
| `FleetRegistry` | the rows of drone master and inventory under overlapping requests | `FleetProofs` |
| `Accounts` | access requests, accounts, passwords and the audit trail | `StationProofs` |
| `FleetPlanner` | decomposition, QUBO, Ising form and exact solution of a fleet assignment | `FleetProofs` |
| `VesselFeed` | NMEA datagrams, the fix in Redis, the home points | `StationProofs` |
| `LiveStream` | notifications, queues and WebSockets of the telemetry stream | `StationProofs` |
| `PayloadCamera` | capture sessions, their threads and viewers | `StationProofs` |

`MC<Module>` adds the symmetry set or the constants for TLC.  `MCStation` holds the eight parts that share
no state with the others or each other; `focus` picks the one that runs in a behaviour, so they share a run and
are not composed.  Definitions that follow the
comment "Mutant" (`X_Something`, or the name of what they vary with a suffix) are faulty variants: each property is known to fail under one of them.

### MavlinkManager

One drone is enough: all state is keyed by `drone_id` and no operation touches another key.
A member of `Conns` is one call of `connect()` and the `DroneConnection` it creates; `attempt`
is where the call is suspended (`opening`, `heartbeat`, `streams`: its three executor calls)
or how it returned.  `registered` is `_connections.get(drone_id)`, `reader`/`serves` the reader
task and the connection it captured, `hfRegistry` and `adapter` the HF registry entry and
`conn.hf_adapter`.  A member of `Rounds` is a call of `_connect_drone`; `Sims` are simulated
flights, whose `attach_simulation` entries live in the same registry.

The connect lock is not modelled because what it protects never suspends (`get_redis()` returns
a pool without I/O), so no other coroutine can run inside it.  `disconnect()` does not suspend
either: it is one action.  `task.cancel()` is: a task that never ran ends at once; any other gets
its `CancelledError` in a later step (`ReaderCancelled`, `FlightCancelled`), and between the two
anything may happen.  Losing probes are cancelled in the step that ends their round: from then
on they only close their link.

### CommandController

`phase` is where `send()` is suspended: in its dispatch thread, before its Future is registered,
waiting, or in the grace period of a command that has no ACK.  `pending` is `_pending`, `fut`
the value a Future holds between `handle_ack()` and the resumption.  `uplink` and `downlink` are
sets of messages, so any order and any delay is possible, and `Lose` drops them.  What the vehicle
does is external: it refuses a command or executes it, and acknowledges those with an id.
Command parameters are reduced to well-formed or not, the cached state to armed and fit to arm; a battery not reported yet makes
`_validate` raise for `arm` (`Raises`): the call ends without a record.

### MissionUpload

`phase` follows an upload: `read` (its rows), `armed` (its fence), `queued` and `transferring` (its thread), `stored` or `failed`,
`recorded` (its mission is on record, its transaction open), `unsaved` (that was rolled back), `returned`.  A live sync starts at `queued`.
`plan[m]` is what is committed: a revision number, bounded by `MaxEdits`; the shape of the geofence: none, a polygon, or a
geometry `set_geofence()` rejects; the vessel the mission starts from, if any, and where its home waypoint is.  An upload that starts from a vessel
moves that waypoint to where the vessel is (`UploadQueued`), commits the move when the request ends (`UploadEnds`), and is refused
while the vessel's position is unknown.  The refusal comes after its fence was armed and before the earlier upload is revoked; `astray` is its history.
An edit is two steps, the handler (which revokes) and the commit of its transaction at the end of
the request.  A transfer is atomic when it succeeds, and may leave the old mission, the new one or a
mixture when it fails.  `status` keeps the distinctions the handlers make.

### MissionTransfer

A member of `Transfers` is a call of `_send_mission_items`; `io_lock` lets one run at a time.  `count`
is `len(items)`, `sent` the local set of that name, `phase` how the call ended (`mismatch`: a
`RuntimeError` for a request out of range or an early acceptance).  The two directions of the link are
FIFO sequences of at most `MaxWire` messages: a message may be lost when it is sent and
delivered as late as one likes, so the deadline may fire with messages still under way.  Between uploads
`ReaderTakes` is the telemetry reader, which drops what it does not handle.  The vehicle is external:
it asks for items in order, repeats a request, refuses items out of sequence, refuses or abandons
an upload, and starts over when a new `MISSION_COUNT` arrives; items are stored in place.  The effect of
`MISSION_SET_CURRENT` is not modelled.  `startedOn` is history: what an upload found when it began:
messages under way (`busy`), none but a vehicle waiting for items (`quiet`), or neither (`idle`).
`Store` maps this state to `MissionStore`: `claim` is the accepted upload, unless it began on a busy
link, and `holds` the upload whose complete mission is on board.  It is what justifies the atomic
transfer of `MissionUpload`.

### TelemetryPipeline

One drone; a member of `Sessions` is one registration of it (its dictionary in `StateManager` and its reader
task), a member of `Neighbours` the task of another drone whose updates change this one's proximity fields
and so call its listeners.  `loop` names the task that holds the event loop, `at` where a task is; the
places in `Awaiting` are those where it has given the loop up: the listeners of another drone, the
sending of an alert, an `INSERT` of the black box, a publication.  `target` is the dictionary a notification
captured, which may be one that has been removed since.  `fired`, `active` and `breaching` are the marks of the
health monitor, the black box and the geofence check; `events` is the durable queue of the RTL consumer.
A state dictionary is reduced to the battery, as far as the listeners tell it apart, and to
`geofence_breach`; of the black box's issues `battery_critical` and `geofence_breach` are kept, one with a
hysteresis and one without.  Cancellation reaches a reader where it awaits, and a publication cancelled
under way may be through or not.  A battery that was never reported (`"none"`) makes the health monitor raise: the notification ends
there, the black box is not reached, and neither is the geofence check (`HealthRaises`); a notification of the drone's neighbours that raises ends the
update too (`OthersRaise`).  The reader catches it and goes on.  `open`, `stale` and `outcome` are history.

### SimulatedFlight

A flight moves along a row of cells, one cell a tick, at height 0 (ground), 1 (route) or 2 (borrowed from
collision avoidance); two flights in one cell at one height are in conflict.  `sim` is the `_SimulatedFlight`, `loop` the
await its `_run()` is at (the sleep before a tick, the update in `_push()`, the publication of a breach or of a
recovery, the three seconds after landing), `profile` the extra push of a flight-profile command, which runs
beside the loop.  `queue` is `_cmds`, `links` the open broadcast links; what an external station has sent is drained
in `Pushed`.  An error in a push (a listener, the link, the fence, the publication) skips its rest; `_run()` logs it and the flight
goes on (`PushFails`).  `ignored` is history: a flight is outside its fence and nothing is to turn it home, because the
breach was noticed in a phase that does not turn, a command resumed the route out there, or a push was cut short.

### Backup

`types` and `links` stand for the tables, one of them referring to the other; the one sequence modelled is that of `types`.
A store of dumps is a function from the second a dump was begun in, which names it, to what it holds.  `request` are the transactions of handlers that
create a type, with or without a link: the INSERT takes an id of the sequence (`TakeId`), waits for whoever holds the key and fails if it is taken (`InsertType`), and
the commit or rollback comes when the request ends.  `dumper` is the dump under way of the scheduler and of
the debounced writer: read table by table, written, uploaded, rotated on disk and in MinIO, each a step of its own, and each may fail (`DumpFails`): both
callers log the exception, and the tables the dump was for are not noted again.  `restorer` are the transactions of the startup restore, the integrity monitor
and an operator.  A restore sets the sequence from the rows it sees, its own and the committed ones, in a step of its own; the setting is not
transactional.  `overlapped` is the history that another transaction held an id then.

The `flushed` parameter of a commit says that the handler called `flush()` before: nothing is new or dirty
when `_on_before_commit` looks, so no dump is scheduled, although the comment says "Any commit that changed rows schedules
a debounced dump" (`backup.py:641`).  `behind` is the history of the tables with a change no dump is going to read: the hooks missed it, its dump failed, or a dump of
the same second replaced its file.  A full dump reads them (`create_dump`: "also self-heals", `backup.py:257-258`).
A crash loses the process, with or without the backend's volume or the database; a startup restore that fails ends `lifespan()`, and the process starts again.

### DataRecorder

`stage` and `secondary` are where `lifespan()` and its chain of secondary services are; the recorder is the fourth of them,
after the broker, the bucket and the feed.  A frame is a reading with the order it was recorded in.  `batch` is what the transaction under way holds;
`FlushEnds(FALSE)` is a failed one, which loses what it took;
`missed` and `dropped` count the losses.

### ComBridge

A handle is one `serial.Serial`; `opened` and `live` say whether it is open and its device still plugged in.  A
connection's thread claims the slot, captures the handle, starts the two pipes and waits.  A pipe that fails calls
`mark_disconnected()`, which closes whatever port is installed by then (`PipeMarks`), and one that ends sets `stop`.  A
`recv()` that is blocked outlives the connection, so a chunk may arrive late (`LateChunk`).

### FleetRegistry

A request is two steps: its checks (`AsksOf...`), which read other requests' commits only, and its writes with the
commit (`Writes...`).  Whoever checks something records what it saw in `asked`.  `crossed` is the history that two
requests overlapped, `unchecked` the rows that were written from a value nobody checks (the type an update names,
a system id past MAVLink's byte, a mission for a drone that is archived).  Foreign keys protect links only.
A mission is reduced to the drone it is for, which an edit may change; `NoRow` is a mission that has none or was deleted.
The registry starts bare, with one row of each kind, or stocked, with everything it can refer to.

### Accounts

A call of a handler goes `checked`, `flushed`, `logged`, replied, and its mail arrives later; the middleware's record
of the same request is written afterwards in a session of its own.  A password is named by the call that set it, `known` is
what its owner was told last.  `AuditLogger.log` commits the session of its caller, and rolls it back
when the record fails: the change is undone and the handler answers success (`lost`).  `contested` are usernames two calls were about
at a time.  `trail` is the table; a record is appended under an advisory lock.

### FleetPlanner

A request picks distances, a budget and the solver; `Decomposes` splits it, `SolvesNext` answers one sub-problem with any
sampled vector, or with the best one for the exact solver.  `Energy` is the QUBO with its `Penalty`, `Ising` the
spin form of the same (four times the energy, up to a constant).

### VesselFeed

Positions are places on a line and a tick is a second; the TTL and the polling interval are scaled to 2 and 1.  `fix` is
the Redis entry with its age and its time to live.  An ingest reads the last position (a read that fails skips the plausibility check), and
stores its own in a later step.  The updater of each drone polls, and sends.

### LiveStream

`notifier` names the dictionary a notification found: the drone's own reports and a neighbour that leaves both make
one.  A browser's queue holds at most `QueueSize` frames and pongs; a drain takes the last of them, and a frame is the
dictionary when it is sent.  `passed` is the history that the newest state was dropped, superseded by a pong, or
overtaken by the dictionary of an ended session.

### PayloadCamera

One source with its candidate addresses.  `capture` are the sessions with their threads: `entry` names the one that
is listed, a stopped one may still be opening or hold the device, which is exclusive (`holder`).  Each viewer has the frames
that were scheduled on the event loop and those in its queue.

## 3. Runs

| Run | Instance | Shows |
|---|---|---|
| `mavlink_links` | 2 calls, 1 round, no flights | registered links are served, state store and registry agree, nobody is overwritten; dead links are removed, calls return |
| `mavlink_simulation` | 1 call, 2 flights | the same registry with simulated flights and removal of the drone: stop requests return |
| `command` | 2 calls; arm, rtl, unknown; battery good, bad or unreported; 2 attempts; history of 1 | no abandoned Future, acceptances are backed, every call returns |
| `upload` | 1 upload, 1 live sync, 1 edit, 2 links | the record is backed by an acknowledged transfer of that link, requests return |
| `upload_sequential` | 2 missions (1 edited), 2 uploads, 1 live sync, 1 AUTO request, 1 vessel; one planner request at a time | what AUTO is authorised for is on board in its saved revision, and the fence is its own, unless a refused upload left another |
| `transfer` | 2 uploads of 1 to 3 items, 3 messages each way | an accepted upload that found no messages under way is on board, complete and unmixed; repeated requests and late copies never fail an upload |
| `telemetry` | 2 sessions, 1 neighbour, battery good, urgent or unreported, no, an enforced or an advisory fence, 1 event, RabbitMQ may fail | one row per edge of an issue, the black box agrees with the session, a shown breach clears, a breach is announced or its loss explained |
| `flights` | 2 flights, 4 cells, 13 orders and 3 external commands, 4 events, failing pushes | a breach on the route turns the drone home; a drone that returns lands, unless traffic holds it off; borrowed height is bounded |
| `backup` | 2 ids, 1 handler's transaction, the integrity monitor, retention 2, 3 seconds, 2 commits or faults, `.sql` file | the newest dump holds every change that was noted and whose dump did not fail; ids stay ahead unless a restore overlapped an insert; a lost table gets rows back |
| `station` | the eight parts of `MCStation` | bridge: slots and ports come back; recorder: nothing is lost silently or overtaken; registry: references hold; accounts: chain, reviews and passwords agree; planner: least energy is the best assignment; feed: home points end up at the vessel; stream: browsers end up with the newest state; camera: viewers who stay are served |
| `mavlink_stale_reader` | finding | the reader of a closed link unregisters the next one |
| `backup_rotation` | finding | rotation deletes dumps while there are fewer than the retention count |

Bounds.  Every defect these models show needs two connections at most: the one that leaves and
the one that arrives; two flights give the restart of one by the other; two calls of `send()` give
every collision, and two attempts a retry racing a late ACK.  One edit distinguishes old and new
revision.  An upload of items is judged by what it finds on the link and on board, which one earlier
upload can produce in every form (three uploads of up to two items were also checked); three items are the
fewest with a first, an inner and a last one.  Two sessions give every
hand-over of marks from one to the next, one neighbour every overlap of two evaluations, and one queued
event an event older than the current breach (a publisher waits while the queue is full).  The battery
readings left out differ from those kept only in which listener acts; the run leaves them out for size, the proofs do not.  Its `VIEW` identifies
states that differ only in what no later step and no invariant reads: dictionaries that are not referred to any more, and where exactly a cancelled reader awaits.
So it is with the bounds of the upload runs:
`Edited`, `Statuses` and `Shapes` keep out edits of the second mission, a status change beside `upload_sequential`, and rejected
geometries, which the theorems cover.  Symmetry is used only in runs without liveness.

Four cells hold a fence, its edge and two cells outside; four events are enough to take off, leave the route, resume it and
be told home.  Two commits or faults and three seconds let a commit fall into every gap of a dump, a restore
and its repetition; retention 2 is the least that rotates and keeps an older dump.  An INSERT that meets a row with its id needs a third event (a row,
its dump and loss, a new row beside the restore): there the theorem is the evidence.  Two overlapping
requests (`MaxCommits` 2), from a bare and from a stocked registry, are every pair of requests on one row or two; two
calls and two access requests for one username every contested review.  Up to 3 drones and targets with at most 4 bits, distances 0 to 2 and
budgets below and above a sub-problem give ties, idle drones, an unserved target and a split.  Two ingests make an old position
overwrite a newer one; a queue of 2 is the real structure with both overflows; two lives a late notification; two
viewers, two threads and two addresses the overlap of a stopped and a new capture; one unplugging and two callers a pipe of the
old port beside the new one.

Fairness.  Weak fairness is assumed of what the event loop and the executor owe: a suspended call
whose thread ends or whose timer fires is resumed (`connect()` is bounded by its heartbeat timeout, the
transfer by its deadline of `max(20, 3 * items)` seconds, `_await_ack` by `ACK_TIMEOUT_S`), a ready task runs,
a reader notices silence after `link_timeout_s`.  Operators, vehicles and radios owe nothing.  In the later modules:
threads of the bridge run (`read()` times out, the watcher is a loop), but no peer has to hang up or a send to
fail; a flight ticks and its updates and publications end; the process is started again after a crash, restores go on and the integrity
monitor checks, while dumps owe nothing; the receiver of the vessel keeps reporting, and Redis and the drone's link do not fail *every*
time they are needed, the one place with strong fairness; a browser that stays takes what it is sent; capture threads
and the event loop run.  The camera and the port owe nothing: the liveness properties assume the device answers.

`upload_sequential` restricts the steps to one planner request at a time, because with an edit
during an upload the record can name an older revision than the saved one: the code has no
guard against it and no document claims one.

## 4. Findings

Each `violation` run checks a sentence of the documentation, of a comment or of the configuration that the code does
not keep; `PROJECT.json` quotes the lines and tells the counterexample.  Other sentences and the code
disagree in ways the models contain, and that need no run of their own:

- "a deliberate Disconnect sticks" (`auto_connector.py:259`): a round that listed the drone before still connects it (`:337`).
- `MAVLink-Communication.md:122-124` on the collision guard: two commands with one id pass it when both dispatch before either waits (`command_controller.py:91`).
- "must never satisfy the backend AUTO authorization check" (`mission_planner.py:548-549`): the id is cleared only when the transfer has returned (`:550`), so a draft is on board while AUTO is authorised, and stays so if the transfer failed late.
- A breach whose announcement was cancelled is not announced again (`telemetry_processor.py:100`), against "On breach the TelemetryProcessor automatically dispatches RTL" (`router.py:480`).
- LOITER "intentionally holds position" (`mission_simulator.py:678`): collision avoidance moves a loitering drone aside, and gives borrowed height back (`:147`).
- "never arm a fence that will RTL the drone mid-mission for simply flying the waypoints" (`drone_flight/router.py:823-825`): only the waypoints are checked, and a drone launched outside the fence is sent home by the RTL consumer.
- "Never raises — audit failure must not block the main operation" (`security.py:424`): its rollback takes the caller's change with it, and the reply says success.
- "Unique name (active templates only...)" (`drone_master/service.py:413`) is checked against a column that is unique over all; "Called on both create and update" (`:346-347`) is not so for an update with only `drone_type_id`; `mavlink_system_id` is unique by `:198-201`, not by `update()` or concurrent requests.
- "the move from the previous accepted position does not imply an impossible speed" (`hf_feed.py:62-65`): two ingests overlap, the times are equal, or the read fails.
- "Drains the queue and writes the latest frame to the WebSocket" (`telemetry_stream`): a pong queued last supersedes the frame; a full queue makes the pong's `put_nowait` raise and closes the connection.
- "One capture thread per distinct source" (`payload_camera.py`): a stopped thread overlaps the new one.
- `<= qubit_budget` (`fleet_router.py`): a budget of 1 gives sub-problems of 2 qubits (`:279-280`).
- "Started by drone_control events on app startup" (`hf_link_adapter.py:220`): nothing starts it; nothing calls `vessel_position_feed` or `record_battery_snapshot` either.
- "Any commit that changed rows" (`backup.py:641`): see Backup above.
- "Advance integer id sequences" (`backup.py:230`): `setval(MAX(id))` also sets one back, behind ids that open transactions hold.
- "cannot archive a type while active drone instances reference it" (`drone_master/service.py:11-12`): `archive()` of a type (`:94`) deletes its drones with it.

Behaviour that the models
also show, without a sentence that excludes it: an upload that is refused with a 503 because its vessel has no position (`mission_planner.py:476-488`) leaves its
fence armed and the earlier mission authorised, one request at a time, so that mission then flies under the other's fence (`astray` in
`FenceIsUploaded`; without it the run ends in a counterexample of twelve states); the health monitor compares an unreported battery with a number and raises (`health_monitor.py:46`), and until
the battery is reported no update of the drone reaches the black box or the fence; a dump of the database that failed leaves the tables it was for out of the next write-triggered
one (`backup.py:662`); a restore beside an open transaction may set the sequence behind that transaction's row, and a later INSERT fails; a call that loses the race removes the HF
registry entry the winner uses; the unclean exit of a reader leaves the home updater running; a call
cancelled while its thread opens the link leaves that link open; two simultaneous simulation
requests for one drone leave the second flight unregistered; a late ACK may be credited to another
call with the same id; an upload that begins while requests of an abandoned one are under way, and
whose `MISSION_COUNT` is lost, may be accepted although the vehicle holds items of both (the messages
carry nothing that tells uploads apart); the collision guard also refuses an `emergency_stop` while another waits;
removing a drone pops its live connection from the registry before `disconnect()` looks for it, so
the link stays open; `_breaching` survives a reconnect while the flag in the state starts anew, so a breach
that goes on is not logged again for the new session; two overlapping evaluations of a low battery both
send RTL and the alert; an evaluation a neighbour began in an earlier session marks or clears issues of the
present one; a neighbour cancelled while it writes a row of this drone loses that row.  Two restorers that count before
either inserts make one fail on a taken key (`backup.py:455`); a failing startup restore ends the process (`backup.py:463`, `main.py:99`); a
crash between the commit and the mark loads the `.sql` file again once everything is empty (`:474`); a second dump of
the same second replaces the first.  A push that `stop()` interrupts opens a broadcast link for no drone.

## 5. Proofs

All theorems hold for any number of connections, flights, rounds, calls, missions, links, sessions, requests, drones and
ids, and any bounds; they assume only the named assumptions on the constants (identifiers are distinct, bounds are natural numbers).

`MavlinkManagerProofs`.  `RegisteredIsServed` is not inductive: a commit must find its link open, and a
reader must not close a link that is registered.  `IInv` adds `OpenBeforeCommit` (a call past its
first executor call holds an open link) and `ServesCommitted` (a reader has captured a committed
connection or a flight).  `Init => IInv`, one lemma per group of actions, and PTL give `InvariantHolds`;
`TypeCorrect` and `ServedRegistration` follow; `NeverTakenOver` needs the invariant for `Commit` only.  Without
flights (`LinkSpec`) `LinkIInv` adds that probes never have an adapter (so cancelling them cannot
take the last user of an HF entry), which gives `StateFollowsRegistry` and `HFEntryInUse`.

`CommandControllerProofs`.  The invariant says that a registered call waits with an empty Future for the id
it is registered under; `AcceptanceBacked` adds that ACKs on their way and values in Futures are
backed by an executed command.

`MissionUploadProofs`.  `UploadAcked` needs that a job past its checks carries a link and a well-formed
content.  `UploadTruthful`, `FenceTruthful` and `AutoTruthful` are about `SequentialSpec`: `SInv` adds `OneAtATime` and the
bookkeeping of the single job in flight (nothing is claimed while it is transferring, it carries the saved
plan but for the home waypoint it has moved, edits revoke before they commit, the fence follows the upload).  `FenceFollows` is inductive where `FenceIsUploaded`
is not, because it also says that an upload past the arming of its fence carries the plan the fence fits, and that the uploaded mission's fence is
armed, is about to be replaced by an upload that will revoke it or be refused (`armed`), or is `astray`.  `AutoFliesAskedPlan` is an action property: the
check reads the record of a captured connection, and if that is still the registered one, `UploadedIsOnboard` is about it.

`DroneFlightProofs`, transfers.  `IInv` is `TypeOK`, `Bookkeeping` (only the latest upload runs, it served
items of its own numbers, the vehicle stores fewer than it expects) and `Truthful`.  An acceptance can
reach the station for two reasons.  Either the vehicle took this upload's `MISSION_COUNT` (`OwnSession`):
then everything it stored since came from this upload, in order, and it accepts at the full count.
Or the `MISSION_COUNT` was lost and the vehicle completes an earlier mission (`OldSession`): then
it asks only for numbers from the one it had reached, so `sent` can be complete only if it had reached
number 0, and then it stores nothing but this upload's items.  In both cases `sent = 0..count-1` together
with an acceptance means the stored mission is the upload's.  `TransferImplementsStore` follows:
starting a call is `Begin`, the acceptance `Accept`, every other step `Drift` or a stutter.
`RefusalsAreReal` (`OnlyRealRefusals`) needs one more invariant, `Undisturbed`, of an upload that found a silent link and a
vehicle that was receiving nothing, as long as nothing has gone wrong: its `MISSION_COUNT` is unread or lost (`Announced`); or the
vehicle is receiving, every number it has stored was served, and no reply on the way ends anything (`Receiving`); or every number was served and the
acceptance is on its way, ahead of the refusals that duplicates of items earn once nothing is expected (`Finished`).  The order of the link is what
makes the last one hold: it is why a late duplicate cannot turn an accepted upload into a failed one.

`TelemetryPipelineProofs`.  `IInv` adds to the properties that marks and rows agree (`MarksAreRows`), that a
reader outside an update is about nothing (`IdleIsAboutNothing`: a breach in announcement cannot be
forgotten by a new update) and that only a session that began is registered or looked at (`OnlyBegunSessions`:
a new session shows no breach).  The listeners, and every step that only moves a task, share one lemma.
`BlackBoxIsRight` (`BlackBoxAgrees`) adds `BoxIInv`: only the task that has the loop runs (`Looping`); a listener in mid-evaluation looks at the
registered dictionary, or its overlap is known (`LooksAtEntry`); and the marks of the black box are what the session shows, or the reader
of the session still has the evaluation before it (`Marked`, `Owes`).

`BackupProofs`.  `SequencesAhead` needs three facts as long as no restore overlapped an insert (`IInv`).  Committed rows and ids that transactions hold are given
(`Given`: at or below the sequence); no two transactions have one id, and none has that of a row (`Distinct`); and a restore between setting the sequence and its commit brings only rows
the sequence is past, with ids nobody holds (`Covered`).  A restore that sets the sequence while nobody holds an id establishes `Given` and `Covered` by the
maximum over the rows; ids given later are larger.

`NewestStaysCurrent` (`NewestDumpIsCurrent`) follows from `Dumped`, a second invariant.  The newest dump is current for the tables whose changes are neither noted
nor `behind`, or the write-triggered dump under way will replace it (`NewestCurrent`).  That dump carries tables it does not read again, so what it
carries must still be so (`WriteCurrent`); the scheduler's dump may be out of date, but only if it is not going to be the newest
(`FullCurrent`).  What a dump was begun for (`owes`) becomes `behind` again if it fails, and only a dump that is being read owes anything (`Owing`).
Stamps never lie in the future (`Stamped`), and the object store has no dump newer than the disk's, except
for an empty disk, whose tables are all noted or behind (`Shipped`, `Unheld`): so a dump fetched back by a restore does not become the newest.

`DroneFlightProofs`, flights.  `FlightIInv` is `Typed` (the record of each flight is `Sound`: its height is above the route by no more than the
height it has borrowed, and its route is not flown past the end), `EdgeSeen` (between two pushes the flag of the edge detection says where the
flight is, except for a flight that has not moved) and `TurnsHome` (a flight on its route whose flag is set has an announcement due that will turn it home, or is
`ignored`).  `FlightTypeOK`'s bound on heights needs `alt <= 1 + offset`: borrowing when the height is already borrowed adds nothing.
A tick drains the queue with `HandleAll`, a recursive function; that its recursion equation has a solution for every queue, and that each
command keeps a flight sound, where it is and with its flag, is proved by least counterexample (`Least`, from the well-foundedness of `<`),
because the induction theorems of the library cannot be applied here.

`FleetProofs`, planner.  `BestAssigned` (`AssignmentIsBest`) is about sums over matrices of any size, which the model writes as sums of
functions; that such a sum does not depend on the order of its fold, and that a term can be taken out of it, is proved by least counterexample
over the size of the set.  `EnergyStep` and `IsingStep` say what one variable changes: the energy by its `Field` and the `Bond`s it has with
the variables that are set, the Ising form by four times that; so the two forms differ by a constant and have the same lowest vectors.
`PenaltyIs` gives the penalty of a vector that respects the constraints and of one that does not.  An exchange argument does the rest: a vector that assigns a drone
twice, or leaves a place free that could be served, has a better one (`HasBetter`), and among the others lower energy is less distance
(`NearestAgree`).  `PlacesDivide` and `SizesFit` say that the decomposition loses no target.  The invariant is `PlanIInv`: the sub-problems fit (`SubsFit`),
those not yet solved are as they were cut (`Waiting`), and the answers are of those solved (`Served`).

`StationProofs`, recorder.  `RecorderLosesNothing` needs `Ordered` (no buffer is newer than the last reading, the pending
frame is the last one) and `Counted` (there is a batch only while a flush is under way).

`StationProofs`, accounts.  `ChainVerifies` needs `Exclusive` (only the holder of the lock is between reading the last row and
appending, and what it read still is the last row) and `Once` (a session passes through its record once).
`ReviewsAgree` needs `ReviewIInv`: where each call is with its change, its reply and its mail (`CallStages`); that an account is made once, because
the call that has flushed one holds the key until it commits (`Creators`); that an account came from a request of its own username (`Approvals`); and, for a username no
two calls contested, that the calls come one after the other and find the request as they checked it (`Alone`), and that whoever set the password
tells it unless it lost its change (`Told`).  The assumption that `Nobody` is none of the identifiers is used throughout.

`FleetProofs`, registry.  The rows of `FleetReferences` change only when a request commits.  So the invariant is about each request under way: if it has
seen every commit so far, what it checked is still so (`StillChecked`); a request that commits while it has not marks the history `crossed`.
`Names` gives the rows an operation is about their kinds, `TypesKnown` and `ArchivesKnown` say that stored references are rows of the right kind, and
`Numbered` that system ids stay below a bound, so that a free one exists.  The assumption on `Fleet` says which rows exist at the start.

`StationProofs`, the other parts.  `StationTypeCorrect` (`StationTypeOK`) says more than types of the bridge, the feed, the stream and the
camera.  `BridgeIInv`: every handle but one that still works was unplugged, or closed by a pipe that has ended (`HandlesBounded`, `Spent`), so
the handles are bounded by the unplugs and the pipes; and the slot is held by one connection or nobody (`SlotHeld`).  `FeedIInv`: age and time to live of the position
add up to no more than the slowest ingest and the TTL.  `CameraIInv`: a thread that is not told to stop is the entry's, so a second
session starts only when the first is told.  `StationSteps` says that a step of `MCStation` is a step of one part and leaves the others alone; with
it the invariants of all parts, those of `FleetProofs` included, hold in the composition (`StationInvariant`), and `StationIsRight` states the others' properties there.

Every invariant and every property of steps that a passing run checks is proved.  Only model-checked: the liveness properties (`DeadLinkRemoved`, `ConnectReturns`, `StopReturns`, `SendReturns`,
`JobReturns`, `LossRepaired`, `ReturnsHome`, `BridgeRecovers`, `HomeFollowsVessel`, `BrowserShowsDrone`, `ViewerIsServed`), which
need fairness.  `TypeOK` of `MissionUpload` and `MissionTransfer`, and
`HFEntryHasUser` and the registry invariants with flights, are proved and have no run.

## 6. Not modelled

Geometry and physics (airspace, terrain, survey grids, point-in-polygon, wind and battery of flights), message encoding, the
knowledge base and other queries, object storage and media drawing, mail, search (its index tasks start before the commit,
`drone_master/service.py:256`) and the frontend.  Tokens, the second factor, rate limits and lockouts; tampered dumps and
signatures; dumps that fail to verify, among them a file cut short by a failing write (they are skipped, and a write-triggered dump then reads everything); sequences other than that of
`types`; dumps whose links lack their types cannot be restored at all, and keep the types of the same transaction from coming back (`LossRepaired` leaves them out).
An error inside the physics of a simulated tick, which leaves it applied in part.  A capture thread that dies of an uncaught OpenCV error and leaves its session listed
for later viewers.  The planner's exact solver is idealised: CP-SAT may answer with a feasible assignment that is not the best, and distances
are cut to hundredths of a metre (`fleet_router.py:146-156`).  The vessel feed with its speed check switched off (maximum speed 0).  Mails that fail or are
skipped.  A plan without a home waypoint is not told apart.  The filter of the HF link: its high tier shares one budget, so
heartbeats can starve the rest.  The connect lock and per-drone state locks, which are never contended.  Time is abstracted: a timeout may
fire whenever its wait is pending, except in `Backup` and `VesselFeed`, where seconds decide.  Connections to several drones share only the thread pool, whose
exhaustion is not modelled.  Of the hazards, a few have no property: an alert that is marked after the awaits that send it
(`health_monitor.py:46`), `archive()` detaching before it disconnects (`drone_master/service.py:304`), a send on an executor thread
after `remove()` (`mavlink_broadcaster.py:202`).

## 7. Plan

1. `MavlinkManager` with `MissionTransfer`: the reader's silence clock while a transfer holds `io_lock`.
2. Sessions and tokens: refresh, revocation, attempts and one-time codes under concurrent requests.
3. The filter of the HF link; the search index against rolled-back requests.
4. The event bus of `TelemetryPipeline` across restarts of the station and of RabbitMQ.
5. Proofs: an abstract `LinkRegistry` (one place, taken and left)
   that `MavlinkManager` implements.
