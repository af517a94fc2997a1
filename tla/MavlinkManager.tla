--------------------------- MODULE MavlinkManager ---------------------------
(***************************************************************************)
(* The connection registry of one drone_id: MAVLinkManager (connect,       *)
(* disconnect, _read_loop, attach/detach_simulation), the probing rounds   *)
(* of the auto-connector, and the HTTP handlers that call them.  Every     *)
(* operation touches only the entries of its own drone_id, so one drone is *)
(* enough.                                                                 *)
(*                                                                         *)
(* All of this code runs on one asyncio event loop: an action is what one  *)
(* coroutine does between two suspension points.  The per-drone connect    *)
(* lock is not a variable because neither body it guards suspends          *)
(* (get_redis() builds a pool and returns), so it is never contended.      *)
(***************************************************************************)
EXTENDS Naturals, FiniteSets

CONSTANTS Conns,   \* DroneConnection objects, one per call of connect()
          Sims,    \* simulated flights, each with its virtual DroneConnection
          Rounds,  \* calls of auto_connector._connect_drone
          None

ASSUME IdsAssumption == /\ Conns \cap Sims = {}
                        /\ None \notin Conns \cup Sims \cup Rounds

VARIABLES
    attempt,     \* where each connect() call is, or how it returned
    caller,      \* the probing round that made the call, None for POST /connect
    adapter,     \* conn.hf_adapter, named after the call that created the object
    mav,         \* the pymavlink link of each connection
    alive,       \* the vehicle still transmits on the link
    connected,   \* conn.connected
    reader,      \* the _read_loop task of each connection
    serves,      \* the connection that task captured when it first ran
    home,        \* the home_point_updater task of each connection
    registered,  \* _connections.get(drone_id)
    telemetry,   \* drone_id in StateManager._states
    hfRegistry,  \* hf_link_adapter._hf_adapters.get(drone_id)
    opDisc,      \* drone_id in operator_disconnected
    round,       \* progress of each probing round
    background,  \* the round belongs to run_auto_connector, not to an operator
    flight,      \* the task of each simulated flight
    prior,       \* the flight a starting flight waits for
    current,     \* SimulationManager._flights.get(drone_id)
    stopper,     \* who awaits the end of a flight: stop_simulation or archive
    inService    \* DroneInstance.is_active

attemptVars == <<attempt, caller, adapter, mav, alive>>
taskVars    == <<reader, serves, home>>
simVars     == <<flight, prior, current, stopper, inService>>
roundVars   == <<round, background>>
vars == <<attemptVars, taskVars, connected, registered, telemetry, hfRegistry,
          opDisc, roundVars, simVars>>

Entries == Conns \cup Sims

\* connect() is suspended at one of its three executor calls.
InFlight(c) == attempt[c] \in {"opening", "heartbeat", "streams"}

\* "drone_id in self._connections and self._connections[drone_id].connected"
Registered == registered # None /\ connected[registered]

\* SimulationManager.is_active(drone_id)
SimActive == current # None /\ flight[current] \in {"created", "running", "cancelled"}

TypeOK ==
    /\ attempt \in [Conns -> {"idle", "opening", "heartbeat", "streams", "committed",
                              "already", "failed", "lost", "cancelled"}]
    /\ caller \in [Conns -> Rounds \cup {None}]
    /\ adapter \in [Conns -> Conns \cup {None}]
    /\ mav \in [Conns -> {"none", "opening", "open", "closed", "orphan"}]
    /\ alive \in [Conns -> BOOLEAN]
    /\ connected \in [Entries -> BOOLEAN]
    /\ reader \in [Conns -> {"none", "created", "running", "cancelled", "exited"}]
    /\ serves \in [Conns -> Entries \cup {None}]
    /\ home \in [Conns -> {"none", "running", "stopped"}]
    /\ registered \in Entries \cup {None}
    /\ telemetry \in BOOLEAN
    /\ hfRegistry \in Conns \cup {None}
    /\ opDisc \in BOOLEAN
    /\ round \in [Rounds -> {"idle", "listed", "probing", "over"}]
    /\ background \in [Rounds -> BOOLEAN]
    /\ flight \in [Sims -> {"idle", "requested", "waiting", "created", "running",
                            "cancelled", "ended"}]
    /\ prior \in [Sims -> Sims \cup {None}]
    /\ current \in Sims \cup {None}
    /\ stopper \in [Sims -> {"none", "stop", "archive"}]
    /\ inService \in BOOLEAN

Init ==
    /\ attempt = [c \in Conns |-> "idle"]
    /\ caller = [c \in Conns |-> None]
    /\ adapter = [c \in Conns |-> None]
    /\ mav = [c \in Conns |-> "none"]
    /\ alive = [c \in Conns |-> TRUE]
    /\ connected = [e \in Entries |-> FALSE]
    /\ reader = [c \in Conns |-> "none"]
    /\ serves = [c \in Conns |-> None]
    /\ home = [c \in Conns |-> "none"]
    /\ registered = None
    /\ telemetry = FALSE
    /\ hfRegistry = None
    /\ opDisc = FALSE
    /\ round = [r \in Rounds |-> "idle"]
    /\ background = [r \in Rounds |-> FALSE]
    /\ flight = [s \in Sims |-> "idle"]
    /\ prior = [s \in Sims |-> None]
    /\ current = None
    /\ stopper = [s \in Sims |-> "none"]
    /\ inService = TRUE
-----------------------------------------------------------------------------
(* connect(): pre-check, then three executor calls, then the commit.       *)

\* The pre-check and, for an HF transport, get_or_create of the drone's adapter.
BeginConnect(c, hf) ==
    /\ attempt[c] = "idle"
    /\ \/ /\ Registered
          /\ attempt' = [attempt EXCEPT ![c] = "already"]
          /\ UNCHANGED <<mav, adapter, hfRegistry>>
       \/ /\ ~Registered
          /\ attempt' = [attempt EXCEPT ![c] = "opening"]
          /\ mav' = [mav EXCEPT ![c] = "opening"]
          /\ hfRegistry' = IF hf /\ hfRegistry = None THEN c ELSE hfRegistry
          /\ adapter' = [adapter EXCEPT ![c] = IF hf THEN hfRegistry' ELSE None]
    /\ UNCHANGED <<alive, taskVars, connected, registered, telemetry, roundVars, simVars>>

\* POST /connect.
ConnectRequest(c, hf) ==
    /\ inService
    /\ BeginConnect(c, hf)
    /\ opDisc' = FALSE
    /\ UNCHANGED caller

\* One probe of a round; the auto-connector never offers an HF candidate.  The
\* tasks are created together: each starts before any of them gets further.
Probe(c, r) ==
    /\ round[r] = "probing"
    /\ \A d \in Conns : caller[d] = r => attempt[d] \in {"opening", "already"}
    /\ BeginConnect(c, FALSE)
    /\ caller' = [caller EXCEPT ![c] = r]
    /\ UNCHANGED opDisc

\* The executor thread opened the link and the coroutine resumed.
LinkOpened(c) ==
    /\ attempt[c] = "opening"
    /\ attempt' = [attempt EXCEPT ![c] = "heartbeat"]
    /\ mav' = [mav EXCEPT ![c] = "open"]
    /\ UNCHANGED <<caller, adapter, alive, taskVars, connected, registered, telemetry,
                   hfRegistry, opDisc, roundVars, simVars>>

\* Mutant: a phase no later step of connect() handles.
HeartbeatSeen_Connected(c) ==
    /\ attempt[c] = "heartbeat"
    /\ attempt' = [attempt EXCEPT ![c] = "connected"]
    /\ UNCHANGED <<caller, adapter, mav, alive, taskVars, connected, registered, telemetry,
                   hfRegistry, opDisc, roundVars, simVars>>

\* A vehicle heartbeat arrived in time.
HeartbeatSeen(c) ==
    /\ attempt[c] = "heartbeat"
    /\ attempt' = [attempt EXCEPT ![c] = "streams"]
    /\ UNCHANGED <<caller, adapter, mav, alive, taskVars, connected, registered, telemetry,
                   hfRegistry, opDisc, roundVars, simVars>>

\* Mutant: the entry stays.
DropAdapter_Kept(c) == UNCHANGED hfRegistry

\* "if conn.hf_adapter: hf_link_adapter.remove(drone_id)"
DropAdapter(c) == hfRegistry' = IF adapter[c] # None THEN None ELSE hfRegistry

\* What every unsuccessful return does: close an opened link and drop the adapter.
Release(c, outcome) ==
    /\ attempt' = [attempt EXCEPT ![c] = outcome]
    /\ mav' = [mav EXCEPT ![c] = IF @ = "open" THEN "closed" ELSE "none"]
    /\ DropAdapter(c)
    /\ UNCHANGED <<caller, adapter, alive, taskVars, connected, registered, telemetry,
                   opDisc, roundVars, simVars>>

\* Mutant: nothing bounds the wait for the first heartbeat.
ConnectFails_NoTimeout(c) ==
    /\ attempt[c] \in {"opening", "streams"}
    /\ Release(c, "failed")

\* TimeoutError or any other exception while opening, waiting or requesting streams.
ConnectFails(c) ==
    /\ InFlight(c)
    /\ Release(c, "failed")

\* The re-check under the lock found another candidate connected.
LoseRace(c) ==
    /\ attempt[c] = "streams"
    /\ Registered
    /\ Release(c, "lost")

\* Mutant: the re-check after the heartbeat wait is missing.
MayCommit_Unchecked == TRUE

\* The re-check under the lock: no other candidate committed meanwhile.
MayCommit == ~Registered

\* The commit: register, create the state entry, the reader and the home updater.
Commit(c) ==
    /\ attempt[c] = "streams"
    /\ MayCommit
    /\ attempt' = [attempt EXCEPT ![c] = "committed"]
    /\ connected' = [connected EXCEPT ![c] = TRUE]
    /\ registered' = c
    /\ telemetry' = TRUE
    /\ reader' = [reader EXCEPT ![c] = "created"]
    /\ home' = [home EXCEPT ![c] = "running"]
    /\ UNCHANGED <<caller, adapter, mav, alive, serves, hfRegistry, opDisc, roundVars, simVars>>

\* A call cancelled inside _open_link never learns the link its thread goes on
\* to open (or fails to open).
ThreadOpensAfterCancel(c) ==
    /\ attempt[c] = "cancelled" /\ mav[c] = "opening"
    /\ \E m \in {"orphan", "none"} : mav' = [mav EXCEPT ![c] = m]
    /\ UNCHANGED <<attempt, caller, adapter, alive, taskVars, connected, registered, telemetry,
                   hfRegistry, opDisc, roundVars, simVars>>
-----------------------------------------------------------------------------
(* auto_connector: the background loop and POST /autoconnect.              *)

\* run_auto_connector lists the drone as unconnected; the probing may start
\* much later, after the drones listed before it.
ListUnconnected(r) ==
    /\ round[r] = "idle"
    /\ inService /\ ~Registered /\ ~opDisc
    /\ round' = [round EXCEPT ![r] = "listed"]
    /\ background' = [background EXCEPT ![r] = TRUE]
    /\ UNCHANGED <<attemptVars, taskVars, connected, registered, telemetry, hfRegistry,
                   opDisc, simVars>>

\* POST /autoconnect: an operator asks for a scan.
ScanRequest(r) ==
    /\ round[r] = "idle"
    /\ inService /\ ~Registered
    /\ opDisc' = FALSE
    /\ round' = [round EXCEPT ![r] = "listed"]
    /\ UNCHANGED <<attemptVars, taskVars, connected, registered, telemetry, hfRegistry,
                   background, simVars>>

\* _connect_drone creates its probe tasks.
StartProbing(r) ==
    /\ round[r] = "listed"
    /\ round' = [round EXCEPT ![r] = "probing"]
    /\ UNCHANGED <<attemptVars, taskVars, connected, registered, telemetry, hfRegistry,
                   opDisc, background, simVars>>

ProbesOf(r) == {c \in Conns : caller[c] = r}

\* A probe returned True: the probes still in flight are cancelled, each
\* closing the link it holds.
RoundWon(r) ==
    /\ round[r] = "probing"
    /\ \E c \in ProbesOf(r) : attempt[c] \in {"committed", "already"}
    /\ LET losers == {c \in ProbesOf(r) : InFlight(c)} IN
       /\ attempt' = [c \in Conns |-> IF c \in losers THEN "cancelled" ELSE attempt[c]]
       /\ mav' = [c \in Conns |-> IF c \in losers /\ mav[c] = "open" THEN "closed" ELSE mav[c]]
    /\ round' = [round EXCEPT ![r] = "over"]
    /\ UNCHANGED <<caller, adapter, alive, taskVars, connected, registered, telemetry,
                   hfRegistry, opDisc, background, simVars>>

\* Every probe returned False.
RoundLost(r) ==
    /\ round[r] = "probing"
    /\ \A c \in ProbesOf(r) : attempt[c] \in {"failed", "lost"}
    /\ round' = [round EXCEPT ![r] = "over"]
    /\ UNCHANGED <<attemptVars, taskVars, connected, registered, telemetry, hfRegistry,
                   opDisc, background, simVars>>
-----------------------------------------------------------------------------
(* disconnect() and the reader task.                                       *)

\* task.cancel(): a task that never ran never will; a running one gets
\* CancelledError at the await it is suspended in, one event-loop turn later.
CancelTask(status) == IF status = "created" THEN "exited" ELSE "cancelled"

\* Mutant: state.remove_drone is forgotten.
ForgetDrone_KeepState == registered' = None /\ hfRegistry' = None /\ UNCHANGED telemetry

\* The drone leaves the state store, _connections and the HF registry.
ForgetDrone == registered' = None /\ hfRegistry' = None /\ telemetry' = FALSE

\* POST /disconnect: remember the operator's wish, then disconnect(), which
\* runs without suspending.
Disconnect ==
    /\ opDisc' = TRUE
    /\ \/ /\ registered = None
          /\ UNCHANGED <<mav, connected, reader, home, registered, telemetry, hfRegistry>>
       \/ /\ registered # None
          /\ reader' = [c \in Conns |-> IF c = registered THEN CancelTask(reader[c]) ELSE reader[c]]
          /\ home' = [c \in Conns |-> IF c = registered THEN "stopped" ELSE home[c]]
          /\ mav' = [c \in Conns |-> IF c = registered THEN "closed" ELSE mav[c]]
          /\ connected' = [connected EXCEPT ![registered] = FALSE]
          /\ ForgetDrone
    /\ UNCHANGED <<attempt, caller, adapter, alive, serves, roundVars, simVars>>

\* The vehicle stops transmitting, or the cable is pulled.
LinkDies(c) ==
    /\ attempt[c] = "committed" /\ alive[c]
    /\ alive' = [alive EXCEPT ![c] = FALSE]
    /\ UNCHANGED <<attempt, caller, adapter, mav, taskVars, connected, registered, telemetry,
                   hfRegistry, opDisc, roundVars, simVars>>

\* First step of _read_loop: capture whatever is registered NOW (KeyError if nothing).
ReaderStarts(c) ==
    /\ reader[c] = "created"
    /\ reader' = [reader EXCEPT ![c] = IF registered = None THEN "exited" ELSE "running"]
    /\ serves' = [serves EXCEPT ![c] = registered]
    /\ UNCHANGED <<attemptVars, home, connected, registered, telemetry, hfRegistry,
                   opDisc, roundVars, simVars>>

\* After the loop: if the CURRENT registration is connected, close the captured
\* connection and remove the drone from every registry.
LeaveLoop(c) ==
    /\ reader' = [reader EXCEPT ![c] = "exited"]
    /\ \/ /\ ~Registered
          /\ UNCHANGED <<mav, connected, registered, telemetry, hfRegistry>>
       \/ /\ Registered
          /\ connected' = [connected EXCEPT ![serves[c]] = FALSE]
          /\ mav' = [d \in Conns |-> IF d = serves[c] THEN "closed" ELSE mav[d]]
          /\ ForgetDrone
    /\ UNCHANGED <<attempt, caller, adapter, alive, serves, home, opDisc, roundVars, simVars>>

\* Mutant: silence is not treated as a lost link.
ReaderFails_NoLinkTimeout(c) ==
    /\ reader[c] = "running"
    /\ serves[c] \in Sims \/ ~connected[serves[c]]
    /\ LeaveLoop(c)

\* Mutant: the reader stops without the clean-up after its loop.
ReaderFails_NoCleanup(c) ==
    /\ reader[c] = "running" /\ serves[c] \in Conns /\ ~alive[serves[c]]
    /\ reader' = [reader EXCEPT ![c] = "exited"]
    /\ UNCHANGED <<attemptVars, serves, home, connected, registered, telemetry, hfRegistry,
                   opDisc, roundVars, simVars>>

\* The loop ends by itself: no message for link_timeout_s, ten read errors in a
\* row (a simulated entry has no link to read), or the captured conn.connected
\* turned False.
ReaderFails(c) ==
    /\ reader[c] = "running"
    /\ \/ serves[c] \in Sims
       \/ ~connected[serves[c]]
       \/ serves[c] \in Conns /\ ~alive[serves[c]]
    /\ LeaveLoop(c)

\* CancelledError reaches the reader that disconnect() cancelled.
ReaderCancelled(c) ==
    /\ reader[c] = "cancelled"
    /\ LeaveLoop(c)

\* It reaches the reader in the pause after a read error, inside an exception
\* handler: the task ends there, without the clean-up.
ReaderCancelledInPause(c) ==
    /\ reader[c] = "cancelled"
    /\ reader' = [reader EXCEPT ![c] = "exited"]
    /\ UNCHANGED <<attemptVars, serves, home, connected, registered, telemetry, hfRegistry,
                   opDisc, roundVars, simVars>>
-----------------------------------------------------------------------------
(* Simulated flights share the registry.                                   *)

\* Mutant: the tick's exception handler swallows CancelledError.
CancelFlight_Swallowed(status) == IF status = "created" THEN "ended" ELSE "running"

\* task.cancel() of a flight: one that never ran skips its body, and with it
\* the finally clause that cleans up.
CancelFlight(status) == IF status = "created" THEN "ended" ELSE "cancelled"

\* POST /simulate/start up to its database reads: no flight is active now.
SimulationRequest(s) ==
    /\ flight[s] = "idle"
    /\ inService /\ ~SimActive
    /\ flight' = [flight EXCEPT ![s] = "requested"]
    /\ UNCHANGED <<attemptVars, taskVars, connected, registered, telemetry, hfRegistry,
                   opDisc, roundVars, prior, current, stopper, inService>>

\* attach_simulation(), then SimulationManager.start(): at once, or after the
\* flight another request started in the meantime has been cancelled.
AttachSimulation(s) ==
    /\ flight[s] = "requested"
    /\ connected' = [connected EXCEPT ![s] = TRUE]
    /\ registered' = s
    /\ \/ /\ ~SimActive
          /\ flight' = [flight EXCEPT ![s] = "created"]
          /\ current' = s
          /\ telemetry' = TRUE
          /\ UNCHANGED prior
       \/ /\ SimActive
          /\ flight' = [flight EXCEPT ![s] = "waiting", ![current] = CancelFlight(@)]
          /\ prior' = [prior EXCEPT ![s] = current]
          /\ UNCHANGED <<current, telemetry>>
    /\ UNCHANGED <<attemptVars, taskVars, hfRegistry, opDisc, roundVars, stopper, inService>>

\* The flight it replaced is over: the new one starts.
ReplaceFlight(s) ==
    /\ flight[s] = "waiting"
    /\ flight[prior[s]] = "ended"
    /\ flight' = [flight EXCEPT ![s] = "created"]
    /\ current' = s
    /\ telemetry' = TRUE
    /\ UNCHANGED <<attemptVars, taskVars, connected, registered, hfRegistry, opDisc,
                   roundVars, prior, stopper, inService>>

\* First step of the flight's _run task.
FlightRuns(s) ==
    /\ flight[s] = "created"
    /\ flight' = [flight EXCEPT ![s] = "running"]
    /\ UNCHANGED <<attemptVars, taskVars, connected, registered, telemetry, hfRegistry,
                   opDisc, roundVars, prior, current, stopper, inService>>

\* _cleanup(), which runs however a flight ends: remove the state entry and
\* detach whatever is registered.
CleanUpFlight(s) ==
    /\ flight' = [flight EXCEPT ![s] = "ended"]
    /\ telemetry' = FALSE
    /\ registered' = None
    /\ UNCHANGED <<attemptVars, taskVars, connected, hfRegistry, opDisc, roundVars,
                   prior, current, stopper, inService>>

FlightLands(s) == flight[s] = "running" /\ CleanUpFlight(s)

FlightCancelled(s) == flight[s] = "cancelled" /\ CleanUpFlight(s)

\* DELETE /simulate/stop, or archive() of a drone that is simulating: the
\* flight is popped, cancelled and awaited.
StopFlight(who) ==
    /\ SimActive
    /\ who = "archive" => inService
    /\ flight' = [flight EXCEPT ![current] = CancelFlight(@)]
    /\ stopper' = [stopper EXCEPT ![current] = who]
    /\ current' = None
    /\ UNCHANGED <<attemptVars, taskVars, connected, registered, telemetry, hfRegistry,
                   opDisc, roundVars, prior, inService>>

\* The awaited flight is over: detach_simulation() pops whatever is registered.
\* archive() goes on to disconnect(), which then finds nothing, and takes the
\* drone out of service.
DetachStopped(s) ==
    /\ stopper[s] # "none" /\ flight[s] = "ended"
    /\ registered' = None
    /\ inService' = (inService /\ stopper[s] # "archive")
    /\ stopper' = [stopper EXCEPT ![s] = "none"]
    /\ UNCHANGED <<attemptVars, taskVars, connected, telemetry, hfRegistry, opDisc,
                   roundVars, flight, prior, current>>

\* archive() of a drone that is not simulating: detach_simulation() pops the
\* entry, so the disconnect() after it returns at once.
Archive ==
    /\ inService /\ ~SimActive
    /\ registered' = None
    /\ inService' = FALSE
    /\ UNCHANGED <<attemptVars, taskVars, connected, telemetry, hfRegistry, opDisc,
                   roundVars, flight, prior, current, stopper>>
-----------------------------------------------------------------------------
ConnectStep(c) ==
    \/ LinkOpened(c) \/ ConnectFails(c) \/ LoseRace(c)
    \/ Commit(c) \/ ThreadOpensAfterCancel(c)

ReaderStep(c) ==
    \/ ReaderStarts(c) \/ ReaderFails(c)
    \/ ReaderCancelled(c) \/ ReaderCancelledInPause(c)

RoundStep(r) == StartProbing(r) \/ RoundWon(r) \/ RoundLost(r)

FlightStep(s) ==
    \/ AttachSimulation(s) \/ ReplaceFlight(s) \/ FlightRuns(s)
    \/ FlightCancelled(s) \/ DetachStopped(s)

\* A ground station that only connects and disconnects vehicles.
LinkNext ==
    \/ \E c \in Conns, hf \in BOOLEAN : ConnectRequest(c, hf)
    \/ \E c \in Conns, r \in Rounds : Probe(c, r)
    \/ \E c \in Conns : HeartbeatSeen(c)
    \/ \E c \in Conns : ConnectStep(c)
    \/ \E c \in Conns : ReaderStep(c)
    \/ \E c \in Conns : LinkDies(c)
    \/ \E r \in Rounds : ListUnconnected(r)
    \/ \E r \in Rounds : ScanRequest(r)
    \/ \E r \in Rounds : RoundStep(r)
    \/ Disconnect

\* The whole system: simulated flights and removal of the drone as well.
Next ==
    \/ LinkNext
    \/ \E s \in Sims : SimulationRequest(s)
    \/ \E s \in Sims : FlightStep(s)
    \/ \E s \in Sims : FlightLands(s)
    \/ \E who \in {"stop", "archive"} : StopFlight(who)
    \/ Archive

\* Tasks and executor threads that can run do run: connect() is bounded by its
\* heartbeat timeout, the reader by link_timeout_s, and the event loop serves
\* every ready task.  Nothing obliges an operator, a vehicle or a flight that
\* loiters to act.
Fairness ==
    /\ \A c \in Conns : WF_vars(ConnectStep(c)) /\ WF_vars(ReaderStep(c))
    /\ \A r \in Rounds : WF_vars(RoundStep(r))
    /\ \A s \in Sims : WF_vars(FlightStep(s))

LinkSpec == Init /\ [][LinkNext]_vars /\ Fairness
Spec == Init /\ [][Next]_vars /\ Fairness
-----------------------------------------------------------------------------
(* Properties of the whole system.                                         *)

\* Whatever link is registered is really served: it is open, its state entry
\* exists, its reader task has not stopped (so that a dead link is noticed) and
\* its home updater runs; a registered entry is always a connected one.
RegisteredIsServed ==
    /\ registered # None => connected[registered]
    /\ \A c \in Conns : registered = c =>
          /\ attempt[c] = "committed"
          /\ mav[c] = "open"
          /\ telemetry
          /\ reader[c] \in {"created", "running"}
          /\ home[c] = "running"

\* connect() never replaces a registered entry: a candidate only takes an
\* empty place, however many probes, requests and readers interleave.
NoTakeover ==
    [][\A c \in Conns : registered' = c /\ registered # c => registered = None]_vars

\* Once the vehicle of the registered link is silent, the reader removes it.
DeadLinkRemoved ==
    \A c \in Conns : (registered = c /\ ~alive[c]) ~> (registered # c)

\* Every connect() call returns or is cancelled.
ConnectReturns == \A c \in Conns : InFlight(c) ~> ~InFlight(c)

\* A request to stop a simulated flight comes back.
StopReturns == \A s \in Sims : (stopper[s] # "none") ~> (stopper[s] = "none")
-----------------------------------------------------------------------------
(* Properties of a station without simulated flights (LinkSpec).           *)

\* The state store and the registry agree: telemetry is kept for the drone
\* exactly while a link is registered.
StateMatchesRegistry == telemetry <=> registered # None

\* An HF registry entry never outlives the connections that use it.
HFEntryHasUser ==
    hfRegistry # None =>
        \E c \in Conns : adapter[c] = hfRegistry /\ (InFlight(c) \/ registered = c)
-----------------------------------------------------------------------------
(* What a comment says and the code does not keep.                         *)

\* mavlink_manager.py, _connect_locks: no connection is left behind with its
\* task and socket never cleaned up.
LiveLinkIsRegistered == \A c \in Conns : connected[c] => registered = c

=============================================================================
