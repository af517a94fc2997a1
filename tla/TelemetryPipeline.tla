--------------------------- MODULE TelemetryPipeline ---------------------------
(***************************************************************************)
(* What happens to the telemetry of one drone: StateManager.update and its *)
(* listeners (HealthMonitor and BlackBox), the geofence check of           *)
(* TelemetryProcessor, and the way of a breach over RabbitMQ to the        *)
(* consumer that requests RTL.                                             *)
(*                                                                         *)
(* A session is one registration of the drone: its state dictionary and    *)
(* its reader task.  A neighbour is another drone's task, whose updates    *)
(* notify this drone's listeners when they change its proximity fields.    *)
(* A task holds the event loop until it awaits something that suspends;    *)
(* "loop" names it, and only then may another one run.                     *)
(***************************************************************************)
EXTENDS Integers

CONSTANTS Sessions,       \* successive registrations of the drone
          Neighbours,     \* tasks of drones within the proximity distance
          Fences,         \* the fences that are set: "none", "enforced", "advisory"
          Readings,       \* what messages report: members of Batteries
          BrokerMayFail,  \* whether RabbitMQ can be away
          MaxEvents,      \* bound on the breach events that wait in the queue
          None

Tasks == Sessions \cup Neighbours

\* The battery above 20 %, at most 15 % ("urgent" when also armed under neither RTL nor
\* LAND), or in between, or unknown; None if a BATTERY_STATUS does not know it.
Batteries == {"between", "ok", "low", "urgent", "none"}

ASSUME PipelineAssumption ==
    /\ Sessions \cap Neighbours = {}
    /\ None \notin Tasks
    /\ Fences \subseteq {"none", "enforced", "advisory"}
    /\ Readings \subseteq Batteries
    /\ BrokerMayFail \in BOOLEAN
    /\ MaxEvents \in Nat \ {0}

VARIABLES
    entry,      \* the session in StateManager._states, or None
    dict,       \* the state dictionary of each session
    cancelled,  \* readers whose CancelledError is still to come
    loop,       \* the task that is running, or None
    at,         \* where each task is
    stage,      \* what its current update is about
    target,     \* the dictionary its notification captured
    fired,      \* HealthMonitor._fired has "battery_rtl"
    active,     \* BlackBox._active
    open,       \* drone_events rows of this session: starts minus clears (history)
    stale,      \* an evaluation of an earlier session's dictionary went on, or the black
                \* box was not told because a listener raised before it (history)
    fence,      \* geofence_store: no fence, an enforced or an advisory one
    breaching,  \* TelemetryProcessor._breaching
    events,     \* breach events in geofence_rtl_queue
    outcome     \* what became of the current breach (history): "rtl" requested, "excused"
                \* if RabbitMQ dropped its event, its reader ended, a listener raised before
                \* it was published, or it was consumed with nothing connected or enforced,
                \* else "open"

stateVars  == <<entry, dict>>
taskVars   == <<cancelled, loop, at, stage, target>>
boxVars    == <<active, open, stale>>
breachVars == <<breaching, events, outcome>>
vars == <<stateVars, taskVars, fired, boxVars, fence, breachVars>>

\* battery_critical, which has a hysteresis, and geofence_breach, which has none.
Issues == {"battery", "breach"}

\* What the listeners tell apart in a state dictionary: the battery as above, and the
\* injected geofence_breach.
State == [batt : Batteries, flag : BOOLEAN]

Default == [batt |-> "between", flag |-> FALSE]

\* Positions are inside or outside the fence of the moment.
Positions == {"in", "out"}

\* An update that shows the listeners an edge of the breach.
Edges == {"breach", "recovery"}

\* Places where a task is suspended; at the others it holds the loop.
Awaiting == {"others", "alerting", "battery_row", "breach_row", "publishing"}
Running  == {"health", "battery", "breach", "notified"}

TypeOK ==
    /\ entry \in Sessions \cup {None}
    /\ dict \in [Sessions -> State]
    /\ cancelled \in SUBSET Sessions
    /\ loop \in Tasks \cup {None}
    /\ at \in [Tasks -> {"off", "listening", "ended"} \cup Awaiting \cup Running]
    /\ stage \in [Tasks -> {"other"} \cup Positions \cup Edges]
    /\ target \in [Tasks -> Sessions \cup {None}]
    /\ fired \in BOOLEAN
    /\ active \in SUBSET Issues
    /\ open \in [Issues -> Int]
    /\ stale \in BOOLEAN
    /\ fence \in Fences
    /\ breaching \in BOOLEAN
    /\ outcome \in {"open", "rtl", "excused"}
    /\ events \in 0..MaxEvents

Init ==
    /\ entry = None
    /\ dict = [s \in Sessions |-> Default]
    /\ cancelled = {}
    /\ loop = None
    /\ at = [t \in Tasks |-> "off"]
    /\ stage = [t \in Tasks |-> "other"]
    /\ target = [t \in Tasks |-> None]
    /\ fired = FALSE
    /\ active = {}
    /\ open = [i \in Issues |-> 0]
    /\ stale = FALSE
    /\ fence \in Fences
    /\ breaching = FALSE
    /\ events = 0
    /\ outcome = "open"
-----------------------------------------------------------------------------
(* Sessions.                                                               *)

Goes(t, place) == at' = [at EXCEPT ![t] = place]

\* t goes on at "place" without giving up the loop, or starts there.
Continues(t, place) == Goes(t, place) /\ loop' = t

\* t awaits something at "place".
Suspends(t, place) == Goes(t, place) /\ loop' = None

\* t has finished its update.
Returns(t, place) ==
    /\ Suspends(t, place)
    /\ stage' = [stage EXCEPT ![t] = "other"]
    /\ target' = [target EXCEPT ![t] = None]

\* Mutant: the black box is not told that the drone is gone.
Unregister_KeepsIssues ==
    /\ entry' = None
    /\ open' = [i \in Issues |-> 0] /\ stale' = FALSE
    /\ UNCHANGED active

\* remove_drone() and its callback, BlackBox.forget.
Unregister ==
    /\ entry' = None
    /\ active' = {}
    /\ open' = [i \in Issues |-> 0] /\ stale' = FALSE

\* init_drone(), and the reader starts.  Dictionaries nobody refers to are gone.
Connect(s) ==
    /\ loop = None /\ entry = None /\ at[s] = "off"
    /\ entry' = s
    /\ dict' = [x \in Sessions |-> IF \E t \in Tasks : target[t] = x THEN dict[x] ELSE Default]
    /\ Returns(s, "listening")
    /\ UNCHANGED <<cancelled, fired, boxVars, fence, breachVars>>

\* disconnect(): everything at once, but the reader learns of it later.
Disconnect ==
    /\ loop = None /\ entry # None
    /\ cancelled' = cancelled \cup {entry}
    /\ Unregister
    /\ UNCHANGED <<dict, loop, at, stage, target, fired, fence, breachVars>>

\* Whatever is registered when a reader ends is removed.
ReaderEnds(s) ==
    /\ Returns(s, "ended")
    /\ \/ entry # None /\ Unregister
       \/ entry = None /\ UNCHANGED <<entry, boxVars>>
    /\ cancelled' = cancelled \ {s}
    /\ UNCHANGED <<dict, fired, fence>>

\* What is known of the current breach; a requested RTL stays requested.
Becomes(o) == outcome' = IF breaching /\ outcome # "rtl" THEN o ELSE outcome

\* The update of s ends without its event.
Drops(s) == IF stage[s] = "breach" THEN Becomes("excused") ELSE UNCHANGED outcome

\* The broker takes the message; only breaches are bound to the queue.
Queued(s) ==
    IF stage[s] = "breach" THEN events < MaxEvents /\ events' = events + 1
                           ELSE UNCHANGED events

\* CancelledError is raised where the reader awaits; a publish under way may be through.
Cancelled(s) ==
    /\ loop = None /\ s \in cancelled
    /\ at[s] \in Awaiting \cup {"listening"}
    /\ ReaderEnds(s)
    /\ \/ Drops(s) /\ UNCHANGED events
       \/ at[s] = "publishing" /\ Queued(s) /\ UNCHANGED outcome
    /\ UNCHANGED breaching

\* link_timeout_s without a message.
LinkLost(s) ==
    /\ loop = None /\ s \notin cancelled /\ at[s] = "listening"
    /\ ReaderEnds(s)
    /\ UNCHANGED breachVars
-----------------------------------------------------------------------------
(* StateManager.update and its listeners.                                  *)

\* _notify: the listeners get the dictionary that is registered now, if any.
Notify(t) ==
    /\ target' = [target EXCEPT ![t] = entry]
    /\ Continues(t, IF entry = None THEN "notified" ELSE "health")

\* update(): the dictionary becomes d unless there is none; its listeners are called
\* at once or after those of another drone whose proximity fields it changed.
Update(t, d) ==
    /\ dict' = IF entry = None THEN dict ELSE [dict EXCEPT ![entry] = d]
    /\ \/ Notify(t)
       \/ entry # None /\ Suspends(t, "others") /\ target' = [target EXCEPT ![t] = None]

\* After the listeners of this drone come those of another one.
NotifyOthers(s) ==
    /\ loop = s /\ at[s] = "notified" /\ target[s] # None
    /\ Suspends(s, "others")
    /\ UNCHANGED <<stateVars, cancelled, stage, target, fired, boxVars, fence, breachVars>>

OthersNotified(s) ==
    /\ loop = None /\ at[s] = "others" /\ s \notin cancelled
    /\ \/ target[s] = None /\ Notify(s)
       \/ target[s] # None /\ Continues(s, "notified") /\ UNCHANGED target
    /\ UNCHANGED <<stateVars, cancelled, stage, fired, boxVars, fence, breachVars>>

\* The reader gets a message about the battery or the mode.
Receive(s) ==
    /\ loop = None /\ s \notin cancelled /\ at[s] = "listening"
    /\ \E batt \in Readings : Update(s, [dict[entry] EXCEPT !.batt = batt])
    /\ UNCHANGED <<entry, cancelled, stage, fired, boxVars, fence, breachVars>>

\* A position; it is checked against the fence once the listeners have run.
ReceivePosition(s) ==
    /\ loop = None /\ s \notin cancelled /\ at[s] = "listening"
    /\ Update(s, dict[entry])
    /\ \E pos \in Positions : stage' = [stage EXCEPT ![s] = pos]
    /\ UNCHANGED <<entry, cancelled, fired, boxVars, fence, breachVars>>

\* Another drone's update changed this one's proximity fields.
NeighbourMoves(n) ==
    /\ loop = None /\ entry # None /\ at[n] = "off"
    /\ target' = [target EXCEPT ![n] = entry]
    /\ Continues(n, "health")
    /\ UNCHANGED <<stateVars, cancelled, stage, fired, boxVars, fence, breachVars>>

\* The other drone is disconnected while its task awaits.
NeighbourCancelled(n) ==
    /\ loop = None /\ at[n] \in Awaiting
    /\ Returns(n, "off")
    /\ UNCHANGED <<stateVars, cancelled, fired, boxVars, fence, breachVars>>

\* A listener raises: the rest of update() and of process() is skipped, and the reader of t
\* logs it and goes on.
Raises(t) ==
    /\ Returns(t, IF t \in Sessions THEN "listening" ELSE "off")
    /\ Drops(t)
    /\ UNCHANGED <<stateVars, cancelled, fired, active, open, fence, breaching, events>>

\* The listeners of the other drone raise, maybe before those of this one are called.
OthersRaise(s) ==
    /\ loop = None /\ at[s] = "others" /\ s \notin cancelled
    /\ Raises(s)
    /\ stale' = (stale \/ target[s] = None)

\* HealthMonitor compares None with a number.
HealthRaises(t) ==
    /\ loop = t /\ at[t] = "health" /\ dict[target[t]].batt = "none"
    /\ Raises(t)
    /\ stale' = (stale \/ stage[t] \in Edges)

\* HealthMonitor: RTL for a low battery is requested, and marked after the awaits.
Health(t) ==
    /\ loop = t /\ at[t] = "health"
    /\ LET batt == dict[target[t]].batt IN
       \/ batt = "urgent" /\ ~fired /\ Suspends(t, "alerting") /\ UNCHANGED fired
       \/ /\ batt # "none" /\ (batt = "urgent" => fired)
          /\ Continues(t, "battery")
          /\ fired' = (fired /\ batt # "ok")
    /\ UNCHANGED <<stateVars, cancelled, stage, target, boxVars, fence, breachVars>>

Resumes(t) == stale' = (stale \/ target[t] # entry)

Alerted(t) ==
    /\ loop = None /\ at[t] = "alerting" /\ t \notin cancelled
    /\ fired' = TRUE
    /\ Continues(t, "battery")
    /\ Resumes(t)
    /\ UNCHANGED <<stateVars, cancelled, stage, target, active, open, fence, breachVars>>

\* Mutant: the word is marked instead of the issue.
Starts_Word(issue) ==
    /\ active' = active \cup {"key"}
    /\ open' = [open EXCEPT ![issue] = @ + 1]

Starts(issue) ==
    /\ active' = active \cup {issue}
    /\ open' = [open EXCEPT ![issue] = @ + 1]

\* Mutant: an issue that cleared stays marked.
Clears_StaysMarked(issue) ==
    /\ UNCHANGED active
    /\ open' = [open EXCEPT ![issue] = @ - 1]

Clears(issue) ==
    /\ active' = active \ {issue}
    /\ open' = [open EXCEPT ![issue] = @ - 1]

\* BlackBox._set: an issue is marked and unmarked on its edges, before the row is written.
Set(t, issue, condition, clear, row, next) ==
    \/ condition /\ issue \notin active /\ Starts(issue) /\ Suspends(t, row)
    \/ clear /\ issue \in active /\ Clears(issue) /\ Suspends(t, row)
    \/ /\ IF issue \in active THEN ~clear ELSE ~condition
       /\ Continues(t, next)
       /\ UNCHANGED <<active, open>>

\* BlackBox.evaluate, issue by issue.
BoxBattery(t) ==
    /\ loop = t /\ at[t] = "battery"
    /\ LET batt == dict[target[t]].batt
       IN  Set(t, "battery", batt \in {"low", "urgent"}, batt = "ok", "battery_row", "breach")
    /\ UNCHANGED <<stateVars, cancelled, stage, target, fired, stale, fence, breachVars>>

BoxBreach(t) ==
    /\ loop = t /\ at[t] = "breach"
    /\ LET flag == dict[target[t]].flag
       IN  Set(t, "breach", flag, ~flag, "breach_row", "notified")
    /\ UNCHANGED <<stateVars, cancelled, stage, target, fired, stale, fence, breachVars>>

\* The INSERT ended, well or not.
RowWritten(t) ==
    /\ loop = None /\ t \notin cancelled
    /\ \/ at[t] = "battery_row" /\ Continues(t, "breach")
       \/ at[t] = "breach_row" /\ Continues(t, "notified")
    /\ Resumes(t)
    /\ UNCHANGED <<stateVars, cancelled, stage, target, fired, active, open, fence, breachVars>>

NeighbourDone(n) ==
    /\ loop = n /\ at[n] = "notified"
    /\ Returns(n, "off")
    /\ UNCHANGED <<stateVars, cancelled, fired, boxVars, fence, breachVars>>
-----------------------------------------------------------------------------
(* The geofence, and the way of a breach to RTL.                           *)

\* set_geofence() by an operator, an upload or a simulation; None clears it.
SetFence(f) ==
    /\ loop = None /\ fence # f
    /\ fence' = f
    /\ UNCHANGED <<stateVars, taskVars, fired, boxVars, breachVars>>

Listens(s) == Returns(s, "listening")

\* A message that is no position, or a position that is no edge.
NoEdge(s) ==
    /\ loop = s /\ at[s] = "notified"
    /\ \/ stage[s] = "other"
       \/ stage[s] \in Positions /\ (fence = "none" \/ breaching = (stage[s] = "out"))
    /\ Listens(s)
    /\ UNCHANGED <<stateVars, cancelled, fired, boxVars, fence, breachVars>>

\* Mutant: a recovery is not injected into the state.
Injected_Sticky(d) == [d EXCEPT !.flag = @ \/ ~breaching]

\* The state with geofence_breach as it is after this edge.
Injected(d) == [d EXCEPT !.flag = ~breaching]

\* _check_geofence: the edge is marked, then shown to the listeners.
BreachEdge(s) ==
    /\ loop = s /\ at[s] = "notified"
    /\ stage[s] \in Positions /\ fence # "none" /\ breaching # (stage[s] = "out")
    /\ breaching' = ~breaching
    /\ stage' = [stage EXCEPT ![s] = IF breaching THEN "recovery" ELSE "breach"]
    /\ Update(s, Injected(dict[entry]))
    /\ outcome' = "open"
    /\ UNCHANGED <<entry, cancelled, fired, boxVars, fence, events>>

\* publish(): dropped without RabbitMQ.
Publish(s) ==
    /\ loop = s /\ at[s] = "notified" /\ stage[s] \in Edges
    /\ \/ Suspends(s, "publishing") /\ UNCHANGED <<stage, target, outcome>>
       \/ BrokerMayFail /\ Listens(s) /\ Drops(s)
    /\ UNCHANGED <<stateVars, cancelled, fired, boxVars, fence, breaching, events>>

\* The broker has it, or publishing failed.
Published(s) ==
    /\ loop = None /\ at[s] = "publishing" /\ s \notin cancelled
    /\ Listens(s)
    /\ \/ Queued(s) /\ UNCHANGED outcome
       \/ /\ BrokerMayFail
          /\ Drops(s)
          /\ UNCHANGED events
    /\ UNCHANGED <<stateVars, cancelled, fired, boxVars, fence, breaching>>

\* Mutant: without a fence the consumer takes RTL for disarmed.
Consume_FenceOnly ==
    /\ loop = None /\ events > 0
    /\ events' = events - 1
    /\ \/ fence = "enforced" /\ entry # None /\ Becomes("rtl")
       \/ (fence = "advisory" \/ entry = None) /\ Becomes("excused")
       \/ fence = "none" /\ entry # None /\ UNCHANGED outcome
    /\ UNCHANGED <<stateVars, taskVars, fired, boxVars, fence, breaching>>

\* start_geofence_rtl_consumer: RTL unless the enforcement is off or nothing is connected.
Consume ==
    /\ loop = None /\ events > 0
    /\ events' = events - 1
    /\ \/ fence # "advisory" /\ entry # None /\ Becomes("rtl")
       \/ (fence = "advisory" \/ entry = None) /\ Becomes("excused")
    /\ UNCHANGED <<stateVars, taskVars, fired, boxVars, fence, breaching>>
-----------------------------------------------------------------------------
Listeners(t) ==
    \/ HealthRaises(t) \/ Health(t) \/ Alerted(t)
    \/ BoxBattery(t) \/ BoxBreach(t) \/ RowWritten(t)

Reader(s) ==
    \/ Connect(s) \/ Cancelled(s) \/ LinkLost(s)
    \/ Receive(s) \/ ReceivePosition(s)
    \/ NotifyOthers(s) \/ OthersNotified(s) \/ OthersRaise(s)
    \/ NoEdge(s) \/ BreachEdge(s) \/ Publish(s) \/ Published(s)

Next ==
    \/ \E t \in Tasks : Listeners(t)
    \/ \E s \in Sessions : Reader(s)
    \/ \E n \in Neighbours : NeighbourMoves(n) \/ NeighbourCancelled(n) \/ NeighbourDone(n)
    \/ \E f \in Fences : SetFence(f)
    \/ Disconnect \/ Consume

Spec == Init /\ [][Next]_vars
-----------------------------------------------------------------------------
Quiet == \A t \in Tasks : at[t] \in {"off", "listening", "ended"}

\* "One row is written when an issue starts and one when it clears, never one per
\* telemetry tick": within a session starts and clears alternate, although the drone's
\* reader and its neighbours evaluate at the same time.
OneRowPerEdge == \A i \in Issues : open[i] \in {0, 1}

\* "A reconnect re-logs any issue that is still present": between updates the black
\* box has exactly the issues that the current session shows, unless an evaluation that
\* a neighbour started in an earlier session went on, or a listener that raised kept the
\* black box from being told.
BlackBoxAgrees ==
    Quiet /\ entry # None /\ ~stale =>
        /\ dict[entry].batt \in {"low", "urgent"} => open["battery"] = 1
        /\ dict[entry].batt = "ok"  => open["battery"] = 0
        /\ dict[entry].flag <=> open["breach"] = 1

\* The operator is shown a breach only while the edge detection is in breach too, so
\* that the return into the fence will clear it.
ShownBreachClears == entry # None /\ dict[entry].flag => breaching

\* "The authoritative path for auto-RTL": a detected breach is being published, waits in
\* the queue or has led to RTL, unless its event is excused.
BreachAnnounced ==
    breaching => \/ \E s \in Sessions : stage[s] = "breach"
                 \/ events > 0 \/ outcome # "open"

=============================================================================
