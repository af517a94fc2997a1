--------------------------- MODULE SimulatedFlight ---------------------------
(***************************************************************************)
(* drone_control/mission_simulator.py with mavlink_broadcaster.py: the     *)
(* phases of simulated flights, the command queue each tick drains, the    *)
(* commands an external ground station sends through the broadcast link,   *)
(* collision avoidance between flights, the geofence check at the end of   *)
(* a push and the RTL consumer behind it.                                  *)
(*                                                                         *)
(* A flight moves along a row of cells, one cell a tick; two flights in    *)
(* one cell at one height are within the conflict radius.  Height 0 is the *)
(* ground and height 1 the height of the route.                            *)
(***************************************************************************)
EXTENDS Integers, Sequences

CONSTANTS Drones,       \* drone ids, which decide who gives way
          Far,          \* cells are 0..Far
          Launch,       \* the cell of the home waypoint of each flight's mission
          Route,        \* the cells of the mission's waypoints
          Fence,        \* the cells inside the geofence
          Enforce,      \* Mission.enforce_airspace
          Broker,       \* RabbitMQ is connected
          Aside,        \* the target of a goto command
          Orders,       \* the commands operators give
          GcsOrders,    \* the commands an external ground station sends
          MaxEvents,    \* bound: flights started and commands given, together
          MaxInbox      \* bound: breach events of a flight that wait in geofence_rtl_queue

ASSUME FlightAssumption == /\ Drones \subseteq Nat /\ Far \in Nat
                           /\ Launch \in [Drones -> 0..Far] /\ Route \in Seq(0..Far)
                           /\ Fence \subseteq 0..Far
                           /\ Enforce \in BOOLEAN /\ Broker \in BOOLEAN
                           /\ Aside \in 0..Far /\ MaxEvents \in Nat /\ MaxInbox \in Nat \ {0}

VARIABLES sim,       \* the _SimulatedFlight of each drone
          loop,      \* where its _run() is; "off" without a task
          profile,   \* where the push of a set_flight_profile command is
          queue,     \* _cmds
          links,     \* drone ids of the broadcaster's open links
          inbox,     \* breach events in geofence_rtl_queue
          ignored,   \* history: the flight is outside its fence and nothing was to turn it home
          events     \* how many of the bounded events happened

fvars == <<sim, loop, profile, queue, links, inbox, ignored, events>>

NoDrone == -1   \* drone_id None
Pushers == {"run", "profile"}
Airborne == {"takeoff", "flying", "guided", "paused", "rtl"}
Grounded == {"idle", "armed", "landed"}
Cells == 0..Far

Parked(d) == [phase |-> "idle", armed |-> FALSE, pos |-> Launch[d], alt |-> 0, wps |-> Route,
              idx |-> 0, back |-> <<>>, home |-> Launch[d], manual |-> FALSE,
              offset |-> 0, avoiding |-> FALSE, breaching |-> FALSE]

FlightInit == /\ sim = [d \in Drones |-> Parked(d)]
              /\ loop = [d \in Drones |-> "off"]
              /\ profile = [d \in Drones |-> "off"]
              /\ queue = [d \in Drones |-> <<>>]
              /\ links = {} /\ inbox = [d \in Drones |-> 0]
              /\ ignored = [d \in Drones |-> FALSE]
              /\ events = 0

Active(d) == loop[d] # "off"
OnRoute(s) == s.idx < Len(s.wps)
-----------------------------------------------------------------------------
(* _handle_cmd *)

Toward(from, to) == IF from < to THEN from + 1 ELSE IF from > to THEN from - 1 ELSE from
Held(phase) == phase \notin {"idle", "landed", "landing"}

\* _enter_rtl: straight home, or back over the waypoints passed.
EnterRTL(s, retrace) ==
    [s EXCEPT !.phase = "rtl",
              !.back = IF retrace THEN [i \in 1..s.idx |-> s.wps[s.idx + 1 - i]] ELSE <<>>]

Takeoff(s) == [s EXCEPT !.armed = TRUE, !.phase = "takeoff"]

\* The current waypoint is replaced, or the route when it is flown.
Goto(s) ==
    [s EXCEPT !.wps = IF OnRoute(s) THEN [s.wps EXCEPT ![s.idx + 1] = Aside] ELSE <<Aside>>,
              !.idx = IF OnRoute(s) THEN @ ELSE 0,
              !.phase = IF Held(@) THEN "flying" ELSE @]

Handle(c, s) ==
    CASE c = "arm" /\ s.phase = "idle" -> [s EXCEPT !.armed = TRUE, !.phase = "armed"]
      [] c = "disarm" /\ s.phase \in {"armed", "landed"} -> [s EXCEPT !.armed = FALSE, !.phase = "idle"]
      [] c = "takeoff" /\ s.phase \in {"idle", "armed"} -> Takeoff(s)
      [] c = "auto" /\ s.phase \in {"idle", "armed"} /\ s.wps # <<>> -> Takeoff(s)
      [] c = "auto" /\ s.phase \in {"guided", "paused"} -> [s EXCEPT !.phase = "flying"]
      [] c = "guided" /\ Held(s.phase) -> [s EXCEPT !.phase = "guided"]
      [] c = "loiter" /\ s.phase = "flying" -> [s EXCEPT !.phase = "paused"]
      [] c = "rtl" -> EnterRTL(s, FALSE)
      [] c = "retrace" -> EnterRTL(s, TRUE)
      [] c = "land" -> [s EXCEPT !.phase = "landing"]
      [] c = "velocity" /\ Held(s.phase) ->
            [s EXCEPT !.manual = TRUE, !.phase = IF @ = "rtl" THEN "guided" ELSE @]
      [] c = "profile" /\ s.phase = "paused" /\ OnRoute(s) -> [s EXCEPT !.phase = "flying"]
      [] c = "goto" -> Goto(s)
      [] c = "emergency_stop" -> [s EXCEPT !.armed = FALSE, !.alt = 0, !.phase = "landed"]
      [] OTHER -> s

\* _handle_external_command
HandleExternal(c, s) == IF c = "set_home" THEN [s EXCEPT !.home = s.pos] ELSE Handle(c, s)

\* Every command of the queue, in order.
HandleAll(q, s) ==
    LET after[i \in 0..Len(q)] == IF i = 0 THEN s ELSE Handle(q[i], after[i - 1])
    IN after[Len(q)]
-----------------------------------------------------------------------------
(* _tick *)

\* The velocity window of a manual command, one tick long, moves the vehicle
\* instead of its phase.
ManualTick(s) == [s EXCEPT !.pos = IF @ < Far THEN @ + 1 ELSE @, !.manual = FALSE]

\* The climb takes more than one tick.
TakeoffTick(s) == [s EXCEPT !.alt = 1, !.phase = IF s.alt >= 1 THEN "flying" ELSE @]

FlyingTick(s) ==
    LET at == [s EXCEPT !.pos = Toward(s.pos, s.wps[s.idx + 1]), !.alt = Toward(@, 1)]
        reached == at.pos = s.wps[s.idx + 1] /\ at.alt = 1
    IN IF ~reached THEN at
       ELSE [at EXCEPT !.idx = @ + 1, !.phase = IF s.idx + 1 = Len(s.wps) THEN "paused" ELSE @]

RetraceTick(s) ==
    LET at == [s EXCEPT !.pos = Toward(s.pos, Head(s.back)), !.alt = Toward(@, 1)]
    IN IF at.pos = Head(s.back) /\ at.alt = 1 THEN [at EXCEPT !.back = Tail(@)] ELSE at

\* Mutant: the vehicle does not descend over its home.
X_NoDescent(s) == [s EXCEPT !.pos = Toward(s.pos, s.home)]

HomingTick(s) == [s EXCEPT !.pos = Toward(s.pos, s.home), !.alt = IF s.pos = s.home /\ @ > 0 THEN @ - 1 ELSE @]

LandingTick(s) ==
    IF s.alt > 1 THEN [s EXCEPT !.alt = @ - 1]
    ELSE [s EXCEPT !.alt = 0, !.armed = FALSE, !.phase = "landed"]

\* _apply_collision_avoidance: of two flights in conflict the one with the
\* higher id borrows height and steps aside; without a conflict it gives the
\* height back.
Conflict(d, s) ==
    \E o \in Drones : /\ o < d /\ Active(o) /\ sim[o].phase \notin Grounded
                      /\ sim[o].pos = s.pos /\ sim[o].alt = s.alt

\* Mutant: the height already borrowed is not taken into account.
X_BorrowAgain(d, s) ==
    IF s.phase \notin Airborne THEN {s}
    ELSE IF Conflict(d, s)
    THEN {[s EXCEPT !.avoiding = TRUE, !.offset = @ + 1, !.alt = @ + 1, !.pos = p] :
             p \in {s.pos, s.pos + 1} \cap Cells}
    ELSE {[s EXCEPT !.avoiding = FALSE, !.offset = 0, !.alt = IF @ > s.offset THEN @ - s.offset ELSE 0]}

Avoid(d, s) ==
    IF s.phase \notin Airborne THEN {s}
    ELSE IF Conflict(d, s)
    THEN {[s EXCEPT !.avoiding = TRUE, !.offset = 1, !.alt = @ + 1 - s.offset, !.pos = p] :
             p \in {s.pos, s.pos + 1} \cap Cells}
    ELSE {[s EXCEPT !.avoiding = FALSE, !.offset = 0, !.alt = IF @ > s.offset THEN @ - s.offset ELSE 0]}

\* Some branches return before the avoidance.
Ticked(d, s) ==
    IF s.manual THEN {ManualTick(s)}
    ELSE CASE s.phase = "takeoff" -> Avoid(d, TakeoffTick(s))
           [] s.phase = "flying" /\ ~OnRoute(s) -> {[s EXCEPT !.phase = "paused"]}
           [] s.phase = "flying" /\ OnRoute(s) -> Avoid(d, FlyingTick(s))
           [] s.phase = "guided" -> UNION {Avoid(d, [s EXCEPT !.pos = p]) : p \in {s.pos - 1, s.pos, s.pos + 1} \cap Cells}
           [] s.phase = "rtl" /\ s.back # <<>> -> {RetraceTick(s)}
           [] s.phase = "rtl" /\ s.back = <<>> /\ s.pos = s.home /\ s.alt = 0 ->
                {[s EXCEPT !.armed = FALSE, !.phase = "landed"]}
           [] s.phase = "rtl" /\ s.back = <<>> -> Avoid(d, HomingTick(s))
           [] s.phase = "landing" -> {LandingTick(s)}
           [] OTHER -> Avoid(d, s)
-----------------------------------------------------------------------------
(* SimulationManager and the flight's tasks *)

StartFlight(d) ==
    /\ events < MaxEvents /\ ~Active(d) /\ profile[d] = "off"
    /\ sim' = [sim EXCEPT ![d] = Parked(d)]
    /\ loop' = [loop EXCEPT ![d] = "tick"]
    /\ queue' = [queue EXCEPT ![d] = <<>>]
    /\ ignored' = [ignored EXCEPT ![d] = FALSE]
    /\ events' = events + 1
    /\ UNCHANGED <<profile, links, inbox>>

\* The route is resumed while the flight is known to be outside its fence.
Resumes(s, t) == s.breaching /\ s.phase # "flying" /\ t.phase = "flying"

\* command(): queued for the next tick, or for a flight profile applied at once
\* and followed by a push of its own.
Command(d, c) ==
    /\ Active(d) /\ events < MaxEvents
    /\ events' = events + 1
    /\ IF c # "profile"
       THEN /\ queue' = [queue EXCEPT ![d] = Append(@, c)]
            /\ UNCHANGED <<sim, profile, ignored>>
       ELSE /\ profile[d] = "off"
            /\ profile' = [profile EXCEPT ![d] = "push"]
            /\ sim' = [sim EXCEPT ![d] = Handle(c, @)]
            /\ ignored' = [ignored EXCEPT ![d] = @ \/ Resumes(sim[d], Handle(c, sim[d]))]
            /\ UNCHANGED queue
    /\ UNCHANGED <<loop, links, inbox>>

\* One round of _run() up to the await in _push().
Tick(d) ==
    /\ loop[d] = "tick"
    /\ \E s \in Ticked(d, HandleAll(queue[d], sim[d])) :
          /\ sim' = [sim EXCEPT ![d] = s]
          /\ ignored' = [ignored EXCEPT ![d] = @ \/ Resumes(sim[d], s)]
    /\ queue' = [queue EXCEPT ![d] = <<>>]
    /\ loop' = [loop EXCEPT ![d] = "push"]
    /\ UNCHANGED <<profile, links, inbox, events>>

\* The push is over: the loop of a flight that has landed waits 3 s and ends.
PushOver(d, w, s) ==
    IF w = "profile"
    THEN profile' = [profile EXCEPT ![d] = "off"] /\ UNCHANGED loop
    ELSE loop' = [loop EXCEPT ![d] = IF s.phase = "landed" THEN "grace" ELSE "tick"] /\ UNCHANGED profile

At(d, w, where) == IF w = "run" THEN loop[d] = where ELSE profile[d] = where

\* The push of a flight that stop() has taken its drone_id from opens a link
\* for no drone.
PushedAfterStop(d) ==
    /\ profile[d] = "orphan"
    /\ profile' = [profile EXCEPT ![d] = "off"]
    /\ links' = links \cup {NoDrone}
    /\ UNCHANGED <<sim, loop, queue, inbox, ignored, events>>

\* StateManager.update() returns to _push(): the broadcaster opens the link it
\* lacks, drains what a ground station has sent, and _check_geofence() starts.
\* A breach edge is marked before its two awaits.
Pushed(d, w, c) ==
    /\ At(d, w, "push")
    /\ c # "none" => Active(d) /\ events < MaxEvents
    /\ events' = IF c = "none" THEN events ELSE events + 1
    /\ links' = links \cup {d}
    /\ LET s == HandleExternal(c, sim[d])
           out == s.pos \notin Fence
       IN /\ sim' = [sim EXCEPT ![d] = [s EXCEPT !.breaching = out]]
          /\ ignored' = [ignored EXCEPT ![d] = out /\ ((s.breaching /\ @) \/ Resumes(sim[d], s))]
          /\ IF out # s.breaching
             THEN IF w = "run" THEN loop' = [loop EXCEPT ![d] = IF out THEN "breach" ELSE "recovery"] /\ UNCHANGED profile
                  ELSE profile' = [profile EXCEPT ![d] = IF out THEN "breach" ELSE "recovery"] /\ UNCHANGED loop
             ELSE PushOver(d, w, s)
    /\ UNCHANGED <<queue, inbox>>

\* Mutant: turning home is left to the RTL consumer.
X_LeftToConsumer(d, w) ==
    /\ At(d, w, "breach") /\ inbox[d] < MaxInbox
    /\ inbox' = IF Broker THEN [inbox EXCEPT ![d] = @ + 1] ELSE inbox
    /\ PushOver(d, w, sim[d])
    /\ ignored' = [ignored EXCEPT ![d] = @ \/ (sim[d].breaching /\ sim[d].phase # "flying")]
    /\ UNCHANGED <<sim, queue, links, events>>

\* The breach is shown and published; a flight that is on its route now turns home.
BreachAnnounced(d, w) ==
    /\ At(d, w, "breach") /\ inbox[d] < MaxInbox
    /\ inbox' = IF Broker THEN [inbox EXCEPT ![d] = @ + 1] ELSE inbox
    /\ LET s == IF sim[d].phase = "flying" /\ Enforce THEN [sim[d] EXCEPT !.phase = "rtl"] ELSE sim[d]
       IN /\ sim' = [sim EXCEPT ![d] = s]
          /\ ignored' = [ignored EXCEPT ![d] = @ \/ (s.breaching /\ sim[d].phase # "flying")]
          /\ PushOver(d, w, s)
    /\ UNCHANGED <<queue, links, events>>

RecoveryAnnounced(d, w) ==
    /\ At(d, w, "recovery")
    /\ PushOver(d, w, sim[d])
    /\ UNCHANGED <<sim, queue, links, inbox, ignored, events>>

\* A listener of the state, the broadcaster, the fence lookup or the publication raises
\* ("Sim tick failed"): the rest of the push is skipped and the flight goes on.
PushFails(d, w) ==
    /\ \E where \in {"push", "breach", "recovery"} : At(d, w, where)
    /\ ignored' = [ignored EXCEPT ![d] = @ \/ sim[d].breaching \/ sim[d].pos \notin Fence]
    /\ PushOver(d, w, sim[d])
    /\ UNCHANGED <<sim, queue, links, inbox, events>>

\* _rtl_handler: an enforced breach becomes an rtl command of its own.
ConsumeBreach(d) ==
    /\ inbox[d] > 0
    /\ inbox' = [inbox EXCEPT ![d] = @ - 1]
    /\ queue' = IF Enforce /\ Active(d) THEN [queue EXCEPT ![d] = Append(@, "rtl")] ELSE queue
    /\ UNCHANGED <<sim, loop, profile, links, ignored, events>>

\* _cleanup: the state entry, the link and the connection go; the queue is lost.
CleanUp(d) ==
    /\ loop' = [loop EXCEPT ![d] = "off"]
    /\ links' = links \ {d}
    /\ queue' = [queue EXCEPT ![d] = <<>>]
    /\ UNCHANGED <<inbox, events>>

GraceOver(d) == loop[d] = "grace" /\ CleanUp(d) /\ UNCHANGED <<sim, profile, ignored>>

\* stop(): the task is cancelled at its await, the phase is set to IDLE and
\* drone_id to None.
StopFlight(d) ==
    /\ Active(d)
    /\ profile' = [profile EXCEPT ![d] = IF @ = "push" THEN "orphan" ELSE "off"]
    /\ sim' = [sim EXCEPT ![d] = Parked(d)]
    /\ ignored' = [ignored EXCEPT ![d] = FALSE]
    /\ CleanUp(d)

PushStep(d, w) == \/ Pushed(d, w, "none") \/ BreachAnnounced(d, w) \/ RecoveryAnnounced(d, w)
                  \/ PushFails(d, w)

RunStep(d) == Tick(d) \/ PushStep(d, "run") \/ GraceOver(d)

FlightNext == \E d \in Drones : \/ StartFlight(d) \/ StopFlight(d)
                                \/ RunStep(d) \/ PushStep(d, "profile") \/ PushedAfterStop(d)
                                \/ ConsumeBreach(d)
                                \/ \E c \in Orders : Command(d, c)
                                \/ \E c \in GcsOrders, w \in Pushers : Pushed(d, w, c)

\* The event loop runs every task, and sleeps, updates and publications end.
FlightFairness == \A d \in Drones : /\ WF_fvars(RunStep(d)) /\ WF_fvars(PushStep(d, "profile"))
                                    /\ WF_fvars(ConsumeBreach(d))

FlightSpec == FlightInit /\ [][FlightNext]_fvars /\ FlightFairness
-----------------------------------------------------------------------------
(* Properties *)

\* Every variable keeps its type, and heights and cells their bounds.
FlightTypeOK ==
    /\ \A d \in Drones : /\ sim[d].phase \in Airborne \cup Grounded \cup {"landing"}
                         /\ sim[d].pos \in Cells /\ sim[d].alt \in 0..2 /\ sim[d].offset \in 0..1
                         /\ sim[d].idx \in 0..Len(sim[d].wps) /\ sim[d].home \in Cells
                         /\ inbox[d] \in 0..MaxInbox
    /\ loop \in [Drones -> {"off", "tick", "push", "breach", "recovery", "grace"}]
    /\ profile \in [Drones -> {"off", "push", "breach", "recovery", "orphan"}]
    /\ links \subseteq Drones \cup {NoDrone}
    /\ events \in 0..MaxEvents

\* A flight that is on its route outside an enforced fence has not been missed by
\* the edge detection: between pushes it is only found there when its breach was
\* noticed in another phase, the route was resumed out there, or a push was cut
\* short by an error.
BreachTurnsHome ==
    \A d \in Drones :
        (/\ Enforce /\ loop[d] = "tick" /\ profile[d] = "off"
         /\ sim[d].phase = "flying" /\ sim[d].pos \notin Fence) => ignored[d]

\* A flight told to return to launch leaves the phase: it lands, is told
\* something else or is stopped, unless other traffic keeps it from landing.
ReturnsHome ==
    \A d \in Drones :
        sim[d].phase = "rtl" ~> \/ sim[d].phase # "rtl"
                               \/ \E o \in Drones \ {d} : Active(o) /\ sim[o].phase \notin Grounded
=============================================================================
