------------------------- MODULE CommandController -------------------------
(***************************************************************************)
(* One drone's CommandController: send() validates an operator command,    *)
(* refuses it while another with the same MAVLink command id awaits its    *)
(* COMMAND_ACK, dispatches it from an executor thread, waits for the ACK   *)
(* and retries on silence.  handle_ack() runs on the reader's task.  The   *)
(* radio may lose, delay or reorder both directions.                       *)
(***************************************************************************)
EXTENDS Naturals, Sequences, FiniteSets

CONSTANTS Reqs,          \* calls of send()
          Commands,      \* the commands the operators of this instance issue
          MaxRetries,    \* MAX_RETRIES
          HistoryLimit,  \* HISTORY_LIMIT
          None

\* _command_to_mavlink_id: arm and disarm share one id, the commands not named
\* here have none.
Id(k) == CASE k \in {"arm", "disarm"} -> "ARM_DISARM"
           [] k = "takeoff"           -> "TAKEOFF"
           [] k = "emergency_stop"    -> "FLIGHTTERMINATION"
           [] OTHER                   -> "no id"

Ids == {"ARM_DISARM", "TAKEOFF", "FLIGHTTERMINATION"}

KnownCommands == {"arm", "disarm", "takeoff", "emergency_stop", "set_mode", "rtl",
                  "land", "goto", "velocity", "unknown"}

ASSUME CommandAssumption ==
    /\ Commands \subseteq KnownCommands
    /\ MaxRetries \in Nat \ {0}
    /\ HistoryLimit \in Nat \ {0}
    /\ None \notin Reqs \cup KnownCommands \cup {"ACCEPTED", "DENIED", "FAILED", "TIMEOUT"}

VARIABLES
    cmd,       \* the command of each call
    phase,     \* where send() is suspended
    tries,     \* attempt counter of its retry loop
    result,    \* record.result once it returned
    fut,       \* what handle_ack() put into the Future of the current attempt
    pending,   \* _pending: command id -> call whose Future is registered
    uplink,    \* dispatched messages <<call, attempt>> on their way to the vehicle
    downlink,  \* COMMAND_ACKs on their way back
    executed,  \* calls whose command the vehicle carried out
    armed,     \* the vehicle's motors
    cached,    \* StateManager's view: is_armed, and whether battery and GPS are fit to arm;
               \* "unreported" if a BATTERY_STATUS left the battery as None
    history    \* _history

callVars == <<cmd, phase, tries, result, fut>>
vars == <<callVars, pending, uplink, downlink, executed, armed, cached, history>>

Ack == [req : Reqs, try : 1..MaxRetries, verdict : {"accepted", "failed", "in_progress"}]

TypeOK ==
    /\ cmd \in [Reqs -> Commands \cup {None}]
    /\ phase \in [Reqs -> {"idle", "dispatching", "sent", "waiting", "grace", "done"}]
    /\ tries \in [Reqs -> 0..MaxRetries]
    /\ result \in [Reqs -> {None, "ACCEPTED", "DENIED", "FAILED", "TIMEOUT"}]
    /\ fut \in [Reqs -> {None, "ACCEPTED", "FAILED"}]
    /\ pending \in [Ids -> Reqs \cup {None}]
    /\ uplink \subseteq Reqs \X (1..MaxRetries)
    /\ downlink \subseteq Ack
    /\ executed \subseteq Reqs
    /\ armed \in BOOLEAN
    /\ cached \in [armed : BOOLEAN, fit : {"yes", "no", "unreported"}]
    /\ history \in Seq(Reqs)
    /\ Len(history) <= HistoryLimit

Init ==
    /\ cmd = [q \in Reqs |-> None]
    /\ phase = [q \in Reqs |-> "idle"]
    /\ tries = [q \in Reqs |-> 0]
    /\ result = [q \in Reqs |-> None]
    /\ fut = [q \in Reqs |-> None]
    /\ pending = [i \in Ids |-> None]
    /\ uplink = {}
    /\ downlink = {}
    /\ executed = {}
    /\ armed = FALSE
    /\ cached = [armed |-> FALSE, fit |-> "no"]
    /\ history = <<>>
-----------------------------------------------------------------------------
\* _validate: denial by the cached state or by malformed parameters.
Denies(k, wellFormed) ==
    \/ k = "arm" /\ (cached.armed \/ cached.fit = "no")
    \/ k = "disarm" /\ ~cached.armed
    \/ k = "takeoff" /\ ~cached.armed
    \/ k \in {"takeoff", "set_mode", "velocity", "goto"} /\ ~wellFormed

\* None is compared with a number: send() raises, without a record.
Raises(k) == k = "arm" /\ ~cached.armed /\ cached.fit = "unreported"

\* Mutant: the oldest record is never dropped.
Recorded_Unbounded(q) == Append(history, q)

\* _append
Recorded(q) ==
    IF Len(history) = HistoryLimit THEN Append(Tail(history), q) ELSE Append(history, q)

\* send() returns: the record gets its result and enters the history.
Return(q, r) ==
    /\ phase' = [phase EXCEPT ![q] = "done"]
    /\ result' = [result EXCEPT ![q] = r]
    /\ history' = Recorded(q)

\* The collision guard of send(): an ACK for this id is outstanding.
Collides(k) == Id(k) \in Ids /\ pending[Id(k)] # None

\* send() up to its first suspension: validation, collision guard, first dispatch.
Submit(q, k, wellFormed) ==
    /\ phase[q] = "idle"
    /\ cmd' = [cmd EXCEPT ![q] = k]
    /\ \/ /\ Denies(k, wellFormed) \/ (~Raises(k) /\ Collides(k))
          /\ Return(q, "DENIED")
          /\ UNCHANGED tries
       \/ /\ Raises(k)
          /\ phase' = [phase EXCEPT ![q] = "done"]
          /\ UNCHANGED <<tries, result, history>>
       \/ /\ ~Denies(k, wellFormed) /\ ~Raises(k) /\ ~Collides(k)
          /\ phase' = [phase EXCEPT ![q] = "dispatching"]
          /\ tries' = [tries EXCEPT ![q] = 1]
          /\ UNCHANGED <<result, history>>
    /\ UNCHANGED <<fut, pending, uplink, downlink, executed, armed, cached>>

\* The executor thread has written the message; the coroutine has not resumed yet.
DispatchSent(q) ==
    /\ phase[q] = "dispatching" /\ cmd[q] # "unknown"
    /\ phase' = [phase EXCEPT ![q] = "sent"]
    /\ uplink' = uplink \cup {<<q, tries[q]>>}
    /\ UNCHANGED <<cmd, tries, result, fut, pending, downlink, executed, armed, cached, history>>

\* _dispatch raised: the link is gone, or the command is unknown.
DispatchFails(q) ==
    /\ phase[q] = "dispatching"
    /\ Return(q, "FAILED")
    /\ UNCHANGED <<cmd, tries, fut, pending, uplink, downlink, executed, armed, cached>>

\* _await_ack: a fresh Future replaces whatever is registered for the id; a
\* command without an ACK only waits its grace period.
AwaitAck(q) ==
    /\ phase[q] = "sent"
    /\ \/ /\ Id(cmd[q]) \in Ids
          /\ phase' = [phase EXCEPT ![q] = "waiting"]
          /\ pending' = [pending EXCEPT ![Id(cmd[q])] = q]
          /\ fut' = [fut EXCEPT ![q] = None]
       \/ /\ Id(cmd[q]) \notin Ids
          /\ phase' = [phase EXCEPT ![q] = "grace"]
          /\ UNCHANGED <<pending, fut>>
    /\ UNCHANGED <<cmd, tries, result, uplink, downlink, executed, armed, cached, history>>

GraceOver(q) ==
    /\ phase[q] = "grace"
    /\ Return(q, "ACCEPTED")
    /\ UNCHANGED <<cmd, tries, fut, pending, uplink, downlink, executed, armed, cached>>

\* wait_for returns the value handle_ack() stored.
Resolved(q) ==
    /\ phase[q] = "waiting" /\ fut[q] # None
    /\ Return(q, fut[q])
    /\ UNCHANGED <<cmd, tries, fut, pending, uplink, downlink, executed, armed, cached>>

\* Mutant: the timeout leaves the Future registered.
ClearPending_Kept(q) == UNCHANGED pending

\* "self._pending.pop(cmd_id, None)": whichever Future is registered.
ClearPending(q) == pending' = [pending EXCEPT ![Id(cmd[q])] = None]

\* Mutant: a timeout starts over without counting the attempt.
AckTimeout_Uncounted(q) ==
    /\ phase[q] = "waiting" /\ fut[q] = None
    /\ ClearPending(q)
    /\ phase' = [phase EXCEPT ![q] = "dispatching"]
    /\ UNCHANGED <<cmd, tries, result, history, fut, uplink, downlink, executed, armed, cached>>

\* ACK_TIMEOUT_S passed: the last attempt reports TIMEOUT, an earlier one retries.
AckTimeout(q) ==
    /\ phase[q] = "waiting" /\ fut[q] = None
    /\ ClearPending(q)
    /\ \/ /\ tries[q] = MaxRetries
          /\ Return(q, "TIMEOUT")
          /\ UNCHANGED tries
       \/ /\ tries[q] < MaxRetries
          /\ phase' = [phase EXCEPT ![q] = "dispatching"]
          /\ tries' = [tries EXCEPT ![q] = @ + 1]
          /\ UNCHANGED <<result, history>>
    /\ UNCHANGED <<cmd, fut, uplink, downlink, executed, armed, cached>>
-----------------------------------------------------------------------------
\* Mutant: every ACK counts as an acceptance.
Outcome_AlwaysAccepted(verdict) == "ACCEPTED"

\* MAV_RESULT_ACCEPTED is success, everything else (IN_PROGRESS too) a failure.
Outcome(verdict) == IF verdict = "accepted" THEN "ACCEPTED" ELSE "FAILED"

\* The call whose Future an ACK with this id resolves.
Addressee(a) == pending[Id(cmd[a.req])]

\* handle_ack
AckArrives(a) ==
    /\ a \in downlink
    /\ downlink' = downlink \ {a}
    /\ pending' = [pending EXCEPT ![Id(cmd[a.req])] = None]
    /\ fut' = IF Addressee(a) = None THEN fut
              ELSE [fut EXCEPT ![Addressee(a)] = Outcome(a.verdict)]
    /\ UNCHANGED <<cmd, phase, tries, result, uplink, executed, armed, cached, history>>

\* The vehicle handles a message: it refuses, or carries it out at once or after
\* an IN_PROGRESS report.  Only commands with an id are acknowledged.
VehicleHandles(m, verdict) ==
    /\ m \in uplink
    /\ uplink' = uplink \ {m}
    /\ downlink' = IF Id(cmd[m[1]]) \in Ids
                   THEN downlink \cup {[req |-> m[1], try |-> m[2], verdict |-> verdict]}
                   ELSE downlink
    /\ executed' = IF verdict = "failed" THEN executed ELSE executed \cup {m[1]}
    /\ armed' = IF verdict = "failed" THEN armed
                ELSE (armed \/ cmd[m[1]] = "arm") /\ cmd[m[1]] \notin {"disarm", "emergency_stop"}
    /\ UNCHANGED <<callVars, pending, cached, history>>

\* The radio loses a message or an ACK.
Lose ==
    /\ \/ /\ \E m \in uplink : uplink' = uplink \ {m}
          /\ UNCHANGED downlink
       \/ /\ \E a \in downlink : downlink' = downlink \ {a}
          /\ UNCHANGED uplink
    /\ UNCHANGED <<callVars, pending, executed, armed, cached, history>>

\* A HEARTBEAT, or a battery or GPS report, refreshes the cached state.
Telemetry ==
    /\ \E fit \in {"yes", "no", "unreported"} : cached' = [armed |-> armed, fit |-> fit]
    /\ UNCHANGED <<callVars, pending, uplink, downlink, executed, armed, history>>
-----------------------------------------------------------------------------
\* The steps send() takes without an ACK: threads end, timers fire.
SendStep(q) ==
    \/ DispatchSent(q) \/ DispatchFails(q) \/ AwaitAck(q)
    \/ GraceOver(q) \/ Resolved(q) \/ AckTimeout(q)

Next ==
    \/ \E q \in Reqs, k \in Commands, wellFormed \in BOOLEAN : Submit(q, k, wellFormed)
    \/ \E q \in Reqs : SendStep(q)
    \/ \E a \in downlink : AckArrives(a)
    \/ \E m \in uplink, v \in {"accepted", "failed", "in_progress"} : VehicleHandles(m, v)
    \/ Lose
    \/ Telemetry

\* The event loop and the executor serve every call; the radio, the vehicle and
\* the operators owe nothing.
Spec == Init /\ [][Next]_vars /\ \A q \in Reqs : WF_vars(SendStep(q))
-----------------------------------------------------------------------------
\* _pending holds no abandoned Future: the call registered for an id still waits
\* for it and no result has been stored.  An abandoned one would make the
\* collision guard refuse every later command with that id.
PendingIsAwaited ==
    \A i \in Ids : pending[i] # None =>
        /\ phase[pending[i]] = "waiting"
        /\ Id(cmd[pending[i]]) = i
        /\ fut[pending[i]] = None

\* An acceptance reported for an acknowledged command is backed by the vehicle:
\* it carried out some command with that id.
AcceptanceIsBacked ==
    \A q \in Reqs : result[q] = "ACCEPTED" /\ Id(cmd[q]) \in Ids =>
        \E p \in executed : Id(cmd[p]) = Id(cmd[q])

\* Every send() returns, with or without an ACK.
SendReturns == \A q \in Reqs : (phase[q] # "idle") ~> (phase[q] = "done")
=============================================================================
