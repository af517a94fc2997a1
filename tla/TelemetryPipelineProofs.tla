----------------------- MODULE TelemetryPipelineProofs -----------------------
(***************************************************************************)
(* Proofs about TelemetryPipeline for any number of registrations of the   *)
(* drone, any number of neighbours and any bound on the queue.             *)
(***************************************************************************)
EXTENDS TelemetryPipeline, TLAPS

\* The black box's marks and the rows of the session agree.
MarksAreRows == \A i \in Issues : open[i] = IF i \in active THEN 1 ELSE 0

\* A reader that is not in an update is about nothing.
IdleIsAboutNothing ==
    \A s \in Sessions : at[s] \in {"off", "listening", "ended"} => stage[s] = "other"

\* Only a session that began is registered, or has a dictionary that is looked at.
OnlyBegunSessions ==
    \A s \in Sessions : at[s] = "off" => entry # s /\ \A t \in Tasks : target[t] # s

\* The inductive invariant.
IInv == /\ TypeOK /\ MarksAreRows /\ IdleIsAboutNothing /\ OnlyBegunSessions
        /\ ShownBreachClears /\ BreachAnnounced

LEMMA InitIInv == Init => IInv
<1> SUFFICES ASSUME Init PROVE IInv
  OBVIOUS
<1>1. TypeOK
  <2>1. Default \in State
    BY DEF Default, State, Batteries
  <2>2. MaxEvents \in Nat /\ 0 \in 0..MaxEvents
    BY PipelineAssumption
  <2>3. open \in [Issues -> Int] /\ active \in SUBSET Issues
    BY DEF Init
  <2>4. at \in [Tasks -> {"off", "listening", "ended"} \cup Awaiting \cup Running]
    BY DEF Init
  <2> QED
    BY <2>1, <2>2, <2>3, <2>4 DEF Init, TypeOK
<1>2. MarksAreRows /\ IdleIsAboutNothing
  BY DEF Init, MarksAreRows, IdleIsAboutNothing, Tasks
<1>3. OnlyBegunSessions
  BY PipelineAssumption DEF Init, OnlyBegunSessions, Tasks
<1>4. ShownBreachClears /\ BreachAnnounced
  BY DEF Init, ShownBreachClears, BreachAnnounced
<1> QED
  BY <1>1, <1>2, <1>3, <1>4 DEF IInv

\* A session begins with an empty dictionary, since nobody looks at its own yet.
LEMMA ConnectPreserves == ASSUME IInv, NEW s \in Sessions, Connect(s) PROVE IInv'
<1> USE DEF IInv
<1>1. TypeOK'
  <2>1. dict' \in [Sessions -> State]
    BY DEF Connect, TypeOK, Default, State, Batteries
  <2> QED
    BY <2>1 DEF Connect, Returns, Suspends, Goes, TypeOK, boxVars, breachVars, Tasks
<1>2. MarksAreRows' /\ IdleIsAboutNothing'
  BY DEF Connect, Returns, Suspends, Goes, TypeOK, boxVars, MarksAreRows, IdleIsAboutNothing, Tasks
<1>3. OnlyBegunSessions'
  BY PipelineAssumption DEF Connect, Returns, Suspends, Goes, TypeOK, OnlyBegunSessions, Tasks
<1>4. ShownBreachClears'
  <2>1. dict'[s] = Default
    BY DEF Connect, OnlyBegunSessions
  <2> QED
    BY <2>1 DEF Connect, ShownBreachClears, Default
<1>5. BreachAnnounced'
  BY DEF Connect, Returns, TypeOK, breachVars, IdleIsAboutNothing, BreachAnnounced, Tasks
<1> QED
  BY <1>1, <1>2, <1>3, <1>4, <1>5

LEMMA DisconnectPreserves == ASSUME IInv, Disconnect PROVE IInv'
<1> USE DEF IInv
<1>1. TypeOK'
  <2>1. open' \in [Issues -> Int] /\ active' \in SUBSET Issues
    BY DEF Disconnect, Unregister
  <2>2. cancelled' \in SUBSET Sessions
    BY DEF Disconnect, TypeOK
  <2> QED
    BY <2>1, <2>2 DEF Disconnect, Unregister, TypeOK, breachVars
<1>2. MarksAreRows' /\ IdleIsAboutNothing' /\ OnlyBegunSessions'
  BY PipelineAssumption
  DEF Disconnect, Unregister, MarksAreRows, IdleIsAboutNothing, OnlyBegunSessions, Tasks
<1>3. ShownBreachClears' /\ BreachAnnounced'
  BY DEF Disconnect, Unregister, breachVars, ShownBreachClears, BreachAnnounced
<1> QED
  BY <1>1, <1>2, <1>3

\* When a reader ends, whatever it was about is settled by the rest of the step.
LEMMA ReaderEndsPreserves ==
    ASSUME IInv, NEW s \in Sessions, at[s] # "off", ReaderEnds(s), breaching' = breaching,
           events' \in 0..MaxEvents, outcome' \in {"open", "rtl", "excused"}, BreachAnnounced'
    PROVE  IInv'
<1> USE DEF IInv
<1>1. TypeOK'
  <2>1. open' \in [Issues -> Int] /\ active' \in SUBSET Issues /\ stale' \in BOOLEAN
    <3>1. CASE Unregister
      <4>1. open' = [i \in Issues |-> 0] /\ active' = {} /\ stale' = FALSE
        BY <3>1 DEF Unregister
      <4>2. open' \in [Issues -> Int]
        BY <4>1
      <4> QED
        BY <4>1, <4>2
    <3>2. CASE UNCHANGED boxVars
      BY <3>2 DEF TypeOK, boxVars
    <3> QED
      BY <3>1, <3>2 DEF ReaderEnds
  <2>2. entry' \in Sessions \cup {None} /\ cancelled' \in SUBSET Sessions
    BY DEF ReaderEnds, Unregister, TypeOK
  <2>3. /\ at' \in [Tasks -> {"off", "listening", "ended"} \cup Awaiting \cup Running]
        /\ stage' \in [Tasks -> {"other"} \cup Positions \cup Edges]
        /\ target' \in [Tasks -> Sessions \cup {None}]
        /\ loop' = None
    BY DEF ReaderEnds, Returns, Suspends, Goes, TypeOK
  <2> QED
    BY <2>1, <2>2, <2>3 DEF ReaderEnds, TypeOK
<1>2. MarksAreRows'
  BY DEF ReaderEnds, Unregister, MarksAreRows, boxVars
<1>3. IdleIsAboutNothing'
  BY DEF ReaderEnds, Returns, Suspends, Goes, TypeOK, IdleIsAboutNothing, Tasks
<1>4. OnlyBegunSessions'
  BY PipelineAssumption
  DEF ReaderEnds, Returns, Suspends, Goes, Unregister, TypeOK, OnlyBegunSessions, Tasks
<1>5. ShownBreachClears'
  BY DEF ReaderEnds, Unregister, ShownBreachClears
<1> QED
  BY <1>1, <1>2, <1>3, <1>4, <1>5

LEMMA CancelledPreserves == ASSUME IInv, NEW s \in Sessions, Cancelled(s) PROVE IInv'
<1> USE DEF IInv
<1>1. /\ events' \in 0..MaxEvents
      /\ outcome' \in {"open", "rtl", "excused"}
  BY PipelineAssumption DEF Cancelled, Drops, Becomes, Queued, TypeOK
<1>2. BreachAnnounced'
  <2>1. \A x \in Sessions \ {s} : stage'[x] = stage[x]
    BY DEF Cancelled, ReaderEnds, Returns, TypeOK, Tasks
  <2>2. CASE stage[s] = "breach"
    BY <2>2 DEF Cancelled, Drops, Becomes, Queued, TypeOK, BreachAnnounced
  <2>3. CASE stage[s] # "breach"
    BY <2>1, <2>3 DEF Cancelled, Drops, Queued, BreachAnnounced
  <2> QED
    BY <2>2, <2>3
<1> QED
  BY <1>1, <1>2, ReaderEndsPreserves DEF Cancelled, Awaiting

LEMMA LinkLostPreserves == ASSUME IInv, NEW s \in Sessions, LinkLost(s) PROVE IInv'
<1> USE DEF IInv
<1>1. BreachAnnounced'
  BY DEF LinkLost, ReaderEnds, Returns, TypeOK, IdleIsAboutNothing, BreachAnnounced, breachVars, Tasks
<1> QED
  BY <1>1, ReaderEndsPreserves DEF LinkLost, TypeOK, breachVars

\* The task whose step it is, the listeners it calls, and nothing else.
LEMMA UpdateTypes ==
    ASSUME TypeOK, NEW t \in Tasks, NEW d, entry # None => d \in State, Update(t, d)
    PROVE  /\ dict' \in [Sessions -> State]
           /\ target' \in [Tasks -> Sessions \cup {None}]
           /\ at' \in [Tasks -> {"off", "listening", "ended"} \cup Awaiting \cup Running]
           /\ loop' \in Tasks \cup {None}
           /\ at'[t] \in {"notified", "health", "others"}
           /\ \A u \in Tasks \ {t} : at'[u] = at[u] /\ target'[u] = target[u]
           /\ target'[t] \in {entry, None}
<1>1. dict' \in [Sessions -> State]
  BY DEF Update, TypeOK
<1> QED
  BY <1>1 DEF Update, Notify, Continues, Suspends, Goes, TypeOK, Awaiting, Running

LEMMA ReceivePreserves == ASSUME IInv, NEW s \in Sessions, Receive(s) PROVE IInv'
<1> USE DEF IInv
<1> PICK batt \in Readings : Update(s, [dict[entry] EXCEPT !.batt = batt])
  BY DEF Receive
<1>1. entry # None => [dict[entry] EXCEPT !.batt = batt] \in State
  BY PipelineAssumption DEF TypeOK, State
<1>2. /\ dict' \in [Sessions -> State]
      /\ target' \in [Tasks -> Sessions \cup {None}]
      /\ at' \in [Tasks -> {"off", "listening", "ended"} \cup Awaiting \cup Running]
      /\ loop' \in Tasks \cup {None}
      /\ at'[s] \in {"notified", "health", "others"}
      /\ \A u \in Tasks \ {s} : at'[u] = at[u] /\ target'[u] = target[u]
      /\ target'[s] \in {entry, None}
  BY <1>1, UpdateTypes DEF Tasks
<1>3. TypeOK'
  BY <1>2 DEF Receive, TypeOK, boxVars, breachVars
<1>4. MarksAreRows' /\ IdleIsAboutNothing'
  BY <1>2 DEF Receive, MarksAreRows, IdleIsAboutNothing, boxVars, Tasks
<1>5. OnlyBegunSessions'
  BY <1>2, PipelineAssumption DEF Receive, OnlyBegunSessions, Tasks
<1>6. ShownBreachClears'
  BY <1>1 DEF Receive, Update, TypeOK, State, breachVars, ShownBreachClears
<1>7. BreachAnnounced'
  BY DEF Receive, breachVars, BreachAnnounced
<1> QED
  BY <1>3, <1>4, <1>5, <1>6, <1>7

LEMMA ReceivePositionPreserves == ASSUME IInv, NEW s \in Sessions, ReceivePosition(s) PROVE IInv'
<1> USE DEF IInv
<1>1. /\ dict' \in [Sessions -> State]
      /\ target' \in [Tasks -> Sessions \cup {None}]
      /\ at' \in [Tasks -> {"off", "listening", "ended"} \cup Awaiting \cup Running]
      /\ loop' \in Tasks \cup {None}
      /\ at'[s] \in {"notified", "health", "others"}
      /\ \A u \in Tasks \ {s} : at'[u] = at[u] /\ target'[u] = target[u]
      /\ target'[s] \in {entry, None}
  <2>1. entry # None => dict[entry] \in State
    BY DEF TypeOK
  <2>2. TypeOK /\ s \in Tasks /\ Update(s, dict[entry])
    BY DEF ReceivePosition, Tasks
  <2> QED
    BY <2>1, <2>2, UpdateTypes
<1>2. /\ stage' \in [Tasks -> {"other"} \cup Positions \cup Edges]
      /\ \A x \in Tasks \ {s} : stage'[x] = stage[x]
      /\ stage[s] = "other"
  BY DEF ReceivePosition, TypeOK, Positions, IdleIsAboutNothing
<1>3. TypeOK'
  BY <1>1, <1>2 DEF ReceivePosition, TypeOK, boxVars, breachVars
<1>4. MarksAreRows' /\ IdleIsAboutNothing'
  BY <1>1, <1>2 DEF ReceivePosition, MarksAreRows, IdleIsAboutNothing, boxVars, Tasks
<1>5. OnlyBegunSessions'
  BY <1>1, PipelineAssumption DEF ReceivePosition, OnlyBegunSessions, Tasks
<1>6. ShownBreachClears'
  BY DEF ReceivePosition, Update, TypeOK, breachVars, ShownBreachClears
<1>7. BreachAnnounced'
  BY <1>2 DEF ReceivePosition, breachVars, BreachAnnounced, Tasks
<1> QED
  BY <1>3, <1>4, <1>5, <1>6, <1>7

\* Steps that only move a task: its place, the loop, its target, or HealthMonitor's mark.
LEMMA MovePreserves ==
    ASSUME IInv, NEW t \in Tasks, at[t] # "off", NEW place \in Awaiting \cup Running,
           Goes(t, place), loop' \in Tasks \cup {None},
           target' \in [Tasks -> Sessions \cup {None}],
           \A u \in Tasks : target'[u] \in {target[u], entry},
           fired' \in BOOLEAN, stale' \in BOOLEAN,
           UNCHANGED <<stateVars, cancelled, stage, active, open, fence, breachVars>>
    PROVE  IInv'
<1> USE DEF IInv
<1>1. TypeOK'
  BY DEF Goes, TypeOK, stateVars, breachVars
<1>2. MarksAreRows' /\ ShownBreachClears' /\ BreachAnnounced'
  BY DEF MarksAreRows, ShownBreachClears, BreachAnnounced, stateVars, breachVars
<1>3. IdleIsAboutNothing'
  BY DEF Goes, TypeOK, IdleIsAboutNothing, Tasks, Awaiting, Running
<1>4. OnlyBegunSessions'
  BY DEF Goes, TypeOK, OnlyBegunSessions, Tasks, stateVars, Awaiting, Running
<1> QED
  BY <1>1, <1>2, <1>3, <1>4

\* A task that goes back to waiting, or ends its update of a neighbour.
LEMMA ReturnsPreserves ==
    ASSUME IInv, NEW t \in Tasks, NEW place \in {"off", "listening"},
           place = "off" => t \in Neighbours, Returns(t, place),
           events' \in 0..MaxEvents, outcome' \in {"open", "rtl", "excused"}, BreachAnnounced',
           UNCHANGED <<stateVars, cancelled, fired, active, open, fence, breaching>>,
           stale' \in BOOLEAN
    PROVE  IInv'
<1> USE DEF IInv
<1>1. TypeOK'
  <2>1. /\ at' \in [Tasks -> {"off", "listening", "ended"} \cup Awaiting \cup Running]
        /\ stage' \in [Tasks -> {"other"} \cup Positions \cup Edges]
        /\ target' \in [Tasks -> Sessions \cup {None}]
        /\ loop' = None
    BY DEF Returns, Suspends, Goes, TypeOK
  <2> QED
    BY <2>1 DEF TypeOK, stateVars
<1>2. MarksAreRows' /\ ShownBreachClears'
  BY DEF MarksAreRows, ShownBreachClears, stateVars
<1>3. IdleIsAboutNothing'
  BY DEF Returns, Suspends, Goes, TypeOK, IdleIsAboutNothing, Tasks
<1>4. OnlyBegunSessions'
  BY PipelineAssumption
  DEF Returns, Suspends, Goes, TypeOK, OnlyBegunSessions, Tasks, stateVars
<1> QED
  BY <1>1, <1>2, <1>3, <1>4

\* A neighbour's or a position's end of update leaves the breach as it is, since no
\* session is then about a breach that was not about it before.
LEMMA EndKeepsAnnouncement ==
    ASSUME IInv, NEW t \in Tasks, t \in Sessions => stage[t] # "breach",
           stage' = [stage EXCEPT ![t] = "other"], UNCHANGED breachVars
    PROVE  BreachAnnounced'
BY DEF IInv, TypeOK, BreachAnnounced, breachVars, Tasks

\* _set keeps marks and rows in step.
LEMMA SetPreserves ==
    ASSUME IInv, NEW t \in Tasks, at[t] # "off", NEW issue \in Issues,
           NEW row \in Awaiting, NEW next \in Running, NEW c, NEW k,
           Set(t, issue, c, k, row, next),
           UNCHANGED <<stateVars, cancelled, stage, target, fired, stale, fence, breachVars>>
    PROVE  IInv'
<1> USE DEF IInv
<1>1. CASE UNCHANGED <<active, open>> /\ Continues(t, next)
  <2>1. next \in Awaiting \cup Running /\ Goes(t, next) /\ loop' = t
    BY <1>1 DEF Continues
  <2>2. target' \in [Tasks -> Sessions \cup {None}] /\ \A u \in Tasks : target'[u] = target[u]
    BY DEF TypeOK
  <2> QED
    BY <1>1, <2>1, <2>2, MovePreserves DEF TypeOK
<1>2. CASE /\ (issue \notin active /\ Starts(issue)) \/ (issue \in active /\ Clears(issue))
           /\ Suspends(t, row)
  <2>1. open' \in [Issues -> Int] /\ active' \in SUBSET Issues
    BY <1>2 DEF Starts, Clears, TypeOK
  <2>2. TypeOK'
    <3>1. at' \in [Tasks -> {"off", "listening", "ended"} \cup Awaiting \cup Running] /\ loop' = None
      BY <1>2 DEF Suspends, Goes, TypeOK
    <3> QED
      BY <2>1, <3>1 DEF TypeOK, stateVars, breachVars
  <2>3. MarksAreRows'
    BY <1>2 DEF Starts, Clears, MarksAreRows, TypeOK
  <2>4. IdleIsAboutNothing'
    BY <1>2 DEF Suspends, Goes, TypeOK, IdleIsAboutNothing, Tasks, Awaiting
  <2>5. OnlyBegunSessions'
    BY <1>2 DEF Suspends, Goes, TypeOK, OnlyBegunSessions, Tasks, Awaiting, stateVars
  <2>6. ShownBreachClears' /\ BreachAnnounced'
    BY DEF ShownBreachClears, BreachAnnounced, stateVars, breachVars
  <2> QED
    BY <2>2, <2>3, <2>4, <2>5, <2>6
<1>3. \/ issue \notin active /\ Starts(issue) /\ Suspends(t, row)
      \/ issue \in active /\ Clears(issue) /\ Suspends(t, row)
      \/ UNCHANGED <<active, open>> /\ Continues(t, next)
  BY Zenon DEF Set
<1> QED
  BY <1>1, <1>2, <1>3, Zenon

\* A breach whose update a listener ends by raising is excused.
LEMMA RaisesPreserves ==
    ASSUME IInv, NEW t \in Tasks, Raises(t), stale' \in BOOLEAN PROVE IInv'
<1> USE DEF IInv
<1>1. /\ events' \in 0..MaxEvents
      /\ outcome' \in {"open", "rtl", "excused"}
  BY DEF Raises, Drops, Becomes, TypeOK
<1>2. PICK place \in {"off", "listening"} : Returns(t, place) /\ (place = "off" => t \in Neighbours)
  BY DEF Raises, Tasks
<1>3. UNCHANGED <<stateVars, cancelled, fired, active, open, fence, breaching>>
  BY DEF Raises
<1>4. BreachAnnounced'
  <2>1. \A x \in Sessions \ {t} : stage'[x] = stage[x]
    BY <1>2 DEF Returns, TypeOK, Tasks
  <2>2. CASE stage[t] = "breach"
    BY <2>2 DEF Raises, Drops, Becomes, TypeOK, BreachAnnounced
  <2>3. CASE stage[t] # "breach"
    BY <2>1, <2>3 DEF Raises, Drops, BreachAnnounced
  <2> QED
    BY <2>2, <2>3
<1> QED
  BY <1>1, <1>2, <1>3, <1>4, ReturnsPreserves

\* The listeners move tasks and mark issues; the breach and its event stay as they are.
LEMMA ListenersPreserve == ASSUME IInv, NEW t \in Tasks, Listeners(t) PROVE IInv'
<1> USE DEF IInv
<1>1. /\ target \in [Tasks -> Sessions \cup {None}]
      /\ \A u \in Tasks : target[u] \in {target[u], entry}
      /\ fired \in BOOLEAN /\ stale \in BOOLEAN
  BY DEF TypeOK
<1>2. CASE Health(t)
  <2>1. PICK place \in {"alerting", "battery"} :
          Goes(t, place) /\ loop' \in {t, None} /\ fired' \in BOOLEAN
    BY <1>1, <1>2 DEF Health, Suspends, Continues
  <2>2. /\ at[t] # "off" /\ target' = target /\ stale' = stale
        /\ UNCHANGED <<stateVars, cancelled, stage, active, open, fence, breachVars>>
    BY <1>2 DEF Health, boxVars
  <2> QED
    BY <1>1, <2>1, <2>2, MovePreserves DEF Awaiting, Running
<1>0. CASE HealthRaises(t)
  BY <1>0, <1>1, RaisesPreserves DEF HealthRaises
<1>3. CASE Alerted(t)
  <2>1. /\ at[t] # "off" /\ target' = target /\ stale' \in BOOLEAN /\ fired' \in BOOLEAN
        /\ Goes(t, "battery") /\ loop' = t
        /\ UNCHANGED <<stateVars, cancelled, stage, active, open, fence, breachVars>>
    BY <1>1, <1>3 DEF Alerted, Continues, Resumes
  <2> QED
    BY <1>1, <2>1, MovePreserves DEF Running
<1>4. CASE BoxBattery(t)
  <2>1. /\ at[t] # "off" /\ "battery_row" \in Awaiting /\ "breach" \in Running /\ "battery" \in Issues
        /\ UNCHANGED <<stateVars, cancelled, stage, target, fired, stale, fence, breachVars>>
    BY <1>4 DEF BoxBattery, Awaiting, Running, Issues
  <2> QED
    BY <1>4, <2>1, SetPreserves DEF BoxBattery
<1>5. CASE BoxBreach(t)
  <2>1. /\ at[t] # "off" /\ "breach_row" \in Awaiting /\ "notified" \in Running /\ "breach" \in Issues
        /\ UNCHANGED <<stateVars, cancelled, stage, target, fired, stale, fence, breachVars>>
    BY <1>5 DEF BoxBreach, Awaiting, Running, Issues
  <2> QED
    BY <1>5, <2>1, SetPreserves DEF BoxBreach
<1>6. CASE RowWritten(t)
  <2>1. PICK place \in {"breach", "notified"} : Goes(t, place) /\ loop' = t
    BY <1>6 DEF RowWritten, Continues
  <2>2. /\ at[t] # "off" /\ target' = target /\ stale' \in BOOLEAN /\ fired' = fired
        /\ UNCHANGED <<stateVars, cancelled, stage, active, open, fence, breachVars>>
    BY <1>1, <1>6 DEF RowWritten, Resumes
  <2> QED
    BY <1>1, <2>1, <2>2, MovePreserves DEF Running
<1> QED
  BY <1>0, <1>2, <1>3, <1>4, <1>5, <1>6 DEF Listeners

\* An edge is marked together with what the operator is shown, and a new breach is
\* something its reader is about until its event is out.
LEMMA BreachEdgePreserves == ASSUME IInv, NEW s \in Sessions, BreachEdge(s) PROVE IInv'
<1> USE DEF IInv
<1>1. entry # None => Injected(dict[entry]) \in State /\ Injected(dict[entry]).flag = ~breaching
  BY DEF Injected, TypeOK, State
<1>2. /\ dict' \in [Sessions -> State]
      /\ target' \in [Tasks -> Sessions \cup {None}]
      /\ at' \in [Tasks -> {"off", "listening", "ended"} \cup Awaiting \cup Running]
      /\ loop' \in Tasks \cup {None}
      /\ at'[s] \in {"notified", "health", "others"}
      /\ \A u \in Tasks \ {s} : at'[u] = at[u] /\ target'[u] = target[u]
      /\ target'[s] \in {entry, None}
  <2>1. TypeOK /\ s \in Tasks /\ Update(s, Injected(dict[entry]))
    BY DEF BreachEdge, Tasks
  <2> QED
    BY <1>1, <2>1, UpdateTypes
<1>3. /\ stage' \in [Tasks -> {"other"} \cup Positions \cup Edges]
      /\ \A x \in Tasks \ {s} : stage'[x] = stage[x]
      /\ stage'[s] = IF breaching THEN "recovery" ELSE "breach"
  BY DEF BreachEdge, TypeOK, Tasks, Edges
<1>4. breaching \in BOOLEAN /\ breaching' = ~breaching /\ outcome' = "open"
  BY DEF BreachEdge, TypeOK
<1>5. TypeOK'
  <2>1. breaching' \in BOOLEAN
    BY <1>4
  <2> QED
    BY <1>2, <1>3, <1>4, <2>1 DEF BreachEdge, TypeOK, boxVars
<1>6. MarksAreRows' /\ IdleIsAboutNothing'
  BY <1>2, <1>3 DEF BreachEdge, MarksAreRows, IdleIsAboutNothing, boxVars, Tasks
<1>7. OnlyBegunSessions'
  BY <1>2, PipelineAssumption DEF BreachEdge, OnlyBegunSessions, Tasks
<1>8. ShownBreachClears'
  <2>1. entry' = entry /\ (entry # None => dict'[entry] = Injected(dict[entry]))
    BY DEF BreachEdge, Update, TypeOK
  <2> QED
    BY <1>1, <1>4, <2>1 DEF ShownBreachClears
<1>9. BreachAnnounced'
  BY <1>3, <1>4 DEF BreachAnnounced
<1> QED
  BY <1>5, <1>6, <1>7, <1>8, <1>9

\* The event is out, dropped, or there was none to announce.
LEMMA PublishedPreserves == ASSUME IInv, NEW s \in Sessions, Published(s) PROVE IInv'
<1> USE DEF IInv
<1>1. /\ events' \in 0..MaxEvents
      /\ outcome' \in {"open", "rtl", "excused"}
  BY PipelineAssumption DEF Published, Drops, Becomes, Queued, TypeOK
<1>2. /\ Returns(s, "listening") /\ s \in Tasks
      /\ UNCHANGED <<stateVars, cancelled, fired, active, open, fence, breaching>>
      /\ stale' \in BOOLEAN
  BY DEF Published, Listens, Tasks, boxVars, TypeOK
<1>3. BreachAnnounced'
  <2>1. \A x \in Sessions \ {s} : stage'[x] = stage[x]
    BY <1>2 DEF Returns, TypeOK, Tasks
  <2>2. CASE stage[s] = "breach"
    BY <2>2 DEF Published, Drops, Becomes, Queued, TypeOK, BreachAnnounced
  <2>3. CASE stage[s] # "breach"
    BY <2>1, <2>3 DEF Published, Drops, Queued, BreachAnnounced
  <2> QED
    BY <2>2, <2>3
<1> QED
  BY <1>1, <1>2, <1>3, ReturnsPreserves

LEMMA PublishPreserves == ASSUME IInv, NEW s \in Sessions, Publish(s) PROVE IInv'
<1> USE DEF IInv
<1>1. CASE Suspends(s, "publishing") /\ UNCHANGED <<stage, target, outcome>>
  <2>1. /\ at[s] # "off" /\ s \in Tasks /\ Goes(s, "publishing") /\ loop' = None
        /\ UNCHANGED <<stateVars, cancelled, stage, active, open, fence, breachVars>>
        /\ target' = target /\ fired' = fired /\ stale' = stale
    BY <1>1 DEF Publish, Suspends, boxVars, breachVars, Tasks
  <2>2. /\ target' \in [Tasks -> Sessions \cup {None}]
        /\ \A u \in Tasks : target'[u] \in {target[u], entry}
        /\ fired' \in BOOLEAN /\ stale' \in BOOLEAN
    BY <2>1 DEF TypeOK
  <2> QED
    BY <2>1, <2>2, MovePreserves DEF Awaiting
<1>2. CASE Listens(s) /\ Drops(s)
  <2>1. /\ events' \in 0..MaxEvents
        /\ outcome' \in {"open", "rtl", "excused"}
    BY <1>2 DEF Publish, Drops, Becomes, TypeOK
  <2>2. /\ Returns(s, "listening") /\ s \in Tasks
        /\ UNCHANGED <<stateVars, cancelled, fired, active, open, fence, breaching>>
        /\ stale' \in BOOLEAN
    BY <1>2 DEF Publish, Listens, Tasks, boxVars, TypeOK
  <2>3. BreachAnnounced'
    <3>1. \A x \in Sessions \ {s} : stage'[x] = stage[x]
      BY <2>2 DEF Returns, TypeOK, Tasks
    <3>2. CASE stage[s] = "breach"
      BY <1>2, <3>2 DEF Publish, Drops, Becomes, TypeOK, BreachAnnounced
    <3>3. CASE stage[s] # "breach"
      BY <1>2, <3>1, <3>3 DEF Publish, Drops, BreachAnnounced
    <3> QED
      BY <3>2, <3>3
  <2> QED
    BY <2>1, <2>2, <2>3, ReturnsPreserves
<1> QED
  BY <1>1, <1>2 DEF Publish

\* The remaining steps of a reader: they only move it.
LEMMA ReaderPreserves == ASSUME IInv, NEW s \in Sessions, Reader(s) PROVE IInv'
<1> USE DEF IInv
<1>1. CASE NotifyOthers(s)
  <2>1. /\ at[s] # "off" /\ s \in Tasks /\ Goes(s, "others") /\ loop' = None
        /\ UNCHANGED <<stateVars, cancelled, stage, active, open, fence, breachVars>>
        /\ target' = target /\ fired' = fired /\ stale' = stale
    BY <1>1 DEF NotifyOthers, Suspends, boxVars, Tasks
  <2>2. /\ target' \in [Tasks -> Sessions \cup {None}]
        /\ \A u \in Tasks : target'[u] \in {target[u], entry}
        /\ fired' \in BOOLEAN /\ stale' \in BOOLEAN
    BY <2>1 DEF TypeOK
  <2> QED
    BY <2>1, <2>2, MovePreserves DEF Awaiting
<1>2. CASE OthersNotified(s)
  <2>1. PICK place \in {"notified", "health"} : Goes(s, place) /\ loop' = s
    BY <1>2 DEF OthersNotified, Notify, Continues
  <2>2. /\ at[s] # "off" /\ s \in Tasks
        /\ UNCHANGED <<stateVars, cancelled, stage, active, open, fence, breachVars>>
        /\ fired' = fired /\ stale' = stale
    BY <1>2 DEF OthersNotified, boxVars, Tasks
  <2>3. /\ target' \in [Tasks -> Sessions \cup {None}]
        /\ \A u \in Tasks : target'[u] \in {target[u], entry}
    BY <1>2 DEF OthersNotified, Notify, TypeOK, Tasks
  <2>4. fired' \in BOOLEAN /\ stale' \in BOOLEAN
    BY <2>2 DEF TypeOK
  <2> QED
    BY <2>1, <2>2, <2>3, <2>4, MovePreserves DEF Running
<1>3. CASE NoEdge(s)
  <2>1. /\ Returns(s, "listening") /\ s \in Tasks /\ stage[s] # "breach"
        /\ stage' = [stage EXCEPT ![s] = "other"]
        /\ UNCHANGED <<stateVars, cancelled, fired, boxVars, fence, breachVars>>
    BY <1>3 DEF NoEdge, Listens, Returns, Positions, Tasks
  <2>2. BreachAnnounced'
    BY <2>1, EndKeepsAnnouncement
  <2> QED
    BY <2>1, <2>2, ReturnsPreserves DEF TypeOK, breachVars, boxVars
<1>4. CASE OthersRaise(s)
  BY <1>4, RaisesPreserves DEF OthersRaise, TypeOK, Tasks
<1> QED
  BY <1>1, <1>2, <1>3, <1>4, ConnectPreserves, CancelledPreserves, LinkLostPreserves, ReceivePreserves,
     ReceivePositionPreserves, BreachEdgePreserves, PublishPreserves, PublishedPreserves
  DEF Reader

LEMMA NeighbourPreserves ==
    ASSUME IInv, NEW n \in Neighbours,
           NeighbourMoves(n) \/ NeighbourCancelled(n) \/ NeighbourDone(n)
    PROVE  IInv'
<1> USE DEF IInv
<1>1. n \in Tasks /\ n \notin Sessions
  BY PipelineAssumption DEF Tasks
<1>2. CASE NeighbourMoves(n)
  <2>1. at' = [at EXCEPT ![n] = "health"] /\ loop' = n /\ target' = [target EXCEPT ![n] = entry]
    BY <1>2 DEF NeighbourMoves, Continues, Goes
  <2>2. UNCHANGED <<stateVars, cancelled, stage, fired, boxVars, fence, breachVars>> /\ entry # None
    BY <1>2 DEF NeighbourMoves
  <2>3. TypeOK'
    BY <1>1, <2>1, <2>2 DEF TypeOK, Running, stateVars, boxVars, breachVars
  <2>4. OnlyBegunSessions'
    BY <1>1, <2>1, <2>2 DEF TypeOK, OnlyBegunSessions, stateVars, Tasks
  <2>5. IdleIsAboutNothing'
    BY <1>1, <2>1, <2>2 DEF TypeOK, IdleIsAboutNothing, Tasks
  <2> QED
    BY <2>2, <2>3, <2>4, <2>5
    DEF MarksAreRows, ShownBreachClears, BreachAnnounced, stateVars, boxVars, breachVars
<1>3. CASE NeighbourCancelled(n) \/ NeighbourDone(n)
  <2>1. /\ Returns(n, "off") /\ stage' = [stage EXCEPT ![n] = "other"]
        /\ UNCHANGED <<stateVars, cancelled, fired, boxVars, fence, breachVars>>
    BY <1>3 DEF NeighbourCancelled, NeighbourDone, Returns
  <2>2. BreachAnnounced'
    BY <1>1, <2>1, EndKeepsAnnouncement
  <2> QED
    BY <1>1, <2>1, <2>2, ReturnsPreserves DEF TypeOK, breachVars, boxVars
<1> QED
  BY <1>2, <1>3

LEMMA SetFencePreserves == ASSUME IInv, NEW f \in Fences, SetFence(f) PROVE IInv'
BY DEF IInv, SetFence, stateVars, taskVars, boxVars, breachVars, TypeOK, MarksAreRows,
       IdleIsAboutNothing, OnlyBegunSessions, ShownBreachClears, BreachAnnounced

\* A consumed event leads to RTL or is excused.
LEMMA ConsumePreserves == ASSUME IInv, Consume PROVE IInv'
<1> USE DEF IInv
<1>1. /\ events' \in 0..MaxEvents
      /\ outcome' \in {"open", "rtl", "excused"}
      /\ breaching => outcome' # "open"
  BY PipelineAssumption DEF Consume, Becomes, TypeOK
<1>2. UNCHANGED <<stateVars, taskVars, fired, boxVars, fence, breaching>>
  BY DEF Consume
<1>3. TypeOK'
  BY <1>1, <1>2 DEF TypeOK, stateVars, taskVars, boxVars
<1> QED
  BY <1>1, <1>2, <1>3
  DEF stateVars, taskVars, boxVars, MarksAreRows, IdleIsAboutNothing, OnlyBegunSessions,
      ShownBreachClears, BreachAnnounced

LEMMA StutterPreserves == ASSUME IInv, UNCHANGED vars PROVE IInv'
BY DEF IInv, vars, stateVars, taskVars, boxVars, breachVars, TypeOK, MarksAreRows,
       IdleIsAboutNothing, OnlyBegunSessions, ShownBreachClears, BreachAnnounced

THEOREM InvariantHolds == Spec => []IInv
<1>1. IInv /\ [Next]_vars => IInv'
  BY ListenersPreserve, ReaderPreserves, NeighbourPreserves, SetFencePreserves,
     DisconnectPreserves, ConsumePreserves, StutterPreserves
  DEF Next
<1> QED
  BY InitIInv, <1>1, PTL DEF Spec

\* Every variable keeps its type; the queue stays within its bound.
THEOREM TypeCorrect == Spec => []TypeOK
<1>1. IInv => TypeOK
  BY DEF IInv
<1> QED
  BY InvariantHolds, <1>1, PTL

\* BlackBox._set writes one row when an issue starts and one when it clears, however
\* the evaluations of the reader and of its neighbours interleave.
THEOREM OneRow == Spec => []OneRowPerEdge
<1>1. IInv => OneRowPerEdge
  BY DEF IInv, MarksAreRows, OneRowPerEdge
<1> QED
  BY InvariantHolds, <1>1, PTL

\* The breach that _check_geofence shows to the operator will be cleared by a recovery.
THEOREM ShownBreach == Spec => []ShownBreachClears
<1>1. IInv => ShownBreachClears
  BY DEF IInv
<1> QED
  BY InvariantHolds, <1>1, PTL

\* A detected breach reaches the RTL consumer unless its event was dropped, its reader
\* ended, or nothing was connected or enforced when it arrived.
THEOREM Announced == Spec => []BreachAnnounced
<1>1. IInv => BreachAnnounced
  BY DEF IInv
<1> QED
  BY InvariantHolds, <1>1, PTL

-----------------------------------------------------------------------------
(* The black box has what the session shows                                *)
(*                                                                         *)
(* Several readers may change the registered dictionary, those of earlier  *)
(* sessions included, and each sets out to evaluate it.  What makes the    *)
(* evaluations count is that a reader that ends takes the registration     *)
(* with it, and that nothing is registered or removed while a task runs.   *)

Evaluating == {"health", "battery", "breach"}

\* A task that is not suspended has the loop.
Looping == \A t \in Tasks : at[t] \in Running => loop = t

\* A listener that runs looks at the registered dictionary, or is known not to.
LooksAtEntry ==
    \A t \in Tasks : /\ at[t] \in Evaluating => target[t] = entry \/ stale
                     /\ at[t] \in Evaluating \cup {"alerting", "battery_row", "breach_row"}
                          => target[t] \in Sessions

\* A reader that is still going to evaluate an issue of the registered dictionary, whose
\* listeners it is in or will call.
Owes(s, places) == \/ at[s] \in places /\ target[s] = entry
                   \/ at[s] = "others" /\ target[s] = None
BeforeBattery == {"health", "alerting", "battery"}
BeforeBreach == BeforeBattery \cup {"battery_row", "breach"}
OwesBattery(s) == Owes(s, BeforeBattery)
OwesBreach(s) == stage[s] \in Edges /\ Owes(s, BeforeBreach)

BatteryMarked == /\ dict[entry].batt \in {"low", "urgent"} => "battery" \in active
                 /\ dict[entry].batt = "ok" => "battery" \notin active
BreachMarked == dict[entry].flag <=> "breach" \in active

\* What the black box has is what the session shows, or a reader will see to it.
Marked ==
    ~stale => /\ entry = None => active = {}
              /\ entry # None => /\ BatteryMarked \/ \E s \in Sessions : OwesBattery(s)
                                 /\ BreachMarked \/ \E s \in Sessions : OwesBreach(s)

BoxIInv == Looping /\ LooksAtEntry /\ Marked

LEMMA BoxInit == Init => BoxIInv
<1> SUFFICES ASSUME Init PROVE BoxIInv
  OBVIOUS
<1>1. \A t \in Tasks : at[t] = "off"
  BY DEF Init
<1>2. Looping /\ LooksAtEntry
  BY <1>1 DEF Looping, LooksAtEntry, Running, Evaluating
<1>3. Marked
  BY DEF Init, Marked
<1> QED
  BY <1>2, <1>3 DEF BoxIInv

\* Where one task moves while no other holds the loop.
LEMMA OneMoves ==
    ASSUME TypeOK, BoxIInv, NEW t \in Tasks, NEW place, loop \in {t, None},
           Goes(t, place), place \in Running => loop' = t,
           \A u \in Tasks \ {t} : target'[u] = target[u],
           \A u \in Tasks \ {t} : stage'[u] = stage[u],
           UNCHANGED entry, stale => stale',
           place \in Evaluating => target'[t] = entry \/ stale',
           place \in Evaluating \cup {"alerting", "battery_row", "breach_row"} => target'[t] \in Sessions
    PROVE  /\ Looping' /\ LooksAtEntry'
           /\ \A s \in Sessions \ {t} : OwesBattery(s) => OwesBattery(s)'
           /\ \A s \in Sessions \ {t} : OwesBreach(s) => OwesBreach(s)'
           /\ at'[t] = place /\ \A u \in Tasks \ {t} : at'[u] = at[u]
<1>1. at'[t] = place /\ \A u \in Tasks \ {t} : at'[u] = at[u]
  BY DEF Goes, TypeOK
<1>2. ASSUME NEW u \in Tasks \ {t} PROVE at[u] \notin Running
  BY PipelineAssumption DEF BoxIInv, Looping
<1>3. Looping'
  BY <1>1, <1>2 DEF Looping
<1>4. LooksAtEntry'
  <2> SUFFICES ASSUME NEW u \in Tasks
               PROVE  /\ at'[u] \in Evaluating => target'[u] = entry' \/ stale'
                      /\ at'[u] \in Evaluating \cup {"alerting", "battery_row", "breach_row"}
                           => target'[u] \in Sessions
    BY DEF LooksAtEntry
  <2>1. CASE u = t
    BY <1>1, <2>1
  <2>2. CASE u # t
    BY <1>1, <2>2 DEF BoxIInv, LooksAtEntry
  <2> QED
    BY <2>1, <2>2
<1>5. ASSUME NEW s \in Sessions \ {t}
      PROVE  (OwesBattery(s) => OwesBattery(s)') /\ (OwesBreach(s) => OwesBreach(s)')
  BY <1>1 DEF OwesBattery, OwesBreach, Owes, Tasks
<1> QED
  BY <1>1, <1>3, <1>4, <1>5

\* A move that leaves dictionaries and marks alone, by a task that owes what it owed.
LEMMA MoveMarks ==
    ASSUME TypeOK, BoxIInv, NEW t \in Tasks, NEW place, loop \in {t, None},
           Goes(t, place), place \in Running => loop' = t,
           \A u \in Tasks \ {t} : target'[u] = target[u],
           \A u \in Tasks \ {t} : stage'[u] = stage[u],
           UNCHANGED <<entry, dict, active>>, stale => stale', stale' \in BOOLEAN,
           place \in Evaluating => target'[t] = entry \/ stale',
           place \in Evaluating \cup {"alerting", "battery_row", "breach_row"} => target'[t] \in Sessions,
           entry # None /\ t \in Sessions /\ OwesBattery(t) => OwesBattery(t)' \/ BatteryMarked \/ stale',
           entry # None /\ t \in Sessions /\ OwesBreach(t) => OwesBreach(t)' \/ stale'
    PROVE  BoxIInv'
<1>1. /\ Looping' /\ LooksAtEntry'
      /\ \A s \in Sessions \ {t} : OwesBattery(s) => OwesBattery(s)'
      /\ \A s \in Sessions \ {t} : OwesBreach(s) => OwesBreach(s)'
  BY OneMoves
<1>2. /\ BatteryMarked' = BatteryMarked /\ BreachMarked' = BreachMarked
      /\ BatteryMarked \in BOOLEAN /\ BreachMarked \in BOOLEAN
  BY DEF BatteryMarked, BreachMarked
<1>3. ASSUME entry # None, ~stale'
      PROVE  /\ (\E s \in Sessions : OwesBattery(s)) => BatteryMarked \/ \E s \in Sessions : OwesBattery(s)'
             /\ (\E s \in Sessions : OwesBreach(s)) => \E s \in Sessions : OwesBreach(s)'
  BY <1>1, <1>3
<1>4. Marked'
  <2> SUFFICES ASSUME ~stale'
               PROVE  /\ entry = None => active = {}
                      /\ entry # None => /\ BatteryMarked' \/ \E s \in Sessions : OwesBattery(s)'
                                         /\ BreachMarked' \/ \E s \in Sessions : OwesBreach(s)'
    BY DEF Marked
  <2>1. ~stale
    OBVIOUS
  <2>2. CASE entry = None
    BY <2>1, <2>2 DEF BoxIInv, Marked
  <2>3. CASE entry # None
    <3>1. /\ BatteryMarked \/ \E s \in Sessions : OwesBattery(s)
          /\ BreachMarked \/ \E s \in Sessions : OwesBreach(s)
      BY <2>1, <2>3 DEF BoxIInv, Marked
    <3> QED
      BY <3>1, <2>3, <1>2, <1>3
  <2> QED
    BY <2>2, <2>3
<1> QED
  BY <1>1, <1>4 DEF BoxIInv

\* A reader that changed the dictionary owes an evaluation of every issue.
LEMMA UpdateMarks ==
    ASSUME TypeOK, BoxIInv, NEW t \in Sessions, loop \in {t, None}, NEW d, Update(t, d),
           at[t] \in {"listening", "notified"}, UNCHANGED <<entry, active, stale>>,
           \A u \in Tasks \ {t} : stage'[u] = stage[u],
           \/ stage'[t] \in Edges
           \/ entry # None => d.flag = dict[entry].flag
    PROVE  BoxIInv'
<1>0. /\ t \in Tasks /\ stale' \in BOOLEAN
      /\ ~OwesBattery(t) /\ ~OwesBreach(t)
  BY DEF Tasks, TypeOK, OwesBattery, OwesBreach, Owes, BeforeBattery, BeforeBreach
<1>1. CASE entry = None
  <2>1. /\ Goes(t, "notified") /\ loop' = t /\ dict' = dict
        /\ target' = [target EXCEPT ![t] = entry]
    BY <1>1 DEF Update, Notify, Continues
  <2>2. \A u \in Tasks \ {t} : target'[u] = target[u]
    BY <2>1
  <2>3. "notified" \notin Evaluating \cup {"alerting", "battery_row", "breach_row"}
    BY DEF Evaluating
  <2> QED
    BY <1>0, <1>1, <2>1, <2>2, <2>3, MoveMarks
<1>2. CASE entry # None
  <2>1. PICK place \in {"health", "others"} :
           /\ Goes(t, place)
           /\ place = "health" => loop' = t
           /\ target' = [target EXCEPT ![t] = IF place = "health" THEN entry ELSE None]
    BY <1>2 DEF Update, Notify, Continues, Suspends
  <2>2. /\ target'[t] = IF place = "health" THEN entry ELSE None
        /\ \A u \in Tasks \ {t} : target'[u] = target[u]
    BY <1>0, <2>1 DEF TypeOK
  <2>3. /\ entry \in Sessions
        /\ place \in Running => loop' = t
        /\ place \in Evaluating => target'[t] = entry \/ stale'
        /\ place \in Evaluating \cup {"alerting", "battery_row", "breach_row"} => target'[t] \in Sessions
    BY <1>2, <2>1, <2>2 DEF TypeOK, Running, Evaluating
  <2>4. /\ Looping' /\ LooksAtEntry' /\ at'[t] = place
        /\ \A s \in Sessions \ {t} : OwesBreach(s) => OwesBreach(s)'
    BY <1>0, <2>1, <2>2, <2>3, OneMoves
  <2>5. OwesBattery(t)' /\ (stage'[t] \in Edges => OwesBreach(t)')
    BY <2>1, <2>2, <2>4 DEF OwesBattery, OwesBreach, Owes, BeforeBattery, BeforeBreach
  <2>6. ASSUME ~stale PROVE BreachMarked' \/ \E s \in Sessions : OwesBreach(s)'
    <3>1. CASE stage'[t] \in Edges
      BY <2>5, <3>1
    <3>2. CASE d.flag = dict[entry].flag
      <4>1. dict'[entry] = d
        BY <1>2, <2>3 DEF Update, TypeOK
      <4>2. BreachMarked' <=> BreachMarked
        BY <3>2, <4>1 DEF BreachMarked
      <4>3. BreachMarked \/ \E s \in Sessions : OwesBreach(s)
        BY <1>2, <2>6 DEF BoxIInv, Marked
      <4> QED
        BY <1>0, <2>4, <4>2, <4>3
    <3> QED
      BY <1>2, <3>1, <3>2
  <2>7. Marked'
    BY <1>2, <2>5, <2>6 DEF Marked
  <2> QED
    BY <2>4, <2>7 DEF BoxIInv
<1> QED
  BY <1>1, <1>2

\* A step after which nothing is registered, or by which a session is.
LEMMA NobodyRuns ==
    ASSUME BoxIInv, loop = None PROVE \A t \in Tasks : at[t] \notin Running
  BY PipelineAssumption DEF BoxIInv, Looping

LEMMA UnregisterMarks ==
    ASSUME TypeOK, BoxIInv, loop = None, Unregister, NEW s \in Tasks,
           \/ UNCHANGED <<at, target>>
           \/ Goes(s, "ended") /\ target' = [target EXCEPT ![s] = None]
    PROVE  BoxIInv'
<1>1. \A t \in Tasks : at'[t] \in {at[t], "ended"} /\ (at'[t] # "ended" => target'[t] = target[t])
  BY DEF Goes, TypeOK
<1>2. \A t \in Tasks : at'[t] \notin Running
  BY <1>1, NobodyRuns DEF Running
<1>3. Looping'
  BY <1>2 DEF Looping
<1>4. LooksAtEntry'
  BY <1>1, <1>2 DEF BoxIInv, LooksAtEntry, Evaluating, Running
<1>5. Marked'
  BY DEF Unregister, Marked
<1> QED
  BY <1>3, <1>4, <1>5 DEF BoxIInv

LEMMA ConnectMarks == ASSUME IInv, BoxIInv, NEW s \in Sessions, Connect(s) PROVE BoxIInv'
<1>1. /\ loop = None /\ entry = None /\ entry' = s /\ at' = [at EXCEPT ![s] = "listening"]
      /\ target' = [target EXCEPT ![s] = None] /\ UNCHANGED <<active, stale>>
      /\ dict' = [x \in Sessions |-> IF \E t \in Tasks : target[t] = x THEN dict[x] ELSE Default]
      /\ at[s] = "off" /\ s \in Tasks
  BY DEF Connect, Returns, Suspends, Goes, boxVars, Tasks
<1>2. dict'[s] = Default
  BY <1>1 DEF IInv, OnlyBegunSessions
<1>3. \A t \in Tasks : at'[t] \notin Running /\ (t # s => at'[t] = at[t] /\ target'[t] = target[t])
  BY <1>1, NobodyRuns DEF IInv, TypeOK, Running
<1>4. at'[s] = "listening"
  BY <1>1 DEF IInv, TypeOK
<1>5. Looping'
  BY <1>3 DEF Looping
<1>6. LooksAtEntry'
  BY <1>3, <1>4 DEF BoxIInv, LooksAtEntry, Evaluating, Running
<1>7. Marked'
  <2> SUFFICES ASSUME ~stale PROVE BatteryMarked' /\ BreachMarked' /\ entry' # None
    BY <1>1 DEF Marked
  <2>1. active' = {}
    BY <1>1 DEF BoxIInv, Marked
  <2>2. s # None
    BY PipelineAssumption DEF Tasks
  <2> QED
    BY <1>1, <1>2, <2>1, <2>2 DEF BatteryMarked, BreachMarked, Default
<1> QED
  BY <1>5, <1>6, <1>7 DEF BoxIInv

LEMMA ReaderEndsMarks ==
    ASSUME IInv, BoxIInv, loop = None, NEW s \in Sessions, ReaderEnds(s) PROVE BoxIInv'
<1>1. /\ s \in Tasks /\ dict' = dict /\ TypeOK
      /\ Goes(s, "ended") /\ target' = [target EXCEPT ![s] = None]
  BY DEF ReaderEnds, Returns, Suspends, Tasks, IInv
<1>2. CASE Unregister
  BY <1>1, <1>2, UnregisterMarks
<1>3. CASE entry = None /\ UNCHANGED <<entry, boxVars>>
  <2>1. "ended" \notin Running \cup Evaluating \cup {"alerting", "battery_row", "breach_row"}
    BY DEF Running, Evaluating
  <2>2. /\ \A u \in Tasks \ {s} : target'[u] = target[u] /\ stage'[u] = stage[u]
        /\ stale' = stale /\ stale' \in BOOLEAN /\ active' = active
    BY <1>1, <1>3 DEF boxVars, TypeOK, ReaderEnds, Returns
  <2> QED
    BY <1>1, <1>3, <2>1, <2>2, MoveMarks
<1> QED
  BY <1>2, <1>3 DEF ReaderEnds

\* A task whose update ends owed nothing any more.
LEMMA ReturnMarks ==
    ASSUME IInv, BoxIInv, NEW t \in Tasks, NEW place \in {"off", "listening"}, loop \in {t, None},
           Returns(t, place), UNCHANGED <<stateVars, active>>, stale => stale', stale' \in BOOLEAN,
           \/ at[t] \in {"notified", "publishing"} \/ t \notin Sessions \/ stale'
           \/ at[t] = "others" /\ target[t] # None
           \/ BatteryMarked /\ stage[t] \notin Edges
    PROVE  BoxIInv'
<1>1. /\ TypeOK /\ Goes(t, place) /\ target' = [target EXCEPT ![t] = None]
      /\ stage' = [stage EXCEPT ![t] = "other"]
      /\ UNCHANGED <<entry, dict, active>>
  BY DEF Returns, Suspends, IInv, stateVars
<1>2. place \notin Running \cup Evaluating \cup {"alerting", "battery_row", "breach_row"}
  BY DEF Running, Evaluating
<1>3. \A u \in Tasks \ {t} : target'[u] = target[u] /\ stage'[u] = stage[u]
  BY <1>1
<1>4. t \in Sessions => /\ OwesBattery(t) => BatteryMarked \/ stale'
                        /\ OwesBreach(t) => stale'
  BY DEF OwesBattery, OwesBreach, Owes, BeforeBattery, BeforeBreach
<1> QED
  BY <1>1, <1>2, <1>3, <1>4, MoveMarks

\* The steps between the evaluations.
LEMMA BetweenMarks ==
    ASSUME IInv, BoxIInv, NEW t \in Tasks,
           HealthRaises(t) \/ Health(t) \/ Alerted(t) \/ RowWritten(t)
    PROVE  BoxIInv'
<1> USE DEF IInv
<1>0. CASE HealthRaises(t)
  <2>1. /\ loop = t /\ at[t] = "health" /\ dict[target[t]].batt = "none"
        /\ stale' = (stale \/ stage[t] \in Edges) /\ stale \in BOOLEAN
        /\ UNCHANGED <<stateVars, active>>
    BY <1>0 DEF HealthRaises, Raises, TypeOK
  <2>2. PICK place \in {"off", "listening"} : Returns(t, place)
    BY <1>0 DEF HealthRaises, Raises
  <2>3. target[t] = entry \/ stale
    BY <2>1 DEF BoxIInv, LooksAtEntry, Evaluating
  <2>4. target[t] = entry => BatteryMarked
    BY <2>1 DEF BatteryMarked
  <2>5. stale' \/ (BatteryMarked /\ stage[t] \notin Edges)
    BY <2>1, <2>3, <2>4
  <2>6. (stale => stale') /\ stale' \in BOOLEAN
    BY <2>1
  <2> QED
    BY <2>1, <2>2, <2>5, <2>6, ReturnMarks
<1>1. CASE Health(t)
  <2>1. PICK place \in {"alerting", "battery"} :
          Goes(t, place) /\ (place = "battery" => loop' = t)
    BY <1>1 DEF Health, Suspends, Continues
  <2>2. /\ loop = t /\ at[t] = "health" /\ target' = target
        /\ UNCHANGED <<entry, dict, active, stale>> /\ stale' \in BOOLEAN
    BY <1>1 DEF Health, stateVars, boxVars, TypeOK
  <2>6. stage' = stage
    BY <1>1 DEF Health
  <2>3. target[t] \in Sessions /\ (target[t] = entry \/ stale)
    BY <2>2 DEF BoxIInv, LooksAtEntry, Evaluating
  <2>4. /\ place \in Running => loop' = t
        /\ place \in Evaluating => target'[t] = entry \/ stale'
        /\ at'[t] = place
    BY <2>1, <2>2, <2>3 DEF Running, Evaluating, Goes, TypeOK
  <2>5. /\ OwesBattery(t) => OwesBattery(t)'
        /\ OwesBreach(t) => OwesBreach(t)'
        /\ \A u \in Tasks \ {t} : stage'[u] = stage[u]
    BY <2>1, <2>2, <2>4, <2>6 DEF OwesBattery, OwesBreach, Owes, BeforeBattery, BeforeBreach
  <2> QED
    BY <2>1, <2>2, <2>3, <2>4, <2>5, MoveMarks
<1>2. CASE Alerted(t) \/ RowWritten(t)
  <2>1. PICK place \in {"battery", "breach", "notified"} :
          /\ Goes(t, place) /\ loop' = t /\ loop = None
          /\ \/ at[t] = "alerting" /\ place = "battery"
             \/ at[t] = "battery_row" /\ place = "breach"
             \/ at[t] = "breach_row" /\ place = "notified"
    BY <1>2 DEF Alerted, RowWritten, Continues
  <2>2. /\ target' = target /\ UNCHANGED <<entry, dict, active>>
        /\ stale' = (stale \/ target[t] # entry) /\ stale \in BOOLEAN
    BY <1>2 DEF Alerted, RowWritten, Resumes, stateVars, TypeOK
  <2>6. stage' = stage
    BY <1>2 DEF Alerted, RowWritten
  <2>3. target[t] \in Sessions
    BY <2>1 DEF BoxIInv, LooksAtEntry, Evaluating
  <2>4. /\ at'[t] = place /\ stale' \in BOOLEAN
        /\ stale => stale'
        /\ target'[t] = entry \/ stale'
    BY <2>1, <2>2 DEF Goes, TypeOK
  <2>5. /\ OwesBattery(t) => OwesBattery(t)'
        /\ OwesBreach(t) => OwesBreach(t)'
        /\ \A u \in Tasks \ {t} : stage'[u] = stage[u]
    BY <2>1, <2>2, <2>4, <2>6 DEF OwesBattery, OwesBreach, Owes, BeforeBattery, BeforeBreach
  <2> QED
    BY <2>1, <2>2, <2>3, <2>4, <2>5, MoveMarks
<1> QED
  BY <1>0, <1>1, <1>2

\* The evaluation of the battery, of the registered dictionary unless it is a stale one.
LEMMA BoxBatteryMarks == ASSUME IInv, BoxIInv, NEW t \in Tasks, BoxBattery(t) PROVE BoxIInv'
<1> DEFINE batt == dict[target[t]].batt
<1> USE DEF IInv
<1>1. /\ loop = t /\ at[t] = "battery" /\ target' = target /\ UNCHANGED <<entry, dict, stale, stage>>
      /\ Set(t, "battery", batt \in {"low", "urgent"}, batt = "ok", "battery_row", "breach")
  BY DEF BoxBattery, stateVars
<1>2. target[t] \in Sessions /\ (target[t] = entry \/ stale)
  BY <1>1 DEF BoxIInv, LooksAtEntry, Evaluating
<1>3. PICK place \in {"battery_row", "breach"} : Goes(t, place) /\ (place = "breach" => loop' = t)
  BY <1>1 DEF Set, Continues, Suspends
<1>4. /\ "breach" \in active' <=> "breach" \in active
      /\ batt \in {"low", "urgent"} => "battery" \in active'
      /\ batt = "ok" => "battery" \notin active'
  BY <1>1 DEF Set, Starts, Clears
<1>5. /\ place \in Running => loop' = t
      /\ place \in Evaluating => target'[t] = entry \/ stale'
  BY <1>1, <1>2, <1>3 DEF Running, Evaluating
<1>6. /\ Looping' /\ LooksAtEntry' /\ at'[t] = place
      /\ \A s \in Sessions \ {t} : OwesBattery(s) => OwesBattery(s)'
      /\ \A s \in Sessions \ {t} : OwesBreach(s) => OwesBreach(s)'
  BY <1>1, <1>2, <1>3, <1>5, OneMoves
<1>7. Marked'
  <2> SUFFICES ASSUME ~stale
               PROVE  /\ entry # None /\ BatteryMarked'
                      /\ BreachMarked' \/ \E s \in Sessions : OwesBreach(s)'
    BY <1>1 DEF Marked
  <2>1. target[t] = entry /\ entry # None
    BY <1>2, PipelineAssumption DEF Tasks
  <2>2. BatteryMarked'
    BY <1>1, <1>4, <2>1 DEF BatteryMarked
  <2>3. BreachMarked \/ \E s \in Sessions : OwesBreach(s)
    BY <2>1 DEF BoxIInv, Marked
  <2>4. BreachMarked => BreachMarked'
    BY <1>1, <1>4 DEF BreachMarked
  <2>5. OwesBreach(t) => OwesBreach(t)'
    BY <1>1, <1>3, <1>6, <2>1 DEF OwesBreach, Owes, BeforeBreach
  <2>6. (\E s \in Sessions : OwesBreach(s)) => \E s \in Sessions : OwesBreach(s)'
    BY <1>6, <2>5
  <2> QED
    BY <2>1, <2>2, <2>3, <2>4, <2>6
<1> QED
  BY <1>6, <1>7 DEF BoxIInv

LEMMA BoxBreachMarks == ASSUME IInv, BoxIInv, NEW t \in Tasks, BoxBreach(t) PROVE BoxIInv'
<1> DEFINE flag == dict[target[t]].flag
<1> USE DEF IInv
<1>1. /\ loop = t /\ at[t] = "breach" /\ target' = target /\ UNCHANGED <<entry, dict, stale, stage>>
      /\ Set(t, "breach", flag, ~flag, "breach_row", "notified")
  BY DEF BoxBreach, stateVars
<1>2. target[t] \in Sessions /\ (target[t] = entry \/ stale)
  BY <1>1 DEF BoxIInv, LooksAtEntry, Evaluating
<1>3. PICK place \in {"breach_row", "notified"} : Goes(t, place) /\ (place = "notified" => loop' = t)
  BY <1>1 DEF Set, Continues, Suspends
<1>4. flag \in BOOLEAN
  BY <1>2 DEF TypeOK, State
<1>5. ("battery" \in active' <=> "battery" \in active) /\ (flag <=> "breach" \in active')
  BY <1>1, <1>4 DEF Set, Starts, Clears
<1>6. /\ place \in Running => loop' = t
      /\ place \notin Evaluating
  BY <1>1, <1>2, <1>3 DEF Running, Evaluating
<1>7. /\ Looping' /\ LooksAtEntry' /\ at'[t] = place
      /\ \A s \in Sessions \ {t} : OwesBattery(s) => OwesBattery(s)'
      /\ \A s \in Sessions \ {t} : OwesBreach(s) => OwesBreach(s)'
  BY <1>1, <1>2, <1>3, <1>6, OneMoves
<1>8. Marked'
  <2> SUFFICES ASSUME ~stale
               PROVE  /\ entry # None /\ BreachMarked'
                      /\ BatteryMarked' \/ \E s \in Sessions : OwesBattery(s)'
    BY <1>1 DEF Marked
  <2>1. target[t] = entry /\ entry # None
    BY <1>2, PipelineAssumption DEF Tasks
  <2>2. BreachMarked'
    BY <1>1, <1>5, <2>1 DEF BreachMarked
  <2>3. BatteryMarked \/ \E s \in Sessions : OwesBattery(s)
    BY <2>1 DEF BoxIInv, Marked
  <2>4. BatteryMarked => BatteryMarked'
    BY <1>1, <1>5 DEF BatteryMarked
  <2>5. ~OwesBattery(t)
    BY <1>1 DEF OwesBattery, Owes, BeforeBattery
  <2>6. (\E s \in Sessions : OwesBattery(s)) => \E s \in Sessions : OwesBattery(s)'
    BY <1>7, <2>5
  <2> QED
    BY <2>1, <2>2, <2>3, <2>4, <2>6
<1> QED
  BY <1>7, <1>8 DEF BoxIInv

LEMMA ReaderMarks == ASSUME IInv, BoxIInv, NEW s \in Sessions, Reader(s) PROVE BoxIInv'
<1> USE DEF IInv
<1>0. s \in Tasks /\ stale \in BOOLEAN
  BY DEF Tasks, TypeOK
<1>1. CASE Connect(s)
  BY <1>1, ConnectMarks
<1>2. CASE Cancelled(s) \/ LinkLost(s)
  BY <1>2, ReaderEndsMarks DEF Cancelled, LinkLost
<1>3. CASE Receive(s) \/ ReceivePosition(s) \/ BreachEdge(s)
  <2>1. /\ loop \in {s, None} /\ at[s] \in {"listening", "notified"}
        /\ UNCHANGED <<entry, active, stale>>
        /\ \A u \in Tasks \ {s} : stage'[u] = stage[u]
    BY <1>3 DEF Receive, ReceivePosition, BreachEdge, boxVars, TypeOK
  <2>2. CASE Receive(s)
    <3>1. PICK batt \in Readings : Update(s, [dict[entry] EXCEPT !.batt = batt])
      BY <2>2 DEF Receive
    <3>2. entry # None => [dict[entry] EXCEPT !.batt = batt].flag = dict[entry].flag
      BY DEF TypeOK, State
    <3> QED
      BY <2>1, <3>1, <3>2, UpdateMarks
  <2>3. CASE ReceivePosition(s)
    <3>1. Update(s, dict[entry])
      BY <2>3 DEF ReceivePosition
    <3> QED
      BY <2>1, <3>1, UpdateMarks
  <2>4. CASE BreachEdge(s)
    <3>1. Update(s, Injected(dict[entry])) /\ stage'[s] \in Edges
      BY <1>0, <2>4 DEF BreachEdge, TypeOK, Edges
    <3> QED
      BY <2>1, <3>1, UpdateMarks
  <2> QED
    BY <1>3, <2>2, <2>3, <2>4
<1>4. CASE NotifyOthers(s)
  <2>1. /\ loop = s /\ at[s] = "notified" /\ target[s] # None /\ Goes(s, "others") /\ target' = target
        /\ UNCHANGED <<entry, dict, active, stale, stage>>
    BY <1>4 DEF NotifyOthers, Suspends, stateVars, boxVars
  <2>2. ~OwesBattery(s) /\ ~OwesBreach(s)
    BY <2>1 DEF OwesBattery, OwesBreach, Owes, BeforeBattery, BeforeBreach
  <2>3. "others" \notin Running \cup Evaluating \cup {"alerting", "battery_row", "breach_row"}
    BY DEF Running, Evaluating
  <2> QED
    BY <1>0, <2>1, <2>2, <2>3, MoveMarks
<1>5. CASE OthersNotified(s)
  <2>1. PICK place \in {"health", "notified"} :
          /\ Goes(s, place) /\ loop' = s
          /\ \/ place = "health" /\ entry # None /\ target' = [target EXCEPT ![s] = entry]
             \/ place = "notified" /\ entry = None /\ target' = [target EXCEPT ![s] = entry]
             \/ place = "notified" /\ target[s] # None /\ target' = target
    BY <1>5 DEF OthersNotified, Notify, Continues
  <2>2. loop = None /\ at[s] = "others" /\ UNCHANGED <<entry, dict, active, stale, stage>>
    BY <1>5 DEF OthersNotified, stateVars, boxVars
  <2>3. /\ \A u \in Tasks \ {s} : target'[u] = target[u]
        /\ place = "health" => target'[s] = entry /\ entry \in Sessions
        /\ at'[s] = place
    BY <1>0, <2>1 DEF TypeOK, Goes
  <2>4. /\ place \in Evaluating => target'[s] = entry
        /\ place \in Evaluating \cup {"alerting", "battery_row", "breach_row"} => target'[s] \in Sessions
    BY <2>3 DEF Evaluating
  <2>5. /\ entry # None /\ OwesBattery(s) => OwesBattery(s)'
        /\ entry # None /\ OwesBreach(s) => OwesBreach(s)'
    BY <2>1, <2>2, <2>3 DEF OwesBattery, OwesBreach, Owes, BeforeBattery, BeforeBreach
  <2> QED
    BY <1>0, <2>1, <2>2, <2>3, <2>4, <2>5, MoveMarks
<1>6. CASE NoEdge(s) \/ Published(s)
  <2>1. /\ loop \in {s, None} /\ at[s] \in {"notified", "publishing"} /\ Returns(s, "listening")
        /\ UNCHANGED <<stateVars, active>> /\ stale' = stale
    BY <1>6 DEF NoEdge, Published, Listens, boxVars
  <2> QED
    BY <1>0, <2>1, ReturnMarks
<1>8. CASE OthersRaise(s)
  <2>1. /\ loop = None /\ at[s] = "others" /\ Returns(s, "listening") /\ UNCHANGED <<stateVars, active>>
        /\ stale' = (stale \/ target[s] = None)
    BY <1>8 DEF OthersRaise, Raises
  <2>2. (stale => stale') /\ stale' \in BOOLEAN /\ (stale' \/ target[s] # None)
    BY <1>0, <2>1
  <2> QED
    BY <1>0, <2>1, <2>2, ReturnMarks
<1>7. CASE Publish(s)
  <2>1. loop = s /\ at[s] = "notified" /\ UNCHANGED <<stateVars, active>> /\ stale' = stale
    BY <1>7 DEF Publish, boxVars
  <2>2. CASE Returns(s, "listening")
    BY <1>0, <2>1, <2>2, ReturnMarks
  <2>3. CASE Goes(s, "publishing") /\ target' = target /\ stage' = stage
    <3>1. UNCHANGED <<entry, dict, active, stale>>
      BY <2>1 DEF stateVars
    <3>2. ~OwesBattery(s) /\ ~OwesBreach(s)
      BY <2>1 DEF OwesBattery, OwesBreach, Owes, BeforeBattery, BeforeBreach
    <3>3. "publishing" \notin Running \cup Evaluating \cup {"alerting", "battery_row", "breach_row"}
      BY DEF Running, Evaluating
    <3> QED
      BY <1>0, <2>1, <2>3, <3>1, <3>2, <3>3, MoveMarks
  <2> QED
    BY <1>7, <2>2, <2>3 DEF Publish, Listens, Suspends
<1> QED
  BY <1>1, <1>2, <1>3, <1>4, <1>5, <1>6, <1>7, <1>8 DEF Reader

LEMMA NeighbourMarks ==
    ASSUME IInv, BoxIInv, NEW n \in Neighbours,
           NeighbourMoves(n) \/ NeighbourCancelled(n) \/ NeighbourDone(n)
    PROVE  BoxIInv'
<1> USE DEF IInv
<1>0. n \in Tasks /\ n \notin Sessions /\ stale \in BOOLEAN
  BY PipelineAssumption DEF Tasks, TypeOK
<1>1. CASE NeighbourMoves(n)
  <2>1. /\ loop = None /\ entry \in Sessions /\ Goes(n, "health") /\ loop' = n
        /\ target' = [target EXCEPT ![n] = entry] /\ UNCHANGED <<entry, dict, active, stale, stage>>
    BY <1>1 DEF NeighbourMoves, Continues, stateVars, boxVars, TypeOK
  <2>2. target'[n] = entry /\ \A u \in Tasks \ {n} : target'[u] = target[u]
    BY <1>0, <2>1 DEF TypeOK
  <2> QED
    BY <1>0, <2>1, <2>2, MoveMarks
<1>2. CASE NeighbourCancelled(n) \/ NeighbourDone(n)
  <2>1. loop \in {n, None} /\ Returns(n, "off") /\ UNCHANGED <<stateVars, active>> /\ stale' = stale
    BY <1>2 DEF NeighbourCancelled, NeighbourDone, boxVars
  <2> QED
    BY <1>0, <2>1, ReturnMarks
<1> QED
  BY <1>1, <1>2

LEMMA NextMarks == IInv /\ BoxIInv /\ [Next]_vars => BoxIInv'
<1> SUFFICES ASSUME IInv, BoxIInv, [Next]_vars PROVE BoxIInv'
  OBVIOUS
<1>1. ASSUME NEW t \in Tasks, Listeners(t) PROVE BoxIInv'
  BY <1>1, BetweenMarks, BoxBatteryMarks, BoxBreachMarks DEF Listeners
<1>2. ASSUME NEW s \in Sessions, Reader(s) PROVE BoxIInv'
  BY <1>2, ReaderMarks
<1>3. ASSUME NEW n \in Neighbours, NeighbourMoves(n) \/ NeighbourCancelled(n) \/ NeighbourDone(n)
      PROVE  BoxIInv'
  BY <1>3, NeighbourMarks
<1>4. CASE Disconnect
  <2>1. loop = None /\ entry \in Tasks /\ Unregister /\ UNCHANGED <<at, target>>
    BY <1>4 DEF Disconnect, IInv, TypeOK, Tasks
  <2> QED
    BY <2>1, UnregisterMarks DEF IInv
<1>5. CASE (\E f \in Fences : SetFence(f)) \/ Consume \/ UNCHANGED vars
  <2>1. UNCHANGED <<stateVars, loop, at, target, stage, active, stale>>
    BY <1>5 DEF SetFence, Consume, vars, taskVars, boxVars
  <2>2. Looping' /\ LooksAtEntry'
    BY <2>1 DEF BoxIInv, Looping, LooksAtEntry, stateVars
  <2>3. Marked'
    BY <2>1 DEF BoxIInv, Marked, BatteryMarked, BreachMarked, OwesBattery, OwesBreach, Owes, stateVars
  <2> QED
    BY <2>2, <2>3 DEF BoxIInv
<1> QED
  BY <1>1, <1>2, <1>3, <1>4, <1>5 DEF Next

\* Between updates the black box has exactly the issues that the current session shows, for
\* any number of sessions, neighbours and reconnects (BlackBox.evaluate and forget).
THEOREM BlackBoxIsRight == Spec => []BlackBoxAgrees
<1>1. ASSUME IInv, BoxIInv, Quiet, entry # None, ~stale PROVE BatteryMarked /\ BreachMarked
  <2>1. \A s \in Sessions : ~OwesBattery(s) /\ ~OwesBreach(s)
    BY <1>1 DEF Quiet, OwesBattery, OwesBreach, Owes, BeforeBattery, BeforeBreach, Tasks
  <2> QED
    BY <1>1, <2>1 DEF BoxIInv, Marked
<1>2. IInv /\ BoxIInv => BlackBoxAgrees
  <2> SUFFICES ASSUME IInv, BoxIInv, Quiet, entry # None, ~stale
               PROVE  /\ dict[entry].batt \in {"low", "urgent"} => open["battery"] = 1
                      /\ dict[entry].batt = "ok"  => open["battery"] = 0
                      /\ dict[entry].flag <=> open["breach"] = 1
    BY DEF BlackBoxAgrees
  <2>1. /\ open["battery"] = (IF "battery" \in active THEN 1 ELSE 0)
        /\ open["breach"] = (IF "breach" \in active THEN 1 ELSE 0)
    BY DEF IInv, MarksAreRows, Issues
  <2>2. BatteryMarked /\ BreachMarked
    BY <1>1
  <2>3. dict[entry].flag \in BOOLEAN
    BY DEF IInv, TypeOK, State
  <2> QED
    BY <2>1, <2>2, <2>3 DEF BatteryMarked, BreachMarked
<1>3. IInv /\ [Next]_vars => IInv'
  BY ListenersPreserve, ReaderPreserves, NeighbourPreserves, SetFencePreserves,
     DisconnectPreserves, ConsumePreserves, StutterPreserves
  DEF Next
<1>4. Spec => [](IInv /\ BoxIInv)
  BY InitIInv, BoxInit, <1>3, NextMarks, PTL DEF Spec
<1> QED
  BY <1>2, <1>4, PTL
=============================================================================
