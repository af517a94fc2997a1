------------------------ MODULE MavlinkManagerProofs ------------------------
(***************************************************************************)
(* Proofs about MavlinkManager for any number of connections, flights and  *)
(* probing rounds.                                                         *)
(***************************************************************************)
EXTENDS MavlinkManager, TLAPS

\* A call that waits for a heartbeat or for the streams holds an open link.
OpenBeforeCommit ==
    \A c \in Conns : attempt[c] \in {"heartbeat", "streams"} => mav[c] = "open"

\* A reader only ever captured a committed connection, so the link it closes
\* when it leaves its loop is not one that a connect() call still waits on.
ServesCommitted ==
    \A c \in Conns : serves[c] \in Conns => attempt[serves[c]] = "committed"

\* The inductive invariant: RegisteredIsServed alone does not know that the
\* link a commit is about to register is open.
IInv == TypeOK /\ RegisteredIsServed /\ OpenBeforeCommit /\ ServesCommitted

LEMMA InitIInv == Init => IInv
<1> SUFFICES ASSUME Init PROVE IInv
  OBVIOUS
<1>1. TypeOK
  BY DEF Init, TypeOK, Entries
<1>2. RegisteredIsServed
  BY IdsAssumption DEF Init, RegisteredIsServed
<1>3. OpenBeforeCommit
  BY DEF Init, OpenBeforeCommit
<1>4. ServesCommitted
  BY IdsAssumption DEF Init, ServesCommitted
<1> QED
  BY <1>1, <1>2, <1>3, <1>4 DEF IInv

\* The pre-check of connect(), whoever calls it, preserves the invariant.
LEMMA BeginPreserves ==
    ASSUME IInv, NEW c \in Conns, NEW hf \in BOOLEAN, BeginConnect(c, hf),
           caller' \in [Conns -> Rounds \cup {None}], opDisc' \in BOOLEAN
    PROVE  IInv'
  BY IdsAssumption DEF IInv, TypeOK, RegisteredIsServed, OpenBeforeCommit, ServesCommitted,
       Entries, BeginConnect, Registered, taskVars, roundVars, simVars

\* The executor steps of connect().
LEMMA ConnectPreserves ==
    ASSUME IInv, NEW c \in Conns, HeartbeatSeen(c) \/ ConnectStep(c)
    PROVE  IInv'
<1> USE IdsAssumption DEF IInv, TypeOK, RegisteredIsServed, OpenBeforeCommit, ServesCommitted,
       Entries, taskVars, roundVars, simVars
<1>1. CASE HeartbeatSeen(c)
  BY <1>1 DEF HeartbeatSeen
<1>2. CASE LinkOpened(c)
  BY <1>2 DEF LinkOpened
<1>3. CASE ConnectFails(c)
  BY <1>3 DEF ConnectFails, Release, DropAdapter, InFlight
<1>4. CASE LoseRace(c)
  BY <1>4 DEF LoseRace, Release, DropAdapter
<1>5. CASE Commit(c)
  BY <1>5 DEF Commit
<1>6. CASE ThreadOpensAfterCancel(c)
  BY <1>6 DEF ThreadOpensAfterCancel
<1> QED
  BY <1>1, <1>2, <1>3, <1>4, <1>5, <1>6 DEF ConnectStep

\* The steps of a probing round.
LEMMA RoundPreserves ==
    ASSUME IInv, NEW r \in Rounds, ListUnconnected(r) \/ ScanRequest(r) \/ RoundStep(r)
    PROVE  IInv'
<1> USE IdsAssumption DEF IInv, TypeOK, RegisteredIsServed, OpenBeforeCommit, ServesCommitted,
       Entries, attemptVars, taskVars, simVars
<1>1. CASE ListUnconnected(r)
  BY <1>1 DEF ListUnconnected
<1>2. CASE ScanRequest(r)
  BY <1>2 DEF ScanRequest
<1>3. CASE StartProbing(r)
  BY <1>3 DEF StartProbing
<1>4. CASE RoundWon(r)
  BY <1>4 DEF RoundWon, InFlight
<1>5. CASE RoundLost(r)
  BY <1>5 DEF RoundLost
<1> QED
  BY <1>1, <1>2, <1>3, <1>4, <1>5 DEF RoundStep

\* Leaving the read loop empties the registry, so nothing is left to serve.
LEMMA LeaveLoopPreserves ==
    ASSUME IInv, NEW c \in Conns, LeaveLoop(c)
    PROVE  IInv' /\ registered' = None
<1>1. registered' = None
  BY DEF LeaveLoop, Registered, ForgetDrone, IInv, RegisteredIsServed
<1>2. TypeOK'
  <2> USE DEF LeaveLoop, ForgetDrone, IInv, TypeOK, Entries, roundVars, simVars
  <2>1. CASE ~Registered
    BY <2>1
  <2>2. CASE Registered
    <3>1. connected' \in [Entries -> BOOLEAN]
      BY <2>2
    <3>2. mav' \in [Conns -> {"none", "opening", "open", "closed", "orphan"}]
      BY <2>2
    <3>3. reader' \in [Conns -> {"none", "created", "running", "cancelled", "exited"}]
      BY <2>2
    <3> QED
      BY <2>2, <3>1, <3>2, <3>3
  <2> QED
    BY <2>1, <2>2
<1>3. OpenBeforeCommit'
  BY DEF LeaveLoop, ForgetDrone, IInv, TypeOK, OpenBeforeCommit, ServesCommitted
<1>4. ServesCommitted'
  BY DEF LeaveLoop, IInv, ServesCommitted
<1> QED
  BY <1>1, <1>2, <1>3, <1>4, IdsAssumption DEF IInv, RegisteredIsServed

\* disconnect() also empties the registry.
LEMMA DisconnectPreserves ==
    ASSUME IInv, Disconnect
    PROVE  IInv'
<1> USE DEF IInv, TypeOK, Entries, roundVars, simVars
<1>1. CASE registered = None
  BY <1>1, IdsAssumption DEF Disconnect, RegisteredIsServed, OpenBeforeCommit, ServesCommitted
<1>2. CASE registered # None
  <2>1. TypeOK'
    <3>1. connected' \in [Entries -> BOOLEAN]
      BY <1>2 DEF Disconnect
    <3>2. mav' \in [Conns -> {"none", "opening", "open", "closed", "orphan"}]
      BY <1>2 DEF Disconnect
    <3>3. reader' \in [Conns -> {"none", "created", "running", "cancelled", "exited"}]
      BY <1>2 DEF Disconnect, CancelTask
    <3>4. home' \in [Conns -> {"none", "running", "stopped"}]
      BY <1>2 DEF Disconnect
    <3> QED
      BY <1>2, <3>1, <3>2, <3>3, <3>4 DEF Disconnect, ForgetDrone
  <2>2. RegisteredIsServed'
    BY <1>2, IdsAssumption DEF Disconnect, ForgetDrone, RegisteredIsServed
  <2>3. OpenBeforeCommit'
    BY <1>2 DEF Disconnect, RegisteredIsServed, OpenBeforeCommit
  <2>4. ServesCommitted'
    BY <1>2 DEF Disconnect, ServesCommitted
  <2> QED
    BY <2>1, <2>2, <2>3, <2>4
<1> QED
  BY <1>1, <1>2

\* The reader's steps and the death of a link.
LEMMA ReaderPreserves ==
    ASSUME IInv, NEW c \in Conns, ReaderStep(c) \/ LinkDies(c)
    PROVE  IInv'
<1>1. CASE ReaderStarts(c)
  BY <1>1, IdsAssumption DEF ReaderStarts, IInv, TypeOK, RegisteredIsServed,
       OpenBeforeCommit, ServesCommitted, Entries, attemptVars, roundVars, simVars
<1>2. CASE ReaderFails(c)
  BY <1>2, LeaveLoopPreserves DEF ReaderFails
<1>3. CASE ReaderCancelled(c)
  BY <1>3, LeaveLoopPreserves DEF ReaderCancelled
<1>4. CASE LinkDies(c)
  BY <1>4, IdsAssumption DEF LinkDies, IInv, TypeOK, RegisteredIsServed,
       OpenBeforeCommit, ServesCommitted, Entries, taskVars, roundVars, simVars
<1>5. CASE ReaderCancelledInPause(c)
  BY <1>5, IdsAssumption DEF ReaderCancelledInPause, IInv, TypeOK, RegisteredIsServed,
       OpenBeforeCommit, ServesCommitted, Entries, attemptVars, roundVars, simVars
<1> QED
  BY <1>1, <1>2, <1>3, <1>4, <1>5 DEF ReaderStep

\* Simulated flights: they replace or pop the registered entry, and never leave
\* a real link registered without its reader.
LEMMA FlightPreserves ==
    ASSUME IInv, NEW s \in Sims, SimulationRequest(s) \/ FlightStep(s) \/ FlightLands(s)
    PROVE  IInv'
<1> USE IdsAssumption DEF IInv, TypeOK, RegisteredIsServed, OpenBeforeCommit,
       ServesCommitted, Entries, attemptVars, taskVars, roundVars
<1>1. CASE SimulationRequest(s)
  BY <1>1 DEF SimulationRequest
<1>2. CASE AttachSimulation(s)
  <2>1. CASE SimActive
    <3>1. flight' \in [Sims -> {"idle", "requested", "waiting", "created", "running",
                               "cancelled", "ended"}]
      BY <1>2, <2>1 DEF AttachSimulation, SimActive, CancelFlight
    <3>2. connected' \in [Entries -> BOOLEAN] /\ prior' \in [Sims -> Sims \cup {None}]
      BY <1>2, <2>1 DEF AttachSimulation, SimActive
    <3>3. registered' = s /\ connected'[s]
      BY <1>2 DEF AttachSimulation
    <3> QED
      BY <1>2, <2>1, <3>1, <3>2, <3>3 DEF AttachSimulation
  <2>2. CASE ~SimActive
    <3>1. flight' = [flight EXCEPT ![s] = "created"] /\ current' = s /\ telemetry'
          /\ UNCHANGED prior
      BY <1>2, <2>2 DEF AttachSimulation
    <3>2. connected' \in [Entries -> BOOLEAN]
      BY <1>2 DEF AttachSimulation
    <3>3. registered' = s /\ connected'[s]
      BY <1>2 DEF AttachSimulation
    <3> QED
      BY <1>2, <3>1, <3>2, <3>3 DEF AttachSimulation
  <2> QED
    BY <2>1, <2>2
<1>3. CASE ReplaceFlight(s)
  BY <1>3 DEF ReplaceFlight
<1>4. CASE FlightRuns(s)
  BY <1>4 DEF FlightRuns
<1>5. CASE FlightCancelled(s) \/ FlightLands(s)
  <2>1. CleanUpFlight(s)
    BY <1>5 DEF FlightCancelled, FlightLands
  <2> QED
    BY <2>1 DEF CleanUpFlight
<1>6. CASE DetachStopped(s)
  BY <1>6 DEF DetachStopped
<1> QED
  BY <1>1, <1>2, <1>3, <1>4, <1>5, <1>6 DEF FlightStep

LEMMA StopPreserves ==
    ASSUME IInv, (\E who \in {"stop", "archive"} : StopFlight(who)) \/ Archive
    PROVE  IInv'
<1> USE IdsAssumption DEF IInv, TypeOK, RegisteredIsServed, OpenBeforeCommit,
       ServesCommitted, Entries, attemptVars, taskVars, roundVars
<1>1. CASE \E who \in {"stop", "archive"} : StopFlight(who)
  BY <1>1 DEF StopFlight, SimActive, CancelFlight
<1>2. CASE Archive
  BY ZenonT(60), <1>2 DEF Archive
<1> QED
  BY <1>1, <1>2

LEMMA LinkNextIInv == IInv /\ LinkNext => IInv'
<1> SUFFICES ASSUME IInv, LinkNext PROVE IInv'
  OBVIOUS
<1>1. ASSUME NEW c \in Conns, NEW hf \in BOOLEAN, ConnectRequest(c, hf) PROVE IInv'
  BY <1>1, BeginPreserves DEF ConnectRequest, IInv, TypeOK
<1>2. ASSUME NEW c \in Conns, NEW r \in Rounds, Probe(c, r) PROVE IInv'
  BY <1>2, BeginPreserves DEF Probe, IInv, TypeOK
<1>3. ASSUME NEW c \in Conns, HeartbeatSeen(c) \/ ConnectStep(c) PROVE IInv'
  BY <1>3, ConnectPreserves
<1>4. ASSUME NEW c \in Conns, ReaderStep(c) \/ LinkDies(c) PROVE IInv'
  BY <1>4, ReaderPreserves
<1>5. ASSUME NEW r \in Rounds, ListUnconnected(r) \/ ScanRequest(r) \/ RoundStep(r) PROVE IInv'
  BY <1>5, RoundPreserves
<1> QED
  BY <1>1, <1>2, <1>3, <1>4, <1>5, DisconnectPreserves DEF LinkNext

LEMMA StutterIInv == IInv /\ UNCHANGED vars => IInv'
  BY DEF IInv, TypeOK, RegisteredIsServed, OpenBeforeCommit, ServesCommitted, vars,
       attemptVars, taskVars, roundVars, simVars

LEMMA NextIInv == IInv /\ [Next]_vars => IInv'
<1> SUFFICES ASSUME IInv, [Next]_vars PROVE IInv'
  OBVIOUS
<1>1. CASE LinkNext
  BY <1>1, LinkNextIInv
<1>2. ASSUME NEW s \in Sims, SimulationRequest(s) \/ FlightStep(s) \/ FlightLands(s) PROVE IInv'
  BY <1>2, FlightPreserves
<1>3. CASE (\E who \in {"stop", "archive"} : StopFlight(who)) \/ Archive
  BY <1>3, StopPreserves
<1>4. CASE UNCHANGED vars
  BY <1>4, StutterIInv
<1> QED
  BY <1>1, <1>2, <1>3, <1>4 DEF Next

\* In every interleaving of connects, probes, disconnects, reader exits,
\* simulated flights and removals, the inductive invariant holds.
THEOREM InvariantHolds == Spec => []IInv
  BY InitIInv, NextIInv, PTL DEF Spec

\* The types of the state are kept by every handler.
THEOREM TypeCorrect == Spec => []TypeOK
  BY InvariantHolds, PTL DEF IInv

\* The link that _connections holds for the drone is open, has its state entry
\* and its home updater, and has a reader task that can still remove it.
THEOREM ServedRegistration == Spec => []RegisteredIsServed
  BY InvariantHolds, PTL DEF IInv
-----------------------------------------------------------------------------
\* How one step changes the registered entry: a commit into an empty place, a
\* simulated flight attaching itself, a removal, or nothing.
LEMMA RegistrationChange ==
    ASSUME IInv, Next
    PROVE  \/ registered' \in {registered, None} \cup Sims
           \/ registered = None
<1> USE DEF attemptVars, taskVars, roundVars, simVars
<1>1. ASSUME NEW c \in Conns, NEW hf \in BOOLEAN, ConnectRequest(c, hf)
      PROVE  registered' = registered
  BY <1>1 DEF ConnectRequest, BeginConnect
<1>2. ASSUME NEW c \in Conns, NEW r \in Rounds, Probe(c, r) PROVE registered' = registered
  BY <1>2 DEF Probe, BeginConnect
<1>3. ASSUME NEW c \in Conns, HeartbeatSeen(c) \/ ConnectStep(c)
      PROVE  registered' = registered \/ registered = None
  <2>1. CASE Commit(c)
    BY <2>1 DEF Commit, MayCommit, Registered, IInv, RegisteredIsServed
  <2>2. CASE ~Commit(c)
    BY <1>3, <2>2 DEF ConnectStep, HeartbeatSeen, LinkOpened, ConnectFails, LoseRace,
         Release, ThreadOpensAfterCancel
  <2> QED
    BY <2>1, <2>2
<1>4. ASSUME NEW c \in Conns, ReaderStep(c) \/ LinkDies(c)
      PROVE  registered' \in {registered, None}
  BY <1>4 DEF ReaderStep, LinkDies, ReaderStarts, ReaderFails, ReaderCancelled,
       ReaderCancelledInPause, LeaveLoop, ForgetDrone
<1>5. ASSUME NEW r \in Rounds, ListUnconnected(r) \/ ScanRequest(r) \/ RoundStep(r)
      PROVE  registered' = registered
  BY <1>5 DEF ListUnconnected, ScanRequest, RoundStep, StartProbing, RoundWon, RoundLost
<1>6. Disconnect => registered' \in {registered, None}
  BY DEF Disconnect, ForgetDrone
<1>7. LinkNext => registered' \in {registered, None} \/ registered = None
  BY <1>1, <1>2, <1>3, <1>4, <1>5, <1>6 DEF LinkNext
<1>8. ASSUME NEW s \in Sims, SimulationRequest(s) \/ FlightStep(s) \/ FlightLands(s)
      PROVE  registered' \in {registered, None} \cup Sims
  BY <1>8 DEF SimulationRequest, FlightStep, FlightLands, AttachSimulation, ReplaceFlight,
       FlightRuns, FlightCancelled, CleanUpFlight, DetachStopped
<1>9. (\E who \in {"stop", "archive"} : StopFlight(who)) \/ Archive
      => registered' \in {registered, None}
  BY DEF StopFlight, Archive
<1> QED
  BY <1>7, <1>8, <1>9 DEF Next

\* connect() never replaces a registered entry, whatever runs beside it.
THEOREM NeverTakenOver == Spec => NoTakeover
<1>1. IInv /\ [Next]_vars =>
        [\A c \in Conns : registered' = c /\ registered # c => registered = None]_vars
  BY RegistrationChange, IdsAssumption
<1> QED
  BY <1>1, InvariantHolds, PTL DEF Spec, NoTakeover
-----------------------------------------------------------------------------
(* A station without simulated flights.                                    *)

\* A call that has not begun has no adapter and no caller, and a probe never
\* has an adapter: cancelling probes cannot take an HF entry's last user away.
ProbesHaveNoAdapter ==
    \A c \in Conns :
        /\ attempt[c] = "idle" => adapter[c] = None /\ caller[c] = None
        /\ caller[c] # None => adapter[c] = None

LinkIInv == IInv /\ ProbesHaveNoAdapter /\ StateMatchesRegistry /\ HFEntryHasUser

LEMMA InitLinkIInv == Init => LinkIInv
  BY InitIInv DEF Init, LinkIInv, ProbesHaveNoAdapter, StateMatchesRegistry, HFEntryHasUser

\* The conjuncts that LinkIInv adds, step by step.
LEMMA LinkNextRest ==
    ASSUME LinkIInv, LinkNext
    PROVE  ProbesHaveNoAdapter' /\ StateMatchesRegistry' /\ HFEntryHasUser'
<1> USE IdsAssumption DEF LinkIInv, ProbesHaveNoAdapter, StateMatchesRegistry, HFEntryHasUser,
      IInv, TypeOK, RegisteredIsServed, InFlight, Registered, Entries,
      attemptVars, taskVars, roundVars, simVars
<1> DEFINE Kept == ProbesHaveNoAdapter' /\ StateMatchesRegistry' /\ HFEntryHasUser'
<1>1. ASSUME NEW c \in Conns, NEW hf \in BOOLEAN, ConnectRequest(c, hf) PROVE Kept
  <2>1. ProbesHaveNoAdapter' /\ StateMatchesRegistry'
    BY <1>1 DEF ConnectRequest, BeginConnect
  <2>2. CASE Registered
    BY <1>1, <2>1, <2>2 DEF ConnectRequest, BeginConnect
  <2>3. CASE ~Registered /\ hf /\ hfRegistry = None
    <3>1. hfRegistry' = c /\ adapter'[c] = c /\ attempt'[c] = "opening"
      BY <1>1, <2>3 DEF ConnectRequest, BeginConnect
    <3> QED
      BY <2>1, <3>1
  <2>4. CASE ~Registered /\ ~(hf /\ hfRegistry = None)
    <3>1. hfRegistry' = hfRegistry /\ registered' = registered
      BY <1>1, <2>4 DEF ConnectRequest, BeginConnect
    <3>2. ASSUME NEW d \in Conns, d # c
          PROVE  adapter'[d] = adapter[d] /\ attempt'[d] = attempt[d]
      BY <1>1, <2>4, <3>2 DEF ConnectRequest, BeginConnect
    <3>3. attempt[c] = "idle"
      BY <1>1 DEF ConnectRequest, BeginConnect
    <3>4. registered # c
      BY <3>3
    <3> QED
      BY <2>1, <3>1, <3>2, <3>3, <3>4
  <2> QED
    BY <2>2, <2>3, <2>4
<1>2. ASSUME NEW c \in Conns, NEW r \in Rounds, Probe(c, r) PROVE Kept
  BY <1>2 DEF Probe, BeginConnect
<1>3. ASSUME NEW c \in Conns, HeartbeatSeen(c) \/ LinkOpened(c) PROVE Kept
  BY <1>3 DEF HeartbeatSeen, LinkOpened
<1>4. ASSUME NEW c \in Conns, ConnectFails(c) \/ LoseRace(c) PROVE Kept
  BY <1>4 DEF ConnectFails, LoseRace, Release, DropAdapter
<1>5. ASSUME NEW c \in Conns, Commit(c) PROVE Kept
  BY <1>5 DEF Commit, MayCommit
<1>6. ASSUME NEW c \in Conns, \/ ThreadOpensAfterCancel(c) \/ LinkDies(c)
                              \/ ReaderStarts(c) \/ ReaderCancelledInPause(c)
      PROVE  Kept
  BY <1>6 DEF ThreadOpensAfterCancel, LinkDies, ReaderStarts, ReaderCancelledInPause
<1>7. ASSUME NEW c \in Conns, LeaveLoop(c) PROVE Kept
  BY <1>7 DEF LeaveLoop, ForgetDrone
<1>8. ASSUME NEW r \in Rounds, ListUnconnected(r) \/ ScanRequest(r) \/ StartProbing(r)
                               \/ RoundLost(r)
      PROVE  Kept
  BY <1>8 DEF ListUnconnected, ScanRequest, StartProbing, RoundLost
<1>9. ASSUME NEW r \in Rounds, RoundWon(r) PROVE Kept
  BY <1>9 DEF RoundWon, ProbesOf
<1>10. Disconnect => Kept
  BY DEF Disconnect, ForgetDrone
<1> QED
  BY <1>1, <1>2, <1>3, <1>4, <1>5, <1>6, <1>7, <1>8, <1>9, <1>10
     DEF LinkNext, ConnectStep, ReaderStep, ReaderFails, ReaderCancelled, RoundStep

LEMMA LinkInvariantHolds == LinkSpec => []LinkIInv
<1>1. LinkIInv /\ [LinkNext]_vars => LinkIInv'
  <2> SUFFICES ASSUME LinkIInv, [LinkNext]_vars PROVE LinkIInv'
    OBVIOUS
  <2>1. CASE LinkNext
    BY <2>1, LinkNextIInv, LinkNextRest DEF LinkIInv
  <2>2. CASE UNCHANGED vars
    BY <2>2, StutterIInv DEF LinkIInv, ProbesHaveNoAdapter, StateMatchesRegistry,
         HFEntryHasUser, InFlight, vars, attemptVars, taskVars, roundVars, simVars
  <2> QED
    BY <2>1, <2>2
<1> QED
  BY <1>1, InitLinkIInv, PTL DEF LinkSpec

\* Without simulated flights the state store holds the drone exactly while a
\* link is registered.
THEOREM StateFollowsRegistry == LinkSpec => []StateMatchesRegistry
  BY LinkInvariantHolds, PTL DEF LinkIInv

\* Without simulated flights no HF registry entry outlives its connections.
THEOREM HFEntryInUse == LinkSpec => []HFEntryHasUser
  BY LinkInvariantHolds, PTL DEF LinkIInv
=============================================================================
