---------------------- MODULE CommandControllerProofs ----------------------
(***************************************************************************)
(* Proofs about CommandController for any number of calls, any retry limit *)
(* and any history limit.                                                  *)
(***************************************************************************)
EXTENDS CommandController, TLAPS

\* Where send() stands and the command it carries agree: only a started call has
\* messages, results or executions, and only a command with an id waits.
CallsConsistent ==
    /\ \A q \in Reqs : phase[q] \in {"dispatching", "sent", "waiting"} => tries[q] >= 1
    /\ \A q \in Reqs : phase[q] = "waiting" => Id(cmd[q]) \in Ids
    /\ \A q \in Reqs : phase[q] = "grace" => Id(cmd[q]) \notin Ids
    /\ \A q \in Reqs : phase[q] = "idle" => result[q] = None /\ fut[q] = None
    /\ \A m \in uplink : phase[m[1]] # "idle"
    /\ \A a \in downlink : phase[a.req] # "idle" /\ Id(cmd[a.req]) \in Ids
    /\ \A q \in executed : phase[q] # "idle"

\* An acceptance that is still an ACK on the way, or already in a Future, is
\* backed by an execution of a command with that id.
AcksAreBacked ==
    /\ \A a \in downlink : a.verdict = "accepted" => a.req \in executed
    /\ \A q \in Reqs : fut[q] = "ACCEPTED" => \E p \in executed : Id(cmd[p]) = Id(cmd[q])

\* The inductive invariant.
IInv == TypeOK /\ CallsConsistent /\ PendingIsAwaited /\ AcksAreBacked /\ AcceptanceIsBacked

\* _append keeps the history a bounded sequence of calls.
LEMMA RecordedBounded ==
    ASSUME NEW q \in Reqs, history \in Seq(Reqs), Len(history) <= HistoryLimit
    PROVE  Recorded(q) \in Seq(Reqs) /\ Len(Recorded(q)) <= HistoryLimit
  BY CommandAssumption DEF Recorded

LEMMA InitIInv == Init => IInv
<1> SUFFICES ASSUME Init PROVE IInv
  OBVIOUS
<1>1. TypeOK
  <2>1. tries \in [Reqs -> 0..MaxRetries]
    BY CommandAssumption DEF Init
  <2>2. history \in Seq(Reqs) /\ Len(history) <= HistoryLimit
    BY CommandAssumption DEF Init
  <2>3. armed \in BOOLEAN /\ cached \in [armed : BOOLEAN, fit : {"yes", "no", "unreported"}]
    BY DEF Init
  <2>4. uplink \subseteq Reqs \X (1..MaxRetries) /\ downlink \subseteq Ack
    BY DEF Init
  <2> QED
    BY <2>1, <2>2, <2>3, <2>4 DEF Init, TypeOK
<1>2. CallsConsistent /\ PendingIsAwaited
  BY DEF Init, CallsConsistent, PendingIsAwaited
<1>3. AcksAreBacked /\ AcceptanceIsBacked
  BY CommandAssumption DEF Init, AcksAreBacked, AcceptanceIsBacked
<1> QED
  BY <1>1, <1>2, <1>3 DEF IInv

\* A started call keeps its command, so an execution that backs an acceptance
\* keeps backing it.
LEMMA SubmitPreserves ==
    ASSUME IInv, NEW q \in Reqs, NEW k \in Commands, NEW w \in BOOLEAN, Submit(q, k, w)
    PROVE  IInv'
<1> USE DEF IInv
<1>1. TypeOK'
  <2>1. CASE Denies(k, w) \/ Collides(k)
    <3>1. history' \in Seq(Reqs) /\ Len(history') <= HistoryLimit
      BY <2>1, RecordedBounded DEF Submit, Return, TypeOK
    <3> QED
      BY <2>1, <3>1 DEF Submit, Return, TypeOK
  <2>2. CASE ~Denies(k, w) /\ ~Collides(k)
    <3>1. 1 \in 0..MaxRetries
      BY CommandAssumption
    <3>2. \/ tries' = [tries EXCEPT ![q] = 1] \/ tries' = tries
      BY <2>2 DEF Submit
    <3>3. tries' \in [Reqs -> 0..MaxRetries]
      BY <3>1, <3>2 DEF TypeOK
    <3>4. history' = history
      BY <2>2 DEF Submit
    <3> QED
      BY <2>2, <3>3, <3>4 DEF Submit, TypeOK
  <2> QED
    BY <2>1, <2>2
<1>2. CallsConsistent'
  <2>1. /\ phase[q] = "idle" /\ phase'[q] \in {"done", "dispatching"}
        /\ phase'[q] = "dispatching" => tries'[q] = 1
    BY DEF Submit, Return, TypeOK
  <2>2. \A p \in Reqs \ {q} : /\ cmd'[p] = cmd[p] /\ phase'[p] = phase[p]
                              /\ tries'[p] = tries[p] /\ result'[p] = result[p]
    BY DEF Submit, Return, TypeOK
  <2>3. UNCHANGED <<fut, uplink, downlink, executed>>
    BY DEF Submit
  <2>4. \A m \in uplink : m[1] \in Reqs \ {q}
    BY <2>1 DEF TypeOK, CallsConsistent
  <2>5. \A a \in downlink : a.req \in Reqs \ {q}
    BY <2>1 DEF TypeOK, CallsConsistent, Ack
  <2>6. \A p \in executed : p \in Reqs \ {q}
    BY <2>1 DEF TypeOK, CallsConsistent
  <2> QED
    BY <2>1, <2>2, <2>3, <2>4, <2>5, <2>6 DEF CallsConsistent
<1>3. PendingIsAwaited'
  BY DEF Submit, Return, TypeOK, PendingIsAwaited
<1>4. AcksAreBacked'
  <2>1. fut[q] = None /\ \A p \in executed : p # q
    BY DEF Submit, CallsConsistent
  <2>2. \A p \in executed : cmd'[p] = cmd[p]
    BY <2>1 DEF Submit, TypeOK
  <2>3. UNCHANGED <<fut, downlink, executed>>
    BY DEF Submit
  <2>4. \A a \in downlink : a.verdict = "accepted" => a.req \in executed
    BY DEF AcksAreBacked
  <2>5. ASSUME NEW p \in Reqs, fut[p] = "ACCEPTED"
        PROVE  \E o \in executed : Id(cmd'[o]) = Id(cmd'[p])
    <3>1. p # q
      BY <2>1, <2>5, CommandAssumption
    <3>2. cmd'[p] = cmd[p]
      BY <3>1 DEF Submit, TypeOK
    <3>3. PICK o \in executed : Id(cmd[o]) = Id(cmd[p])
      BY <2>5 DEF AcksAreBacked
    <3> QED
      BY <2>2, <3>2, <3>3
  <2> QED
    BY <2>3, <2>4, <2>5 DEF AcksAreBacked
<1>5. AcceptanceIsBacked'
  <2>1. result'[q] # "ACCEPTED" /\ \A p \in executed : p \in Reqs \ {q}
    BY CommandAssumption DEF Submit, Return, TypeOK, CallsConsistent
  <2>2. \A p \in Reqs \ {q} : cmd'[p] = cmd[p] /\ result'[p] = result[p]
    BY DEF Submit, Return, TypeOK
  <2>3. executed' = executed
    BY DEF Submit
  <2> QED
    BY <2>1, <2>2, <2>3 DEF AcceptanceIsBacked
<1> QED
  BY <1>1, <1>2, <1>3, <1>4, <1>5

\* Returning a result other than an unbacked acceptance.
LEMMA ReturnPreserves ==
    ASSUME IInv, NEW q \in Reqs, phase[q] # "idle", NEW r \in {"ACCEPTED", "FAILED", "TIMEOUT"},
           Return(q, r), \A i \in Ids : pending'[i] # None => pending'[i] # q,
           \/ pending' = pending
           \/ phase[q] = "waiting" /\ pending' = [pending EXCEPT ![Id(cmd[q])] = None],
           r = "ACCEPTED" /\ Id(cmd[q]) \in Ids => \E p \in executed : Id(cmd[p]) = Id(cmd[q]),
           UNCHANGED <<cmd, tries, fut, uplink, downlink, executed, armed, cached>>
    PROVE  IInv'
<1> USE DEF IInv
<1>1. TypeOK'
  BY RecordedBounded, CommandAssumption DEF Return, TypeOK
<1>2. CallsConsistent'
  BY DEF Return, TypeOK, CallsConsistent, Ack
<1>3. PendingIsAwaited'
  BY DEF Return, TypeOK, PendingIsAwaited
<1>4. AcksAreBacked'
  BY DEF AcksAreBacked
<1>5. AcceptanceIsBacked'
  BY DEF Return, TypeOK, AcceptanceIsBacked
<1> QED
  BY <1>1, <1>2, <1>3, <1>4, <1>5

\* The steps of send() after its first dispatch.
LEMMA SendPreserves ==
    ASSUME IInv, NEW q \in Reqs, SendStep(q)
    PROVE  IInv'
<1> USE DEF IInv
<1>1. CASE DispatchSent(q)
  <2>1. tries[q] \in 1..MaxRetries
    BY <1>1, CommandAssumption DEF DispatchSent, TypeOK, CallsConsistent
  <2>2. TypeOK'
    BY <1>1, <2>1 DEF DispatchSent, TypeOK
  <2>3. CallsConsistent'
    BY <1>1 DEF DispatchSent, TypeOK, CallsConsistent, Ack
  <2>4. PendingIsAwaited' /\ AcksAreBacked' /\ AcceptanceIsBacked'
    BY <1>1 DEF DispatchSent, TypeOK, PendingIsAwaited, AcksAreBacked, AcceptanceIsBacked
  <2> QED
    BY <2>2, <2>3, <2>4
<1>2. CASE DispatchFails(q)
  <2>1. \A i \in Ids : pending[i] # None => pending[i] # q
    BY <1>2 DEF DispatchFails, PendingIsAwaited
  <2> QED
    BY <1>2, <2>1, ReturnPreserves DEF DispatchFails
<1>3. CASE AwaitAck(q)
  <2>1. CASE Id(cmd[q]) \in Ids
    <3>0. /\ phase' = [phase EXCEPT ![q] = "waiting"]
          /\ pending' = [pending EXCEPT ![Id(cmd[q])] = q]
          /\ fut' = [fut EXCEPT ![q] = None]
          /\ UNCHANGED <<cmd, tries, result, uplink, downlink, executed, armed, cached, history>>
      BY <1>3, <2>1 DEF AwaitAck
    <3>1. TypeOK'
      <4>1. pending' \in [Ids -> Reqs \cup {None}]
        BY <3>0 DEF TypeOK
      <4>2. fut' \in [Reqs -> {None, "ACCEPTED", "FAILED"}]
        BY <3>0 DEF TypeOK
      <4> QED
        BY <3>0, <4>1, <4>2 DEF TypeOK
    <3>2. CallsConsistent'
      BY <1>3, <2>1 DEF AwaitAck, TypeOK, CallsConsistent, Ack
    <3>3. PendingIsAwaited'
      <4> SUFFICES ASSUME NEW i \in Ids, pending'[i] # None
                   PROVE  /\ phase'[pending'[i]] = "waiting"
                          /\ Id(cmd'[pending'[i]]) = i
                          /\ fut'[pending'[i]] = None
        BY DEF PendingIsAwaited
      <4>1. CASE i = Id(cmd[q])
        BY <3>0, <4>1 DEF TypeOK
      <4>2. CASE i # Id(cmd[q])
        BY <3>0, <4>2 DEF TypeOK, PendingIsAwaited
      <4> QED
        BY <4>1, <4>2
    <3>4. AcksAreBacked' /\ AcceptanceIsBacked'
      BY <1>3, <2>1, CommandAssumption DEF AwaitAck, TypeOK, AcksAreBacked, AcceptanceIsBacked
    <3> QED
      BY <3>1, <3>2, <3>3, <3>4
  <2>2. CASE Id(cmd[q]) \notin Ids
    <3>1. TypeOK'
      BY <1>3, <2>2 DEF AwaitAck, TypeOK
    <3>2. CallsConsistent'
      BY <1>3, <2>2 DEF AwaitAck, TypeOK, CallsConsistent, Ack
    <3>3. PendingIsAwaited'
      BY <1>3, <2>2 DEF AwaitAck, TypeOK, PendingIsAwaited
    <3>4. AcksAreBacked' /\ AcceptanceIsBacked'
      BY <1>3, <2>2 DEF AwaitAck, AcksAreBacked, AcceptanceIsBacked
    <3> QED
      BY <3>1, <3>2, <3>3, <3>4
  <2> QED
    BY <2>1, <2>2
<1>4. CASE GraceOver(q)
  <2>1. \A i \in Ids : pending[i] # None => pending[i] # q
    BY <1>4 DEF GraceOver, PendingIsAwaited
  <2>2. Id(cmd[q]) \notin Ids
    BY <1>4 DEF GraceOver, CallsConsistent
  <2> QED
    BY <1>4, <2>1, <2>2, ReturnPreserves DEF GraceOver
<1>5. CASE Resolved(q)
  <2>1. \A i \in Ids : pending[i] # None => pending[i] # q
    BY <1>5 DEF Resolved, PendingIsAwaited
  <2>2. fut[q] \in {"ACCEPTED", "FAILED"}
    BY <1>5 DEF Resolved, TypeOK
  <2> QED
    BY <1>5, <2>1, <2>2, ReturnPreserves DEF Resolved, AcksAreBacked
<1>6. CASE AckTimeout(q)
  <2>1. \A i \in Ids : pending'[i] # None => pending'[i] # q
    BY <1>6 DEF AckTimeout, ClearPending, PendingIsAwaited, CallsConsistent, TypeOK
  <2>2. CASE tries[q] = MaxRetries
    <3>1. Return(q, "TIMEOUT") /\ UNCHANGED tries
      BY <1>6, <2>2, CommandAssumption DEF AckTimeout
    <3>2. /\ phase[q] = "waiting"
          /\ pending' = [pending EXCEPT ![Id(cmd[q])] = None]
          /\ UNCHANGED <<cmd, fut, uplink, downlink, executed, armed, cached>>
      BY <1>6 DEF AckTimeout, ClearPending
    <3> QED
      BY <2>1, <3>1, <3>2, ReturnPreserves
  <2>3. CASE tries[q] # MaxRetries
    <3>1. tries[q] + 1 \in 1..MaxRetries
      BY <2>3, CommandAssumption DEF TypeOK
    <3>2. /\ tries' = [tries EXCEPT ![q] = @ + 1]
          /\ phase' = [phase EXCEPT ![q] = "dispatching"]
          /\ UNCHANGED <<result, history>>
      BY <1>6, <2>3, CommandAssumption DEF AckTimeout, TypeOK
    <3>3. TypeOK'
      <4>1. tries' \in [Reqs -> 0..MaxRetries]
        BY <3>1, <3>2, CommandAssumption DEF TypeOK
      <4>2. pending' \in [Ids -> Reqs \cup {None}]
        BY <1>6 DEF AckTimeout, ClearPending, TypeOK
      <4> QED
        BY <1>6, <3>2, <4>1, <4>2 DEF AckTimeout, TypeOK
    <3>4. CallsConsistent'
      BY <1>6, <3>1, <3>2 DEF AckTimeout, TypeOK, CallsConsistent, Ack
    <3>5. PendingIsAwaited'
      BY <1>6, <2>1, <3>2 DEF AckTimeout, ClearPending, TypeOK, PendingIsAwaited
    <3>6. AcksAreBacked' /\ AcceptanceIsBacked'
      BY <1>6, <3>2 DEF AckTimeout, AcksAreBacked, AcceptanceIsBacked
    <3> QED
      BY <3>3, <3>4, <3>5, <3>6
  <2> QED
    BY <2>2, <2>3
<1> QED
  BY <1>1, <1>2, <1>3, <1>4, <1>5, <1>6 DEF SendStep

\* handle_ack: the Future it resolves leaves _pending in the same step.
LEMMA AckPreserves ==
    ASSUME IInv, NEW a \in downlink, AckArrives(a)
    PROVE  IInv'
<1> USE DEF IInv
<1> DEFINE id == Id(cmd[a.req])
           p == pending[id]
<1>1. /\ id \in Ids /\ a.req \in Reqs /\ p \in Reqs \cup {None}
      /\ downlink' = downlink \ {a}
      /\ pending' = [pending EXCEPT ![id] = None]
      /\ fut' = IF p = None THEN fut ELSE [fut EXCEPT ![p] = Outcome(a.verdict)]
      /\ UNCHANGED <<cmd, phase, tries, result, uplink, executed, armed, cached, history>>
  BY DEF AckArrives, Addressee, TypeOK, CallsConsistent, Ack
<1>2. p # None => phase[p] = "waiting" /\ Id(cmd[p]) = id
  BY <1>1 DEF PendingIsAwaited
<1> HIDE DEF id, p
<1>3. Outcome(a.verdict) \in {"ACCEPTED", "FAILED"}
  BY DEF Outcome
<1>4. TypeOK'
  <2>1. fut' \in [Reqs -> {None, "ACCEPTED", "FAILED"}]
    BY <1>1, <1>3 DEF TypeOK
  <2>2. pending' \in [Ids -> Reqs \cup {None}]
    BY <1>1 DEF TypeOK
  <2> QED
    BY <1>1, <2>1, <2>2 DEF TypeOK
<1>5. CallsConsistent'
  BY <1>1, <1>2 DEF TypeOK, CallsConsistent
<1>6. PendingIsAwaited'
  BY <1>1, <1>2 DEF TypeOK, PendingIsAwaited
<1>7. AcksAreBacked'
  <2>1. a.verdict = "accepted" => a.req \in executed
    BY DEF AcksAreBacked
  <2>2. Outcome(a.verdict) = "ACCEPTED" => a.verdict = "accepted"
    BY DEF Outcome
  <2>3. \A q \in Reqs : fut'[q] = "ACCEPTED" => \E r \in executed : Id(cmd[r]) = Id(cmd[q])
    <3> SUFFICES ASSUME NEW q \in Reqs, fut'[q] = "ACCEPTED"
                 PROVE  \E r \in executed : Id(cmd[r]) = Id(cmd[q])
      OBVIOUS
    <3>1. CASE p # None /\ q = p
      <4>1. Outcome(a.verdict) = "ACCEPTED"
        BY <1>1, <3>1 DEF TypeOK
      <4> QED
        BY <1>2, <2>1, <2>2, <3>1, <4>1 DEF id
    <3>2. CASE ~(p # None /\ q = p)
      <4>1. fut'[q] = fut[q]
        BY <1>1, <3>2 DEF TypeOK
      <4> QED
        BY <4>1 DEF AcksAreBacked
    <3> QED
      BY <3>1, <3>2
  <2> QED
    BY <1>1, <2>3 DEF AcksAreBacked
<1>8. AcceptanceIsBacked'
  BY <1>1 DEF AcceptanceIsBacked
<1> QED
  BY <1>4, <1>5, <1>6, <1>7, <1>8

\* What the vehicle, the radio and the telemetry do.
LEMMA EnvironmentPreserves ==
    ASSUME IInv,
           \/ \E m \in uplink, v \in {"accepted", "failed", "in_progress"} : VehicleHandles(m, v)
           \/ Lose \/ Telemetry
    PROVE  IInv'
<1> USE DEF IInv
<1>1. ASSUME NEW m \in uplink, NEW v \in {"accepted", "failed", "in_progress"},
             VehicleHandles(m, v)
      PROVE  IInv'
  <2>1. /\ m[1] \in Reqs /\ m[2] \in 1..MaxRetries /\ phase[m[1]] # "idle"
        /\ UNCHANGED <<cmd, phase, tries, result, fut, pending, cached, history>>
        /\ uplink' = uplink \ {m}
    BY <1>1 DEF VehicleHandles, TypeOK, CallsConsistent, callVars
  <2>2. /\ executed \subseteq executed' /\ executed' \subseteq executed \cup {m[1]}
        /\ v = "accepted" => m[1] \in executed'
    BY <1>1 DEF VehicleHandles
  <2>3. \A a \in downlink' :
           \/ a \in downlink
           \/ /\ a = [req |-> m[1], try |-> m[2], verdict |-> v]
              /\ Id(cmd[m[1]]) \in Ids
    BY <1>1 DEF VehicleHandles
  <2>4. armed' \in BOOLEAN
    BY <1>1 DEF VehicleHandles, TypeOK
  <2>5. downlink' \subseteq Ack
    BY <2>1, <2>3 DEF TypeOK, Ack
  <2>6. TypeOK'
    BY <2>1, <2>2, <2>4, <2>5 DEF TypeOK
  <2>7. CallsConsistent'
    BY <2>1, <2>2, <2>3 DEF CallsConsistent, TypeOK, Ack
  <2>8. PendingIsAwaited' /\ AcceptanceIsBacked'
    BY <2>1, <2>2 DEF PendingIsAwaited, AcceptanceIsBacked
  <2>9. AcksAreBacked'
    BY <2>1, <2>2, <2>3 DEF AcksAreBacked
  <2> QED
    BY <2>6, <2>7, <2>8, <2>9
<1>2. CASE Lose
  <2>1. /\ uplink' \subseteq uplink /\ downlink' \subseteq downlink
        /\ UNCHANGED <<cmd, phase, tries, result, fut, pending, executed, armed, cached, history>>
    BY <1>2 DEF Lose, callVars
  <2> QED
    BY <2>1 DEF TypeOK, CallsConsistent, PendingIsAwaited, AcksAreBacked, AcceptanceIsBacked
<1>3. CASE Telemetry
  <2>1. /\ cached' \in [armed : BOOLEAN, fit : {"yes", "no", "unreported"}]
        /\ UNCHANGED <<cmd, phase, tries, result, fut, pending, uplink, downlink, executed,
                       armed, history>>
    BY <1>3 DEF Telemetry, callVars, TypeOK
  <2> QED
    BY <2>1 DEF TypeOK, CallsConsistent, PendingIsAwaited, AcksAreBacked, AcceptanceIsBacked
<1> QED
  BY <1>1, <1>2, <1>3

LEMMA NextIInv == IInv /\ [Next]_vars => IInv'
<1> SUFFICES ASSUME IInv, [Next]_vars PROVE IInv'
  OBVIOUS
<1>1. CASE Next
  BY <1>1, SubmitPreserves, SendPreserves, AckPreserves, EnvironmentPreserves DEF Next
<1>2. CASE UNCHANGED vars
  BY <1>2 DEF vars, callVars, IInv, TypeOK, CallsConsistent, PendingIsAwaited, AcksAreBacked,
       AcceptanceIsBacked
<1> QED
  BY <1>1, <1>2

LEMMA InvariantHolds == Spec => []IInv
  BY InitIInv, NextIInv, PTL DEF Spec

\* The state of the controller keeps its types: in particular the history stays
\* within HISTORY_LIMIT and no call is dispatched more than MAX_RETRIES times.
THEOREM TypeCorrect == Spec => []TypeOK
  BY InvariantHolds, PTL DEF IInv

\* No Future is left behind in _pending, so the collision guard never blocks a
\* command id for good.
THEOREM NoAbandonedFuture == Spec => []PendingIsAwaited
  BY InvariantHolds, PTL DEF IInv

\* An acceptance of an acknowledged command is backed by the vehicle.
THEOREM AcceptanceBacked == Spec => []AcceptanceIsBacked
  BY InvariantHolds, PTL DEF IInv
=============================================================================
