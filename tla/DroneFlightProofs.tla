-------------------------- MODULE DroneFlightProofs --------------------------
(***************************************************************************)
(* The parts of drone_flight that talk to a vehicle.                       *)
(*                                                                         *)
(* MissionTransfer: an upload that found nothing under way on the link and *)
(* was accepted is what the vehicle stores, and only real failures refuse  *)
(* it.                                                                     *)
(*                                                                         *)
(* SimulatedFlight keeps its types and its heights, and no flight on its   *)
(* route outside an enforced fence has been missed, for any row of cells,  *)
(* route and fence, any number of flights, any commands and any bounds.    *)
(***************************************************************************)
EXTENDS MissionTransfer, SimulatedFlight, SequenceTheorems, FiniteSetTheorems,
        WellFoundedInduction, TLAPS

-----------------------------------------------------------------------------
(* MissionTransfer *)

Down(m) == \E i \in 1..Len(downlink) : downlink[i] = m

\* MISSION_COUNT of the running upload is the next thing the vehicle reads.
Pending == uplink # <<>> /\ uplink[1].type = "count"

Bookkeeping ==
    /\ expected # 0 => Len(received) < expected
    /\ \A t \in Transfers : /\ sent[t] \subseteq 0..(count[t] - 1)
                            /\ phase[t] = "waiting" => sent[t] = {}
                            /\ phase[t] = "running" => t = latest
                            /\ phase[t] = "waiting" => t # latest

\* Whatever is under way to the vehicle is the upload's.
OwnUplink(t) ==
    \A i \in 1..Len(uplink) :
        /\ uplink[i].type = "count" => i = 1 /\ uplink[i].n = count[t]
        /\ uplink[i].type = "item" => uplink[i].of = t /\ uplink[i].seq \in sent[t]

OwnItems(t) == \A i \in 1..Len(received) : received[i] = Item(t, i - 1)

\* The vehicle took the upload's own MISSION_COUNT.
OwnSession(t) ==
    /\ ~Pending
    /\ OwnItems(t)
    /\ Len(received) <= count[t]
    /\ expected \in {0, count[t]}
    /\ Down(Ack("accepted")) => expected = 0 /\ Len(received) = count[t]

Known(t, k) == k \in sent[t] \/ Down(Request(k))

\* It did not (yet, or ever): it may be completing an earlier upload, but never
\* asks again for the items it had when this one began.
OldSession(t) ==
    /\ Down(Ack("accepted")) => ~Pending /\ expected = 0 /\ \A k \in Nat : Known(t, k) => k < Len(received)
    /\ expected # 0 => \A k \in Nat : Known(t, k) => k <= Len(received)
    /\ Known(t, 0) /\ (expected # 0 \/ Down(Ack("accepted"))) =>
           OwnItems(t) /\ Len(received) <= count[t]

Delivered(t) ==
    /\ \A i \in 1..Len(uplink) : uplink[i].type # "count"
    /\ expected = 0
    /\ received = Mission(t)

Truthful ==
    latest # None /\ startedOn[latest] # "busy" =>
        /\ phase[latest] = "running" => OwnUplink(latest) /\ (OwnSession(latest) \/ OldSession(latest))
        /\ phase[latest] = "accepted" => Delivered(latest)

IInv == TypeOK /\ Bookkeeping /\ Truthful
-----------------------------------------------------------------------------
(* Channels.                                                               *)

\* A channel after a message is sent is the old one, perhaps with the message added.
LEMMA AfterFacts ==
    ASSUME NEW S, NEW c \in Seq(S), NEW m \in S, NEW d \in After(c, m)
    PROVE  /\ d \in Seq(S)
           /\ d = c \/ (Len(d) = Len(c) + 1 /\ d[Len(d)] = m)
           /\ \A i \in 1..Len(c) : i \in 1..Len(d) /\ d[i] = c[i]
           /\ \A i \in 1..Len(d) : d[i] = m \/ (i \in 1..Len(c) /\ d[i] = c[i])
<1>1. CASE d = c
  BY <1>1
<1>2. CASE d = Append(c, m)
  BY <1>2
<1>3. QED
  BY <1>1, <1>2 DEF After

\* A channel after its first message is taken.
LEMMA TailFacts ==
    ASSUME NEW S, NEW c \in Seq(S), c # <<>>
    PROVE  /\ Head(c) = c[1] /\ Head(c) \in S /\ 1 \in 1..Len(c)
           /\ Tail(c) \in Seq(S)
           /\ \A i \in 1..Len(Tail(c)) : i + 1 \in 1..Len(c) /\ Tail(c)[i] = c[i + 1]
  OBVIOUS

LEMMA Messages ==
    /\ \A k \in 0..(MaxItems - 1) : Request(k) \in Replies
    /\ \A v \in Verdicts : Ack(v) \in Replies
    /\ \A n \in 1..MaxItems : [type |-> "count", n |-> n] \in Commands
    /\ \A t \in Transfers, k \in 0..(MaxItems - 1) :
          [type |-> "item", of |-> t, seq |-> k] \in Commands
    /\ [type |-> "set_current"] \in Commands
    /\ \A m \in Replies : /\ m.type = "request" => m.seq \in 0..(MaxItems - 1)
                          /\ m.type = "ack" => m.verdict \in Verdicts
    /\ \A m \in Commands : /\ m.type = "count" => m.n \in 1..MaxItems
                           /\ m.type = "item" => m.of \in Transfers /\ m.seq \in 0..(MaxItems - 1)
  BY DEF Request, Ack, Replies, Commands
\* What the two ends read.
LEMMA Heads ==
    ASSUME TypeOK
    PROVE  /\ downlink # <<>> =>
                /\ Head(downlink) \in Replies /\ Tail(downlink) \in Seq(Replies)
                /\ Head(downlink).type = "request" => Head(downlink).seq \in 0..(MaxItems - 1)
                /\ Head(downlink).type = "ack" => Head(downlink).verdict \in Verdicts
           /\ uplink # <<>> =>
                /\ Head(uplink) \in Commands /\ Tail(uplink) \in Seq(Commands)
                /\ Head(uplink).type = "count" => Head(uplink).n \in 1..MaxItems
                /\ Head(uplink).type = "item" =>
                      Head(uplink).of \in Transfers /\ Head(uplink).seq \in 0..(MaxItems - 1)
<1>1. downlink # <<>> => Head(downlink) \in Replies /\ Tail(downlink) \in Seq(Replies)
  BY TailFacts DEF TypeOK
<1>2. uplink # <<>> => Head(uplink) \in Commands /\ Tail(uplink) \in Seq(Commands)
  BY TailFacts DEF TypeOK
<1>3. QED
  BY <1>1, <1>2, Messages
-----------------------------------------------------------------------------
(* Types.                                                                  *)

LEMMA InitTypes == Init => TypeOK
<1> SUFFICES ASSUME Init PROVE TypeOK
  OBVIOUS
<1>1. /\ uplink \in Seq(Commands) /\ downlink \in Seq(Replies)
      /\ received \in Seq([of : Transfers, seq : 0..(MaxItems - 1)])
  BY DEF Init
<1>2. count \in [Transfers -> 1..MaxItems] /\ latest \in Transfers \cup {None} /\ excuse \in BOOLEAN
  BY DEF Init
<1>3. expected \in 0..MaxItems
  BY TransferAssumption DEF Init
<1>4. /\ phase \in [Transfers -> {"waiting", "running", "accepted", "rejected", "mismatch", "timeout"}]
      /\ sent \in [Transfers -> SUBSET (0..(MaxItems - 1))]
      /\ startedOn \in [Transfers -> {"none", "idle", "quiet", "busy"}]
  BY DEF Init
<1>5. QED
  BY <1>1, <1>2, <1>3, <1>4 DEF TypeOK

LEMMA NextTypes == TypeOK /\ Bookkeeping /\ [Next]_vars => TypeOK'
<1> SUFFICES ASSUME TypeOK, Bookkeeping, [Next]_vars PROVE TypeOK'
  OBVIOUS
<1> USE TransferAssumption
<1>1. ASSUME NEW t \in Transfers, Start(t) PROVE TypeOK'
  <2>1. uplink' \in Seq(Commands)
    BY <1>1, Messages, AfterFacts DEF TypeOK, Start
  <2>2. QED
    BY <1>1, <2>1 DEF TypeOK, Start, Ends, vehicle
<1>2. ASSUME NEW t \in Transfers, Serve(t) PROVE TypeOK'
  <2>1. downlink' \in Seq(Replies) /\ Head(downlink).seq \in 0..(MaxItems - 1)
    BY <1>2, Heads DEF Serve
  <2>2. uplink' \in Seq(Commands)
    BY <1>2, <2>1, Messages, AfterFacts DEF TypeOK, Serve
  <2>3. sent' \in [Transfers -> SUBSET (0..(MaxItems - 1))]
    <3>1. sent' = sent \/ sent' = [sent EXCEPT ![t] = @ \cup {Head(downlink).seq}]
      BY <1>2 DEF Serve
    <3>2. sent[t] \cup {Head(downlink).seq} \in SUBSET (0..(MaxItems - 1))
      BY <2>1 DEF TypeOK
    <3>3. QED
      BY <3>1, <3>2 DEF TypeOK
  <2>4. phase' \in [Transfers -> {"waiting", "running", "accepted", "rejected", "mismatch", "timeout"}]
    BY <1>2 DEF TypeOK, Serve, Ends
  <2>5. QED
    BY <1>2, <2>1, <2>2, <2>3, <2>4 DEF TypeOK, Serve, vehicle
<1>3. ASSUME NEW t \in Transfers, TakeAck(t) PROVE TypeOK'
  <2>1. downlink' \in Seq(Replies)
    BY <1>3, TailFacts DEF TypeOK, TakeAck
  <2>2. uplink' \in Seq(Commands)
    BY <1>3, Messages, AfterFacts DEF TypeOK, TakeAck
  <2>3. phase' \in [Transfers -> {"waiting", "running", "accepted", "rejected", "mismatch", "timeout"}]
    BY <1>3 DEF TypeOK, TakeAck, Ends
  <2>4. QED
    BY <1>3, <2>1, <2>2, <2>3 DEF TypeOK, TakeAck, vehicle
<1>4. ASSUME NEW t \in Transfers, Deadline(t) PROVE TypeOK'
  BY <1>4 DEF TypeOK, Deadline, Ends, vehicle
<1>5. ASSUME ReaderTakes PROVE TypeOK'
  BY <1>5, TailFacts DEF TypeOK, ReaderTakes, station, vehicle
<1>6. ASSUME VehicleCount PROVE TypeOK'
  <2>1. uplink' \in Seq(Commands) /\ Head(uplink).n \in 1..MaxItems
    BY <1>6, Heads DEF VehicleCount, Receives
  <2>2. downlink' \in Seq(Replies)
    BY <1>6, Messages, AfterFacts DEF TypeOK, VehicleCount, Refuse, Verdicts
  <2>3. received' \in Seq([of : Transfers, seq : 0..(MaxItems - 1)])
    <3>1. received' = received \/ received' = <<>>
      BY <1>6 DEF VehicleCount, Refuse
    <3>2. CASE received' = received
      BY <3>2 DEF TypeOK
    <3>3. CASE received' = <<>>
      BY <3>3
    <3>4. QED
      BY <3>1, <3>2, <3>3
  <2>4. expected' \in 0..MaxItems /\ excuse' \in BOOLEAN
    <3>1. expected' = 0 \/ expected' = Head(uplink).n
      BY <1>6 DEF VehicleCount, Refuse
    <3>2. excuse' = TRUE \/ excuse' = excuse
      BY <1>6 DEF VehicleCount, Refuse
    <3>3. expected' \in 0..MaxItems
      BY <2>1, <3>1
    <3>4. QED
      BY <3>2, <3>3 DEF TypeOK
  <2>5. QED
    BY <1>6, <2>1, <2>2, <2>3, <2>4 DEF TypeOK, VehicleCount, station
<1>7. ASSUME VehicleStores PROVE TypeOK'
  <2>1. /\ uplink' \in Seq(Commands)
        /\ Head(uplink).of \in Transfers /\ Head(uplink).seq \in 0..(MaxItems - 1)
    BY <1>7, Heads DEF VehicleStores, Receives
  <2>2. CASE Refuse
    <3>1. downlink' \in Seq(Replies)
      BY <2>2, Messages, AfterFacts DEF TypeOK, Refuse, Verdicts
    <3>2. QED
      BY <1>7, <2>1, <2>2, <3>1 DEF TypeOK, VehicleStores, Refuse, station
  <2>3. CASE ~Refuse
    <3>1. received' = Append(received, Item(Head(uplink).of, Head(uplink).seq))
      BY <1>7, <2>3 DEF VehicleStores
    <3>2. /\ received' \in Seq([of : Transfers, seq : 0..(MaxItems - 1)])
          /\ Len(received') = Len(received) + 1
      BY <2>1, <3>1 DEF TypeOK, Item
    <3>3. Len(received') # expected => Len(received') \in 0..(MaxItems - 1)
      BY SMTT(20), <1>7, <3>2 DEF Bookkeeping, TypeOK, VehicleStores
    <3>4. downlink' \in Seq(Replies)
      BY <1>7, <2>3, <3>3, Messages, AfterFacts DEF TypeOK, VehicleStores, Verdicts
    <3>5. expected' \in 0..MaxItems /\ excuse' \in BOOLEAN
      <4>1. expected' \in {0, expected} /\ (excuse' = excuse \/ excuse' = (excuse \/ downlink' = downlink))
        BY <1>7, <2>3 DEF VehicleStores
      <4>2. expected' \in 0..MaxItems
        BY <4>1 DEF TypeOK
      <4>3. excuse' \in BOOLEAN
        BY <4>1 DEF TypeOK
      <4>4. QED
        BY <4>2, <4>3
    <3>6. QED
      BY <1>7, <2>1, <3>2, <3>4, <3>5 DEF TypeOK, VehicleStores, station
  <2>4. QED
    BY <2>2, <2>3
<1>8. ASSUME VehicleRefusesItem PROVE TypeOK'
  <2>1. uplink' \in Seq(Commands)
    BY <1>8, TailFacts DEF TypeOK, VehicleRefusesItem, Receives
  <2>2. downlink' \in Seq(Replies)
    BY <1>8, Messages, AfterFacts DEF TypeOK, VehicleRefusesItem, Verdicts
  <2>3. QED
    BY <1>8, <2>1, <2>2 DEF TypeOK, VehicleRefusesItem, station, vehicle
<1>9. ASSUME VehicleSetsCurrent PROVE TypeOK'
  BY <1>9, TailFacts DEF TypeOK, VehicleSetsCurrent, Receives, station, vehicle
<1>10. ASSUME VehicleRepeats PROVE TypeOK'
  <2>1. Len(received) \in 0..(MaxItems - 1)
    BY <1>10 DEF Bookkeeping, TypeOK, VehicleRepeats
  <2>2. downlink' \in Seq(Replies)
    BY <1>10, <2>1, Messages, AfterFacts DEF TypeOK, VehicleRepeats
  <2>3. QED
    BY <1>10, <2>2 DEF TypeOK, VehicleRepeats, station, vehicle
<1>11. ASSUME VehicleGivesUp PROVE TypeOK'
  <2>1. downlink' \in Seq(Replies)
    BY <1>11, Messages, AfterFacts DEF TypeOK, VehicleGivesUp, Refuse, Verdicts
  <2>2. QED
    BY <1>11, <2>1 DEF TypeOK, VehicleGivesUp, Refuse, station
<1>12. CASE UNCHANGED vars
  BY <1>12 DEF TypeOK, vars, station, vehicle
<1>13. QED
  BY <1>1, <1>2, <1>3, <1>4, <1>5, <1>6, <1>7, <1>8, <1>9, <1>10, <1>11, <1>12 DEF Next, Vehicle
-----------------------------------------------------------------------------
(* What is under way, from one step to the next.                           *)

LEMMA Distinct ==
    /\ \A v, w : Ack(v) = Ack(w) => v = w
    /\ \A j, k : Request(j) = Request(k) => j = k
    /\ \A j, v : Request(j) # Ack(v)
  BY DEF Request, Ack

LEMMA DownAfterSend ==
    ASSUME TypeOK, NEW m \in Replies, downlink' \in After(downlink, m)
    PROVE  \A r : Down(r)' => Down(r) \/ r = m
  BY AfterFacts DEF TypeOK, Down

LEMMA DownAfterTake ==
    ASSUME TypeOK, downlink # <<>>, downlink' = Tail(downlink)
    PROVE  /\ \A r : Down(r)' => Down(r)
           /\ Down(Head(downlink))
<1>1. downlink \in Seq(Replies)
  BY DEF TypeOK
<1>2. Down(Head(downlink))
  BY <1>1, TailFacts DEF Down
<1>3. \A r : Down(r)' => Down(r)
  BY <1>1, TailFacts DEF Down
<1>4. QED
  BY <1>2, <1>3

\* Reading a message leaves no MISSION_COUNT of this upload unread.
LEMMA UplinkTail ==
    ASSUME TypeOK, NEW t \in Transfers, OwnUplink(t), uplink # <<>>, uplink' = Tail(uplink),
           UNCHANGED <<count, sent>>
    PROVE  OwnUplink(t)' /\ ~Pending'
<1>1. /\ uplink \in Seq(Commands)
      /\ \A i \in 1..Len(uplink') : i + 1 \in 1..Len(uplink) /\ uplink'[i] = uplink[i + 1]
  BY TailFacts DEF TypeOK
<1>2. \A i \in 1..Len(uplink') : uplink'[i].type # "count"
  BY <1>1 DEF OwnUplink
<1>3. \A i \in 1..Len(uplink') :
          uplink'[i].type = "item" => uplink'[i].of = t /\ uplink'[i].seq \in sent[t]
  BY <1>1 DEF OwnUplink
<1>4. ~Pending'
  <2>1. uplink' \in Seq(Commands)
    BY <1>1, TailFacts
  <2>2. uplink' # <<>> => 1 \in 1..Len(uplink')
    BY <2>1
  <2>3. QED
    BY <2>2, <1>2 DEF Pending
<1>5. QED
  BY <1>2, <1>3, <1>4 DEF OwnUplink
-----------------------------------------------------------------------------
(* Bookkeeping.                                                            *)

LEMMA NextBookkeeping == TypeOK /\ Bookkeeping /\ [Next]_vars => Bookkeeping'
<1> SUFFICES ASSUME TypeOK, Bookkeeping, [Next]_vars PROVE Bookkeeping'
  OBVIOUS
<1>1. ASSUME NEW t \in Transfers, Start(t) PROVE Bookkeeping'
  BY <1>1 DEF TypeOK, Bookkeeping, Start, Running, Ends, vehicle
<1>2. ASSUME NEW t \in Transfers, Serve(t) PROVE Bookkeeping'
  <2>1. Head(downlink).seq \in 0..(MaxItems - 1)
    BY <1>2, Heads DEF Serve
  <2>2. count[t] \in Nat
    BY DEF TypeOK
  <2>3. \/ sent' = sent
        \/ Head(downlink).seq < count[t] /\ sent' = [sent EXCEPT ![t] = @ \cup {Head(downlink).seq}]
    BY <1>2 DEF Serve
  <2>4. \A u \in Transfers : sent'[u] \subseteq 0..(count[u] - 1)
    <3>1. CASE sent' = sent
      BY <3>1 DEF Bookkeeping
    <3>2. CASE Head(downlink).seq < count[t] /\ sent' = [sent EXCEPT ![t] = @ \cup {Head(downlink).seq}]
      <4>1. sent'[t] = sent[t] \cup {Head(downlink).seq}
        BY <3>2 DEF TypeOK
      <4>2. Head(downlink).seq \in 0..(count[t] - 1)
        BY <2>1, <2>2, <3>2
      <4>3. \A u \in Transfers : u # t => sent'[u] = sent[u]
        BY <3>2 DEF TypeOK
      <4>4. QED
        BY <4>1, <4>2, <4>3 DEF Bookkeeping
    <3>3. QED
      BY <2>3, <3>1, <3>2
  <2>5. \A u \in Transfers : u # t => sent'[u] = sent[u] /\ phase'[u] = phase[u]
    BY <1>2, <2>3 DEF TypeOK, Serve, Ends
  <2>6. phase'[t] \in {"running", "mismatch"} /\ phase[t] = "running"
    BY <1>2 DEF TypeOK, Serve, Ends
  <2>7. QED
    BY <1>2, <2>4, <2>5, <2>6 DEF Bookkeeping, Serve, vehicle
<1>3. ASSUME NEW t \in Transfers, TakeAck(t) PROVE Bookkeeping'
  <2>1. /\ \A u \in Transfers : u # t => phase'[u] = phase[u]
        /\ phase'[t] \in {"running", "mismatch", "rejected", "accepted"} /\ phase[t] = "running"
    BY <1>3 DEF TypeOK, TakeAck, Ends
  <2>2. QED
    BY <1>3, <2>1 DEF Bookkeeping, TakeAck, vehicle
<1>4. ASSUME NEW t \in Transfers, Deadline(t) PROVE Bookkeeping'
  BY <1>4 DEF TypeOK, Bookkeeping, Deadline, Ends, vehicle
<1>5. CASE ReaderTakes \/ VehicleRefusesItem \/ VehicleSetsCurrent \/ VehicleRepeats \/ UNCHANGED vars
  BY <1>5 DEF Bookkeeping, ReaderTakes, VehicleRefusesItem, VehicleSetsCurrent, VehicleRepeats,
              vars, station, vehicle
<1>6. ASSUME VehicleCount PROVE Bookkeeping'
  <2>1. expected' # 0 => expected' = Head(uplink).n /\ received' = <<>>
    BY <1>6 DEF VehicleCount, Refuse
  <2>2. Head(uplink).n \in 1..MaxItems
    BY <1>6, Heads DEF VehicleCount, Receives
  <2>3. expected' # 0 => Len(received') < expected'
    BY <2>1, <2>2
  <2>4. QED
    BY <1>6, <2>3 DEF Bookkeeping, VehicleCount, station
<1>7. ASSUME VehicleStores PROVE Bookkeeping'
  <2>1. expected' # 0 => expected' = expected
            /\ received' = Append(received, Item(Head(uplink).of, Head(uplink).seq))
            /\ Len(received') # expected
    BY <1>7 DEF VehicleStores, Refuse
  <2>2. expected' # 0 => Len(received') < expected'
    BY <1>7, <2>1 DEF TypeOK, Bookkeeping, VehicleStores
  <2>3. QED
    BY <1>7, <2>2 DEF Bookkeeping, VehicleStores, station
<1>8. ASSUME VehicleGivesUp PROVE Bookkeeping'
  BY <1>8 DEF Bookkeeping, VehicleGivesUp, Refuse, station
<1>9. QED
  BY <1>1, <1>2, <1>3, <1>4, <1>5, <1>6, <1>7, <1>8 DEF Next, Vehicle
-----------------------------------------------------------------------------
(* Truthful.                                                               *)

\* What the running upload relies on.
Relies(t) == OwnUplink(t) /\ (OwnSession(t) \/ OldSession(t))

LEMMA StartTruthful ==
    ASSUME IInv, NEW t \in Transfers, Start(t) PROVE Truthful'
<1> SUFFICES ASSUME startedOn'[t] # "busy" PROVE Relies(t)'
  <2>1. latest' = t /\ phase'[t] = "running"
    BY DEF IInv, TypeOK, Start, Ends
  <2>2. QED
    BY <2>1 DEF Truthful, Relies
<1>1. uplink = <<>> /\ downlink = <<>>
  BY DEF Start, IInv, TypeOK
<1>2. uplink' = <<>> \/ uplink' = <<[type |-> "count", n |-> count[t]]>>
  BY <1>1 DEF Start, After
<1>3. OwnUplink(t)'
  BY <1>2 DEF OwnUplink, Start
<1>4. \A r : ~Down(r)'
  BY <1>1 DEF Down, Start
<1>5. \A k : ~Known(t, k)'
  BY <1>4 DEF Known, Start, IInv, Bookkeeping
<1>6. OldSession(t)'
  BY <1>4, <1>5 DEF OldSession
<1>7. QED
  BY <1>3, <1>6 DEF Relies

\* Fewer messages under way to the station, and nothing else.
LEMMA QuieterTruthful ==
    ASSUME IInv, NEW t \in Transfers, Relies(t),
           \A r : Down(r)' => Down(r),
           UNCHANGED <<count, sent, uplink, expected, received>>
    PROVE  Relies(t)'
<1>1. OwnUplink(t)' /\ (Pending' => Pending)
  BY DEF Relies, OwnUplink, Pending
<1>2. \A k : Known(t, k)' => Known(t, k)
  BY DEF Known
<1>3. OwnItems(t)' <=> OwnItems(t)
  BY DEF OwnItems
<1>4. OwnSession(t) => OwnSession(t)'
  BY <1>1, <1>3 DEF OwnSession
<1>5. OldSession(t) => OldSession(t)'
  BY <1>1, <1>2, <1>3 DEF OldSession
<1>6. QED
  BY <1>1, <1>4, <1>5 DEF Relies

LEMMA ServeTruthful ==
    ASSUME IInv, NEW t \in Transfers, Serve(t) PROVE Truthful'
<1>1. t = latest /\ latest' = latest /\ phase[t] = "running" /\ phase'[t] \in {"running", "mismatch"}
  BY DEF IInv, TypeOK, Bookkeeping, Serve, Ends
<1> SUFFICES ASSUME startedOn[t] # "busy", phase'[t] = "running" PROVE Relies(t)'
  BY <1>1 DEF Truthful, Relies, Serve
<1> DEFINE seq == Head(downlink).seq
<1> DEFINE item == [type |-> "item", of |-> t, seq |-> seq]
<1>2. Relies(t)
  BY <1>1, TransferAssumption DEF IInv, Truthful, Relies
<1>3. sent'[t] = sent[t] \cup {seq} /\ uplink' \in After(uplink, item)
  BY <1>1 DEF IInv, TypeOK, Serve, Ends
<1>4. seq \in 0..(MaxItems - 1) /\ Head(downlink) = Request(seq)
  <2>1. Head(downlink) \in Replies /\ Head(downlink).type = "request" /\ seq \in 0..(MaxItems - 1)
    BY Heads DEF IInv, Serve
  <2>2. QED
    BY <2>1 DEF Replies, Request
<1>5. item \in Commands
  BY <1>4, Messages
<1>6. /\ \A r : Down(r)' => Down(r)
      /\ Down(Request(seq))
  BY <1>4, DownAfterTake DEF IInv, Serve
<1>7. /\ \A i \in 1..Len(uplink') : uplink'[i] = item \/ (i \in 1..Len(uplink) /\ uplink'[i] = uplink[i])
      /\ uplink' \in Seq(Commands) /\ uplink \in Seq(Commands)
  BY <1>3, <1>5, AfterFacts DEF IInv, TypeOK
<1>8. OwnUplink(t)'
  BY <1>2, <1>3, <1>7 DEF Relies, OwnUplink, Serve
<1>9. Pending' => Pending
  <2>1. uplink' # <<>> => 1 \in 1..Len(uplink')
    BY <1>7
  <2>2. 1 \in 1..Len(uplink) => uplink # <<>>
    BY <1>7
  <2>3. QED
    BY <1>7, <2>1, <2>2 DEF Pending
<1>10. \A k : Known(t, k)' => Known(t, k)
  BY <1>3, <1>6 DEF Known
<1>11. UNCHANGED <<count, received, expected>>
  BY DEF Serve, vehicle
<1>12. OwnItems(t)' <=> OwnItems(t)
  BY <1>11 DEF OwnItems
<1>13. OwnSession(t) => OwnSession(t)'
  BY <1>6, <1>9, <1>11, <1>12 DEF OwnSession
<1>14. OldSession(t) => OldSession(t)'
  BY <1>6, <1>9, <1>10, <1>11, <1>12 DEF OldSession
<1>15. QED
  BY <1>2, <1>8, <1>13, <1>14 DEF Relies

\* The heart of the matter: a complete set of answers and an acceptance.
LEMMA AcceptedIsDelivered ==
    ASSUME IInv, NEW t \in Transfers, Relies(t), Down(Ack("accepted")), sent[t] = 0..(count[t] - 1)
    PROVE  Delivered(t)
<1>1. count[t] \in Nat \ {0} /\ Len(received) \in Nat /\ received \in Seq([of : Transfers, seq : 0..(MaxItems - 1)])
  BY DEF IInv, TypeOK
<1>2. ~Pending /\ expected = 0
  BY DEF Relies, OwnSession, OldSession
<1>3. OwnItems(t) /\ Len(received) = count[t]
  <2>1. CASE OwnSession(t)
    BY <2>1 DEF OwnSession
  <2>2. CASE OldSession(t)
    <3>1. Known(t, 0) /\ Known(t, count[t] - 1)
      BY <1>1 DEF Known
    <3>2. count[t] - 1 < Len(received)
      BY <1>1, <2>2, <3>1 DEF OldSession
    <3>3. OwnItems(t) /\ Len(received) <= count[t]
      BY <2>2, <3>1 DEF OldSession
    <3>4. QED
      BY <1>1, <3>2, <3>3
  <2>3. QED
    BY <2>1, <2>2 DEF Relies
<1>4. received = Mission(t)
  BY <1>1, <1>3 DEF OwnItems, Mission
<1>5. \A i \in 1..Len(uplink) : uplink[i].type # "count"
  BY <1>2 DEF Relies, OwnUplink, Pending, IInv, TypeOK
<1>6. QED
  BY <1>2, <1>4, <1>5 DEF Delivered

LEMMA TakeAckTruthful ==
    ASSUME IInv, NEW t \in Transfers, TakeAck(t) PROVE Truthful'
<1>1. /\ t = latest /\ latest' = latest /\ phase[t] = "running"
      /\ phase'[t] \in {"running", "mismatch", "rejected", "accepted"}
  BY DEF IInv, TypeOK, Bookkeeping, TakeAck, Ends
<1> SUFFICES ASSUME startedOn[t] # "busy"
             PROVE  /\ phase'[t] = "running" => Relies(t)'
                    /\ phase'[t] = "accepted" => Delivered(t)'
  BY <1>1 DEF Truthful, Relies, TakeAck
<1>2. Relies(t)
  BY <1>1, TransferAssumption DEF IInv, Truthful, Relies
<1>3. /\ \A r : Down(r)' => Down(r)
      /\ Down(Head(downlink))
  BY DownAfterTake DEF IInv, TakeAck
<1>4. ASSUME phase'[t] = "running" PROVE Relies(t)'
  <2>1. UNCHANGED uplink
    BY <1>4 DEF IInv, TypeOK, TakeAck, Ends
  <2>2. QED
    BY <1>2, <1>3, <2>1, QuieterTruthful DEF TakeAck, vehicle
<1>5. ASSUME phase'[t] = "accepted" PROVE Delivered(t)'
  <2>1. Head(downlink).verdict = "accepted" /\ sent[t] = 0..(count[t] - 1)
    BY <1>1, <1>5 DEF IInv, TypeOK, TakeAck, Ends
  <2>2. Head(downlink) = Ack("accepted")
    <3>1. Head(downlink) \in Replies /\ Head(downlink).type = "ack"
      BY Heads DEF IInv, TakeAck
    <3>2. QED
      BY <2>1, <3>1 DEF Replies, Ack
  <2>3. Delivered(t)
    BY <1>2, <1>3, <2>1, <2>2, AcceptedIsDelivered
  <2>4. uplink' = uplink \/ uplink' \in After(uplink, [type |-> "set_current"])
    BY DEF TakeAck
  <2>5. \A i \in 1..Len(uplink') : uplink'[i].type # "count"
    <3>1. CASE uplink' = uplink
      BY <2>3, <3>1 DEF Delivered
    <3>2. CASE uplink' \in After(uplink, [type |-> "set_current"])
      <4> DEFINE current == [type |-> "set_current"]
      <4>1. uplink \in Seq(Commands) /\ current \in Commands /\ uplink' \in After(uplink, current)
        BY <3>2, Messages DEF IInv, TypeOK
      <4>2. current.type # "count"
        OBVIOUS
      <4> HIDE DEF current
      <4>3. \A i \in 1..Len(uplink') : uplink'[i] = current \/ (i \in 1..Len(uplink) /\ uplink'[i] = uplink[i])
        BY <4>1, AfterFacts
      <4>4. QED
        BY <2>3, <4>2, <4>3 DEF Delivered
    <3>3. QED
      BY <2>4, <3>1, <3>2
  <2>6. QED
    BY <2>3, <2>5 DEF Delivered, Mission, TakeAck, vehicle
<1>6. QED
  BY <1>4, <1>5

\* Steps of the vehicle and of the telemetry reader leave the station alone.
StationRests == UNCHANGED <<count, phase, sent, latest, startedOn>>

LEMMA AsideTruthful ==
    ASSUME IInv, StationRests,
           ASSUME NEW t \in Transfers, Relies(t), phase[t] = "running" PROVE Relies(t)',
           ASSUME NEW t \in Transfers, Delivered(t) PROVE Delivered(t)'
    PROVE  Truthful'
<1>1. latest' = latest /\ startedOn' = startedOn /\ phase' = phase
  BY DEF StationRests
<1> SUFFICES ASSUME NEW t \in Transfers, t = latest, startedOn[t] # "busy"
             PROVE  /\ phase[t] = "running" => Relies(t)'
                    /\ phase[t] = "accepted" => Delivered(t)'
  BY <1>1 DEF IInv, TypeOK, Truthful, Relies
<1>2. /\ phase[t] = "running" => Relies(t)
      /\ phase[t] = "accepted" => Delivered(t)
  BY TransferAssumption DEF IInv, Truthful, Relies
<1>3. QED
  BY <1>2

LEMMA ReaderTruthful ==
    ASSUME IInv, ReaderTakes PROVE Truthful'
<1>1. StationRests
  BY DEF StationRests, ReaderTakes, station
<1>2. ASSUME NEW t \in Transfers, Relies(t), phase[t] = "running" PROVE Relies(t)'
  BY <1>2 DEF ReaderTakes, Running
<1>3. ASSUME NEW t \in Transfers, Delivered(t) PROVE Delivered(t)'
  BY <1>3 DEF ReaderTakes, Delivered, Mission, station, vehicle
<1>4. QED
  BY <1>1, <1>2, <1>3, AsideTruthful

\* A vehicle that stops receiving acknowledges nothing later on.
LEMMA RefuseRelies ==
    ASSUME IInv, StationRests, Refuse, NEW t \in Transfers, Relies(t), expected # 0 \/ Pending,
           OwnUplink(t)', Pending' => Pending
    PROVE  Relies(t)'
<1>1. \A r : Down(r)' => Down(r) \/ r = Ack("refused")
  BY DownAfterSend, Messages DEF Refuse, IInv, Verdicts
<1>2. ~Down(Ack("accepted"))
  BY DEF Relies, OwnSession, OldSession
<1>3. ~Down(Ack("accepted"))'
  BY <1>1, <1>2, Distinct
<1>4. expected' = 0 /\ UNCHANGED <<received, count>>
  BY DEF Refuse, StationRests
<1>5. OldSession(t)'
  BY <1>3, <1>4 DEF OldSession
<1>6. QED
  BY <1>5 DEF Relies

LEMMA CountTruthful ==
    ASSUME IInv, VehicleCount PROVE Truthful'
<1>1. StationRests
  BY DEF StationRests, VehicleCount, station
<1>2. /\ uplink # <<>> /\ uplink' = Tail(uplink) /\ Head(uplink).type = "count"
      /\ Head(uplink) = uplink[1] /\ 1 \in 1..Len(uplink)
  BY TailFacts DEF VehicleCount, Receives, IInv, TypeOK
<1>3. Pending
  BY <1>2 DEF Pending
<1>4. ASSUME NEW t \in Transfers, Relies(t), phase[t] = "running" PROVE Relies(t)'
  <2>1. OwnUplink(t)' /\ ~Pending'
    BY <1>1, <1>2, <1>4, UplinkTail DEF IInv, StationRests, Relies
  <2>2. CASE Refuse
    BY <1>1, <1>3, <1>4, <2>1, <2>2, RefuseRelies
  <2>3. CASE ~Refuse
    <3>1. /\ expected' = Head(uplink).n /\ received' = <<>>
          /\ downlink' \in After(downlink, Request(0))
      BY <2>3 DEF VehicleCount
    <3>2. expected' = count[t] /\ count[t] \in Nat
      BY <1>2, <1>4, <3>1 DEF Relies, OwnUplink, IInv, TypeOK
    <3>3. ~Down(Ack("accepted"))
      BY <1>3, <1>4 DEF Relies, OwnSession, OldSession
    <3>4. Request(0) \in Replies
      BY Messages, TransferAssumption
    <3>5. ~Down(Ack("accepted"))'
      BY <3>1, <3>3, <3>4, DownAfterSend, Distinct DEF IInv
    <3>6. OwnSession(t)'
      BY <1>1, <2>1, <3>1, <3>2, <3>5 DEF OwnSession, OwnItems, StationRests
    <3>7. QED
      BY <2>1, <3>6 DEF Relies
  <2>4. QED
    BY <2>2, <2>3
<1>5. ASSUME NEW t \in Transfers, Delivered(t) PROVE Delivered(t)'
  BY <1>2, <1>5 DEF Delivered
<1>6. QED
  BY <1>1, <1>4, <1>5, AsideTruthful

LEMMA StoresTruthful ==
    ASSUME IInv, VehicleStores PROVE Truthful'
<1>1. StationRests
  BY DEF StationRests, VehicleStores, station
<1>2. /\ uplink # <<>> /\ uplink' = Tail(uplink) /\ Head(uplink).type = "item"
      /\ Head(uplink) = uplink[1] /\ 1 \in 1..Len(uplink)
      /\ expected # 0 /\ Head(uplink).seq = Len(received)
  BY TailFacts DEF VehicleStores, Receives, IInv, TypeOK
<1>3. received \in Seq([of : Transfers, seq : 0..(MaxItems - 1)])
  BY DEF IInv, TypeOK
<1>4. ASSUME NEW t \in Transfers, Relies(t), phase[t] = "running" PROVE Relies(t)'
  <2>1. OwnUplink(t)' /\ ~Pending'
    BY <1>1, <1>2, <1>4, UplinkTail DEF IInv, StationRests, Relies
  <2>2. CASE Refuse
    BY <1>1, <1>2, <1>4, <2>1, <2>2, RefuseRelies
  <2>3. CASE ~Refuse
    <3> DEFINE n == Len(received)
    <3>1. /\ uplink[1].of = t /\ n \in sent[t]
      BY <1>2, <1>4 DEF Relies, OwnUplink
    <3>2. n \in Nat /\ n < count[t] /\ count[t] \in Nat /\ n < expected
      BY <1>2, <1>3, <3>1 DEF IInv, Bookkeeping, TypeOK
    <3>3. received' = Append(received, Item(t, n))
      BY <1>2, <2>3, <3>1 DEF VehicleStores
    <3>4. /\ Len(received') = n + 1
          /\ \A i \in 1..n : received'[i] = received[i]
          /\ received'[n + 1] = Item(t, n)
      BY <1>3, <3>3 DEF Item
    <3>5. OwnItems(t) => OwnItems(t)'
      BY <3>2, <3>4 DEF OwnItems
    <3>6. ~Down(Ack("accepted"))
      BY <1>2, <1>4 DEF Relies, OwnSession, OldSession
    <3>7. CASE n + 1 = expected
      <4>1. expected' = 0 /\ downlink' \in After(downlink, Ack("accepted"))
        BY <2>3, <3>4, <3>7 DEF VehicleStores
      <4>2. \A r : Down(r)' => Down(r) \/ r = Ack("accepted")
        BY <4>1, DownAfterSend, Messages DEF IInv, Verdicts
      <4>3. \A k : Known(t, k)' => Known(t, k)
        BY <1>1, <4>2, Distinct DEF Known, StationRests
      <4>4. OwnSession(t) => OwnSession(t)'
        BY <1>1, <1>2, <2>1, <3>2, <3>4, <3>5, <3>7, <4>1 DEF OwnSession, StationRests
      <4>5. OldSession(t) => OldSession(t)'
        <5> SUFFICES ASSUME OldSession(t) PROVE OldSession(t)'
          OBVIOUS
        <5>1. \A k \in Nat : Known(t, k)' => k < Len(received')
          BY <1>2, <3>2, <3>4, <4>3 DEF OldSession
        <5>2. Known(t, 0)' => OwnItems(t)' /\ Len(received') <= count'[t]
          BY <1>1, <1>2, <3>2, <3>4, <3>5, <4>3 DEF OldSession, StationRests
        <5>3. QED
          BY <2>1, <4>1, <5>1, <5>2 DEF OldSession
      <4>6. QED
        BY <1>4, <2>1, <4>4, <4>5 DEF Relies
    <3>8. CASE n + 1 # expected
      <4>1. expected' = expected /\ downlink' \in After(downlink, Request(n + 1))
        BY <2>3, <3>4, <3>8 DEF VehicleStores
      <4>2. n + 1 \in 0..(MaxItems - 1)
        BY <3>2, <3>8, TransferAssumption DEF IInv, TypeOK
      <4>3. \A r : Down(r)' => Down(r) \/ r = Request(n + 1)
        BY <4>1, <4>2, DownAfterSend, Messages DEF IInv
      <4>4. \A k : Known(t, k)' => Known(t, k) \/ k = n + 1
        BY <1>1, <4>3, Distinct DEF Known, StationRests
      <4>5. ~Down(Ack("accepted"))'
        BY <3>6, <4>3, Distinct
      <4>6. OwnSession(t) => OwnSession(t)'
        BY <1>1, <2>1, <3>2, <3>4, <3>5, <4>1, <4>5 DEF OwnSession, StationRests
      <4>7. OldSession(t) => OldSession(t)'
        <5> SUFFICES ASSUME OldSession(t) PROVE OldSession(t)'
          OBVIOUS
        <5>1. \A k \in Nat : Known(t, k)' => k <= Len(received')
          BY <1>2, <3>2, <3>4, <4>4 DEF OldSession
        <5>2. Known(t, 0)' => OwnItems(t)' /\ Len(received') <= count'[t]
          BY <1>1, <1>2, <3>2, <3>4, <3>5, <4>4 DEF OldSession, StationRests
        <5>3. QED
          BY <4>5, <5>1, <5>2 DEF OldSession
      <4>8. QED
        BY <1>4, <2>1, <4>6, <4>7 DEF Relies
    <3>9. QED
      BY <3>7, <3>8
  <2>4. QED
    BY <2>2, <2>3
<1>5. ASSUME NEW t \in Transfers, Delivered(t) PROVE Delivered(t)'
  BY <1>2, <1>5 DEF Delivered
<1>6. QED
  BY <1>1, <1>4, <1>5, AsideTruthful

LEMMA RefusesItemTruthful ==
    ASSUME IInv, VehicleRefusesItem PROVE Truthful'
<1>1. StationRests /\ UNCHANGED <<expected, received>>
  BY DEF StationRests, VehicleRefusesItem, station, vehicle
<1>2. uplink # <<>> /\ uplink' = Tail(uplink)
  BY DEF VehicleRefusesItem, Receives
<1>3. PICK v \in {"refused", "invalid_sequence"} : downlink' \in After(downlink, Ack(v))
  BY DEF VehicleRefusesItem
<1>4. \A r : Down(r)' => Down(r) \/ r = Ack(v)
  BY <1>3, DownAfterSend, Messages DEF IInv, Verdicts
<1>5. Down(Ack("accepted"))' => Down(Ack("accepted"))
  BY <1>4, Distinct
<1>6. ASSUME NEW t \in Transfers, Relies(t), phase[t] = "running" PROVE Relies(t)'
  <2>1. OwnUplink(t)' /\ ~Pending'
    BY <1>1, <1>2, <1>6, UplinkTail DEF IInv, StationRests, Relies
  <2>2. \A k : Known(t, k)' => Known(t, k)
    BY <1>1, <1>4, Distinct DEF Known, StationRests
  <2>3. OwnItems(t)' <=> OwnItems(t)
    BY <1>1 DEF OwnItems
  <2>4. OwnSession(t) => OwnSession(t)'
    BY <1>1, <1>5, <2>1, <2>3 DEF OwnSession, StationRests
  <2>5. OldSession(t) => OldSession(t)'
    BY <1>1, <1>5, <2>1, <2>2, <2>3 DEF OldSession, StationRests
  <2>6. QED
    BY <1>6, <2>1, <2>4, <2>5 DEF Relies
<1>7. ASSUME NEW t \in Transfers, Delivered(t) PROVE Delivered(t)'
  <2>1. \A i \in 1..Len(uplink') : uplink'[i].type # "count"
    BY <1>2, <1>7, TailFacts DEF Delivered, IInv, TypeOK
  <2>2. QED
    BY <1>1, <1>7, <2>1 DEF Delivered, Mission, StationRests
<1>8. QED
  BY <1>1, <1>6, <1>7, AsideTruthful

LEMMA SetsCurrentTruthful ==
    ASSUME IInv, VehicleSetsCurrent PROVE Truthful'
<1>1. StationRests /\ UNCHANGED <<expected, received, downlink>>
  BY DEF StationRests, VehicleSetsCurrent, station, vehicle
<1>2. uplink # <<>> /\ uplink' = Tail(uplink)
  BY DEF VehicleSetsCurrent, Receives
<1>3. ASSUME NEW t \in Transfers, Relies(t), phase[t] = "running" PROVE Relies(t)'
  <2>1. OwnUplink(t)' /\ ~Pending'
    BY <1>1, <1>2, <1>3, UplinkTail DEF IInv, StationRests, Relies
  <2>2. (OwnItems(t)' <=> OwnItems(t)) /\ \A r : Down(r)' <=> Down(r)
    BY <1>1 DEF OwnItems, Down
  <2>3. \A k : Known(t, k)' <=> Known(t, k)
    BY <1>1, <2>2 DEF Known, StationRests
  <2>4. OwnSession(t) => OwnSession(t)'
    BY <1>1, <2>1, <2>2 DEF OwnSession, StationRests
  <2>5. OldSession(t) => OldSession(t)'
    BY <1>1, <2>1, <2>2, <2>3 DEF OldSession, StationRests
  <2>6. QED
    BY <1>3, <2>1, <2>4, <2>5 DEF Relies
<1>4. ASSUME NEW t \in Transfers, Delivered(t) PROVE Delivered(t)'
  <2>1. \A i \in 1..Len(uplink') : uplink'[i].type # "count"
    BY <1>2, <1>4, TailFacts DEF Delivered, IInv, TypeOK
  <2>2. QED
    BY <1>1, <1>4, <2>1 DEF Delivered, Mission, StationRests
<1>5. QED
  BY <1>1, <1>3, <1>4, AsideTruthful

LEMMA RepeatsTruthful ==
    ASSUME IInv, VehicleRepeats PROVE Truthful'
<1> DEFINE n == Len(received)
<1>1. StationRests /\ UNCHANGED <<expected, received, uplink>> /\ expected # 0
  BY DEF StationRests, VehicleRepeats, station, vehicle
<1>2. n \in Nat /\ n \in 0..(MaxItems - 1)
  BY <1>1, TransferAssumption DEF IInv, Bookkeeping, TypeOK
<1>3. \A r : Down(r)' => Down(r) \/ r = Request(n)
  BY <1>2, DownAfterSend, Messages DEF VehicleRepeats, IInv
<1>4. Down(Ack("accepted"))' => Down(Ack("accepted"))
  BY <1>3, Distinct
<1>5. ASSUME NEW t \in Transfers, Relies(t), phase[t] = "running" PROVE Relies(t)'
  <2>1. OwnUplink(t)' /\ (Pending' => Pending)
    BY <1>1, <1>5 DEF Relies, OwnUplink, Pending, StationRests
  <2>2. \A k : Known(t, k)' => Known(t, k) \/ k = n
    BY <1>1, <1>3, Distinct DEF Known, StationRests
  <2>3. (OwnItems(t)' <=> OwnItems(t)) /\ (n = 0 => OwnItems(t)) /\ count[t] \in Nat \ {0}
    BY <1>1, <1>2 DEF OwnItems, IInv, TypeOK
  <2>4. OwnSession(t) => OwnSession(t)'
    BY <1>1, <1>4, <2>1, <2>3 DEF OwnSession, StationRests
  <2>5. OldSession(t) => OldSession(t)'
    <3> SUFFICES ASSUME OldSession(t) PROVE OldSession(t)'
      OBVIOUS
    <3>1. ~Down(Ack("accepted"))'
      BY <1>1, <1>4 DEF OldSession
    <3>2. \A k \in Nat : Known(t, k)' => k <= n
      BY <1>1, <1>2, <2>2 DEF OldSession
    <3>3. Known(t, 0)' => OwnItems(t) /\ n <= count[t]
      BY <1>1, <1>2, <2>2, <2>3 DEF OldSession
    <3>4. QED
      BY <1>1, <2>3, <3>1, <3>2, <3>3 DEF OldSession, StationRests
  <2>6. QED
    BY <1>5, <2>1, <2>4, <2>5 DEF Relies
<1>6. ASSUME NEW t \in Transfers, Delivered(t) PROVE Delivered(t)'
  BY <1>1, <1>6 DEF Delivered
<1>7. QED
  BY <1>1, <1>5, <1>6, AsideTruthful

LEMMA GivesUpTruthful ==
    ASSUME IInv, VehicleGivesUp PROVE Truthful'
<1>1. StationRests /\ UNCHANGED uplink /\ expected # 0 /\ Refuse
  BY DEF StationRests, VehicleGivesUp, station
<1>2. ASSUME NEW t \in Transfers, Relies(t), phase[t] = "running" PROVE Relies(t)'
  <2>1. OwnUplink(t)' /\ (Pending' => Pending)
    BY <1>1, <1>2 DEF Relies, OwnUplink, Pending, StationRests
  <2>2. QED
    BY <1>1, <1>2, <2>1, RefuseRelies
<1>3. ASSUME NEW t \in Transfers, Delivered(t) PROVE Delivered(t)'
  BY <1>1, <1>3 DEF Delivered
<1>4. QED
  BY <1>1, <1>2, <1>3, AsideTruthful

LEMMA NextTruthful == IInv /\ [Next]_vars => Truthful'
<1> SUFFICES ASSUME IInv, [Next]_vars PROVE Truthful'
  OBVIOUS
<1>1. ASSUME NEW t \in Transfers, Deadline(t) PROVE Truthful'
  <2>1. t = latest /\ latest' = latest /\ phase'[t] = "timeout"
    BY <1>1 DEF IInv, TypeOK, Bookkeeping, Deadline, Ends
  <2>2. QED
    BY <2>1 DEF Truthful
<1>2. CASE UNCHANGED vars
  <2>1. StationRests /\ UNCHANGED <<uplink, downlink, expected, received>>
    BY <1>2 DEF StationRests, vars, station, vehicle
  <2>2. ASSUME NEW t \in Transfers, Relies(t), phase[t] = "running" PROVE Relies(t)'
    <3>1. \A r : Down(r)' => Down(r)
      BY <2>1 DEF Down
    <3>2. QED
      BY <2>1, <2>2, <3>1, QuieterTruthful DEF StationRests
  <2>3. ASSUME NEW t \in Transfers, Delivered(t) PROVE Delivered(t)'
    BY <2>1, <2>3 DEF Delivered, Mission, StationRests
  <2>4. QED
    BY <2>1, <2>2, <2>3, AsideTruthful
<1>3. QED
  BY <1>1, <1>2, StartTruthful, ServeTruthful, TakeAckTruthful, ReaderTruthful, CountTruthful,
     StoresTruthful, RefusesItemTruthful, SetsCurrentTruthful, RepeatsTruthful, GivesUpTruthful
     DEF Next, Vehicle
-----------------------------------------------------------------------------
(* Theorems.                                                               *)

LEMMA InitInvariant == Init => IInv
<1> SUFFICES ASSUME Init PROVE IInv
  OBVIOUS
<1>1. TypeOK
  BY InitTypes
<1>2. Bookkeeping
  BY TransferAssumption DEF Init, Bookkeeping
<1>3. Truthful
  BY DEF Init, Truthful
<1>4. QED
  BY <1>1, <1>2, <1>3 DEF IInv

\* The station's books and the two channels agree about the upload in progress.
THEOREM InvariantHolds == Spec => []IInv
<1>1. IInv /\ [Next]_vars => IInv'
  BY NextTypes, NextBookkeeping, NextTruthful DEF IInv
<1>2. QED
  BY <1>1, InitInvariant, PTL DEF Spec

\* Every variable keeps its type: no message out of range is ever sent.
THEOREM TypeCorrect == Spec => []TypeOK
<1>1. IInv => TypeOK
  BY DEF IInv
<1>2. QED
  BY <1>1, InvariantHolds, PTL

LEMMA MissionsDiffer ==
    ASSUME TypeOK, NEW t \in Transfers, NEW u \in Transfers, Mission(t) = Mission(u) PROVE t = u
<1>1. 1 \in 1..count[t] /\ 1 \in 1..count[u]
  BY DEF TypeOK
<1>2. Mission(t)[1] = Item(t, 0) /\ Mission(u)[1] = Item(u, 0)
  BY <1>1 DEF Mission
<1>3. QED
  BY <1>2 DEF Item

Backed == Claim # None => Claim \in Transfers /\ Holds = Claim

LEMMA ClaimIsBacked == IInv => Backed
<1> SUFFICES ASSUME IInv, Claim # None PROVE Claim \in Transfers /\ Holds = Claim
  BY DEF Backed
<1>1. Claim = latest /\ latest # None /\ latest \in Transfers
  BY DEF Claim, IInv, TypeOK
<1>2. Delivered(latest)
  BY <1>1 DEF Claim, IInv, Truthful
<1>3. \A u \in Transfers : received = Mission(u) => u = latest
  BY <1>1, <1>2, MissionsDiffer DEF Delivered, IInv
<1>4. QED
  BY <1>1, <1>2, <1>3 DEF Delivered, Holds

LEMMA StepImplements ==
    IInv /\ IInv' /\ [Next]_vars => [Store!Next]_<<Claim, Holds>>
<1> SUFFICES ASSUME IInv, IInv', [Next]_vars PROVE [Store!Next]_<<Claim, Holds>>
  OBVIOUS
<1>1. Holds' \in Transfers \cup {None}
  BY DEF Holds
<1>2. Claim' # None => Claim' \in Transfers /\ Holds' = Claim'
  <2>1. Backed'
    BY ClaimIsBacked, PTL
  <2>2. QED
    BY <2>1 DEF Backed
<1>3. CASE UNCHANGED <<count, expected, received>>
  <2>1. Holds' = Holds
    BY <1>3 DEF Holds, Mission
  <2>2. CASE Claim' = None
    BY <2>1, <2>2 DEF Store!Next, Store!Begin
  <2>3. CASE Claim' # None /\ Claim' = Claim
    BY <2>1, <2>3
  <2>4. CASE Claim' # None /\ Claim = None
    BY <1>2, <2>1, <2>4 DEF Store!Next, Store!Accept
  <2>5. CASE Claim' # None /\ Claim # None
    BY <1>2, <2>1, <2>5, ClaimIsBacked DEF Backed
  <2>6. QED
    BY <2>2, <2>3, <2>4, <2>5
<1>4. CASE UNCHANGED <<phase, latest, startedOn>>
  <2>1. Claim' = Claim
    BY <1>4 DEF Claim
  <2>2. CASE Claim = None
    BY <1>1, <2>1, <2>2 DEF Store!Next, Store!Drift
  <2>3. CASE Claim # None
    BY <1>2, <2>1, <2>3, ClaimIsBacked DEF Backed
  <2>4. QED
    BY <2>2, <2>3
<1>5. UNCHANGED <<count, expected, received>> \/ UNCHANGED <<phase, latest, startedOn>>
  BY DEF Next, Start, Serve, TakeAck, Deadline, ReaderTakes, Vehicle, VehicleCount, VehicleStores,
         VehicleRefusesItem, VehicleSetsCurrent, VehicleRepeats, VehicleGivesUp, vars, station, vehicle
<1>6. QED
  BY <1>3, <1>4, <1>5

\* Refinement: what an accepted upload announced is what the vehicle stores.
THEOREM TransferImplementsStore == Spec => ImplementsStore
<1>1. Init => Store!Init
  <2> SUFFICES ASSUME Init PROVE Store!Init
    OBVIOUS
  <2>1. ASSUME NEW t \in Transfers PROVE Mission(t) # <<>>
    <3>1. DOMAIN Mission(t) = 1..count[t] /\ count[t] \in 1..MaxItems
      BY DEF Mission, Init
    <3>2. 1 \in DOMAIN Mission(t)
      BY <3>1, TransferAssumption
    <3>3. QED
      BY <3>2
  <2>2. Holds = None
    BY <2>1 DEF Init, Holds
  <2>3. Claim = None
    BY DEF Init, Claim
  <2>4. QED
    BY <2>2, <2>3 DEF Store!Init
<1>2. QED
  BY <1>1, StepImplements, InvariantHolds, PTL DEF Spec, ImplementsStore, Store!Spec

-----------------------------------------------------------------------------
(* Only real refusals.                                                     *)

\* A reply that ends nothing.
Plain(t, m) == (m.type = "request" /\ m.seq < count[t]) \/ m = Ack("invalid_sequence")

ItemsOnly(t) ==
    \A i \in 1..Len(uplink) :
        uplink[i].type = "item" /\ uplink[i].of = t /\ uplink[i].seq \in sent[t]

\* The vehicle has not read the MISSION_COUNT, and may never.
Announced(t) ==
    /\ uplink \in {<<>>, <<[type |-> "count", n |-> count[t]]>>} /\ downlink = <<>>
    /\ expected = 0 /\ sent[t] = {}

Receiving(t) ==
    /\ ItemsOnly(t) /\ \A i \in 1..Len(downlink) : Plain(t, downlink[i])
    /\ expected = count[t] /\ 0..(Len(received) - 1) \subseteq sent[t]

\* The acceptance is on its way, ahead of whatever answers a duplicate that comes after it.
Finished(t) ==
    /\ ItemsOnly(t) /\ expected = 0 /\ sent[t] = 0..(count[t] - 1)
    /\ \E i \in 1..Len(downlink) :
          downlink[i] = Ack("accepted") /\ \A j \in 1..(i - 1) : Plain(t, downlink[j])

\* An upload that began on a silent link, as long as the vehicle has not refused and the
\* acceptance is not lost.
Undisturbed(t) ==
    phase[t] = "running" /\ startedOn[t] = "idle" /\ ~excuse
        => Announced(t) \/ Receiving(t) \/ Finished(t)

\* A reply is sent, or the first one taken.
LEMMA PlainAfterSend ==
    ASSUME TypeOK, NEW t \in Transfers, NEW m \in Replies, Plain(t, m), downlink' \in After(downlink, m),
           UNCHANGED count, \A i \in 1..Len(downlink) : Plain(t, downlink[i])
    PROVE  (\A i \in 1..Len(downlink) : Plain(t, downlink[i]))'
<1>1. downlink \in Seq(Replies)
  BY DEF TypeOK
<1>2. \A i \in 1..Len(downlink') : downlink'[i] = m \/ (i \in 1..Len(downlink) /\ downlink'[i] = downlink[i])
  BY <1>1, AfterFacts
<1>3. \A i \in 1..Len(downlink') : Plain(t, downlink'[i])
  BY <1>2
<1> QED BY <1>3 DEF Plain

LEMMA ItemsAfterTake ==
    ASSUME TypeOK, NEW t \in Transfers, ItemsOnly(t), uplink # <<>>, uplink' = Tail(uplink),
           UNCHANGED <<count, sent>>
    PROVE  /\ ItemsOnly(t)' /\ Head(uplink).type = "item" /\ Head(uplink).of = t
           /\ Head(uplink).seq \in sent[t]
<1>1. uplink \in Seq(Commands)
  BY DEF TypeOK
<1>2. /\ Head(uplink) = uplink[1] /\ 1 \in 1..Len(uplink)
      /\ \A i \in 1..Len(uplink') : i + 1 \in 1..Len(uplink) /\ uplink'[i] = uplink[i + 1]
  BY <1>1, TailFacts
<1> QED BY <1>2 DEF ItemsOnly

\* The acceptance moves up when a reply before it is taken.
LEMMA FinishedAfterTake ==
    ASSUME TypeOK, NEW t \in Transfers, Finished(t), downlink # <<>>, downlink' = Tail(downlink),
           Head(downlink) # Ack("accepted"),
           ItemsOnly(t)', UNCHANGED <<count, expected>>, sent'[t] = sent[t]
    PROVE  Finished(t)' /\ Plain(t, Head(downlink))
<1>1. downlink \in Seq(Replies)
  BY DEF TypeOK
<1>2. PICK i \in 1..Len(downlink) :
          downlink[i] = Ack("accepted") /\ \A j \in 1..(i - 1) : Plain(t, downlink[j])
  BY DEF Finished
<1>3. /\ Head(downlink) = downlink[1] /\ Len(downlink') = Len(downlink) - 1
      /\ \A j \in 1..Len(downlink') : downlink'[j] = downlink[j + 1]
  BY <1>1
<1>4. i # 1
  BY <1>2, <1>3
<1>5. i - 1 \in 1..Len(downlink') /\ downlink'[i - 1] = Ack("accepted")
  BY <1>1, <1>2, <1>3, <1>4
<1>6. \A j \in 1..((i - 1) - 1) : Plain(t, downlink'[j])
  <2> SUFFICES ASSUME NEW j \in 1..((i - 1) - 1) PROVE Plain(t, downlink'[j])
    OBVIOUS
  <2>1. j + 1 \in 1..(i - 1) /\ j \in 1..Len(downlink')
    BY <1>1, <1>2, <1>3
  <2> QED BY <1>2, <1>3, <2>1
<1>7. Plain(t, Head(downlink))
  <2>1. 1 \in 1..(i - 1)
    BY <1>1, <1>2, <1>4
  <2> QED BY <1>2, <1>3, <2>1
<1>8. \A j \in 1..((i - 1) - 1) : Plain(t, downlink[j])'
  BY <1>6 DEF Plain
<1> QED BY <1>5, <1>7, <1>8 DEF Finished

\* Replies after it do not matter.
LEMMA FinishedAfterSend ==
    ASSUME TypeOK, NEW t \in Transfers, Finished(t), NEW m \in Replies, downlink' \in After(downlink, m),
           ItemsOnly(t)', UNCHANGED <<count, expected, sent>>
    PROVE  Finished(t)'
<1>1. downlink \in Seq(Replies)
  BY DEF TypeOK
<1>2. PICK i \in 1..Len(downlink) :
          downlink[i] = Ack("accepted") /\ \A j \in 1..(i - 1) : Plain(t, downlink[j])
  BY DEF Finished
<1>3. \A j \in 1..Len(downlink) : j \in 1..Len(downlink') /\ downlink'[j] = downlink[j]
  BY <1>1, AfterFacts
<1>4. i \in 1..Len(downlink') /\ downlink'[i] = Ack("accepted")
  BY <1>2, <1>3
<1>5. \A j \in 1..(i - 1) : Plain(t, downlink[j])'
  <2> SUFFICES ASSUME NEW j \in 1..(i - 1) PROVE Plain(t, downlink[j])'
    OBVIOUS
  <2>1. j \in 1..Len(downlink)
    BY <1>1
  <2> QED BY <1>2, <1>3, <2>1 DEF Plain
<1> QED BY <1>4, <1>5 DEF Finished

\* The silent link stays undisturbed.  Books and types are those of the invariant above.
LEMMA StartUndisturbed ==
    ASSUME TypeOK, Bookkeeping, NEW t \in Transfers, Start(t), startedOn'[t] = "idle" PROVE Announced(t)'
<1>1. uplink = <<>> /\ downlink = <<>> /\ expected = 0
  BY DEF Start, TypeOK
<1>2. sent[t] = {}
  BY DEF Start, Bookkeeping
<1>3. uplink' = <<>> \/ uplink' = <<[type |-> "count", n |-> count[t]]>>
  BY <1>1 DEF Start, After
<1> QED BY <1>1, <1>2, <1>3 DEF Start, vehicle, Announced

LEMMA ServeUndisturbed ==
    ASSUME TypeOK, Bookkeeping, NEW t \in Transfers, Serve(t), Receiving(t) \/ Finished(t)
    PROVE  phase'[t] = "running" /\ (Receiving(t)' \/ Finished(t)')
<1> DEFINE seq == Head(downlink).seq
           m == [type |-> "item", of |-> t, seq |-> seq]
<1>1. /\ downlink # <<>> /\ downlink' = Tail(downlink) /\ Head(downlink).type = "request"
      /\ phase[t] = "running" /\ UNCHANGED <<count, expected, received>>
  BY DEF Serve, vehicle
<1>2. /\ downlink \in Seq(Replies) /\ uplink \in Seq(Commands) /\ count[t] \in Nat
      /\ seq \in 0..(MaxItems - 1)
  BY <1>1, Heads DEF TypeOK
<1>3. /\ Head(downlink) = downlink[1] /\ 1 \in 1..Len(downlink)
      /\ \A i \in 1..Len(downlink') : i + 1 \in 1..Len(downlink) /\ downlink'[i] = downlink[i + 1]
  BY <1>1, <1>2, TailFacts
<1>4. Head(downlink) # Ack("accepted") /\ Head(downlink) # Ack("invalid_sequence")
  BY <1>1 DEF Ack
<1>5. Plain(t, Head(downlink))
  <2>1. CASE Receiving(t)
    BY <1>3, <2>1 DEF Receiving
  <2>2. CASE Finished(t)
    <3>1. PICK i \in 1..Len(downlink) :
              downlink[i] = Ack("accepted") /\ \A j \in 1..(i - 1) : Plain(t, downlink[j])
      BY <2>2 DEF Finished
    <3>2. 1 \in 1..(i - 1)
      BY <1>2, <1>3, <1>4, <3>1
    <3> QED BY <1>3, <3>1, <3>2
  <2> QED BY <2>1, <2>2
<1>6. seq < count[t]
  BY <1>4, <1>5 DEF Plain
<1>7. /\ sent' = [sent EXCEPT ![t] = @ \cup {seq}] /\ uplink' \in After(uplink, m) /\ UNCHANGED phase
  BY <1>2, <1>6 DEF Serve
<1>8. sent'[t] = sent[t] \cup {seq}
  BY <1>7 DEF TypeOK
<1>9. ItemsOnly(t)'
  <2>1. m \in Commands
    BY <1>2, Messages
  <2>2. \A i \in 1..Len(uplink') : uplink'[i] = m \/ (i \in 1..Len(uplink) /\ uplink'[i] = uplink[i])
    BY <1>2, <1>7, <2>1, AfterFacts
  <2>3. m.type = "item" /\ m.of = t /\ m.seq = seq
    OBVIOUS
  <2>4. ItemsOnly(t)
    BY DEF Receiving, Finished
  <2> HIDE DEF m, seq
  <2> QED BY <1>8, <2>2, <2>3, <2>4 DEF ItemsOnly
<1>10. CASE Receiving(t)
  <2>1. \A i \in 1..Len(downlink') : Plain(t, downlink[i])'
    BY <1>1, <1>3, <1>10 DEF Receiving, Plain
  <2> QED BY <1>1, <1>7, <1>8, <1>9, <1>10, <2>1 DEF Receiving
<1>11. CASE Finished(t)
  <2>1. sent[t] = 0..(count[t] - 1)
    BY <1>11 DEF Finished
  <2>2. seq \in 0..(count[t] - 1)
    BY <1>2, <1>6
  <2>3. sent'[t] = sent[t]
    BY <1>8, <2>1, <2>2
  <2> QED BY <1>1, <1>4, <1>7, <1>9, <1>11, <2>3, FinishedAfterTake
<1> QED BY <1>7, <1>1, <1>10, <1>11

LEMMA TakeAckUndisturbed ==
    ASSUME TypeOK, Bookkeeping, NEW t \in Transfers, TakeAck(t), Receiving(t) \/ Finished(t)
    PROVE  /\ phase'[t] \notin {"rejected", "mismatch"}
           /\ phase'[t] = "running" => Receiving(t)' \/ Finished(t)'
<1>1. /\ downlink # <<>> /\ downlink' = Tail(downlink) /\ Head(downlink).type = "ack"
      /\ phase[t] = "running" /\ UNCHANGED <<count, sent, expected, received>>
  BY DEF TakeAck, vehicle
<1>2. downlink \in Seq(Replies) /\ Head(downlink).verdict \in Verdicts
  BY <1>1, Heads DEF TypeOK
<1>3. /\ Head(downlink) = downlink[1] /\ 1 \in 1..Len(downlink)
      /\ \A i \in 1..Len(downlink') : i + 1 \in 1..Len(downlink) /\ downlink'[i] = downlink[i + 1]
  BY <1>1, <1>2, TailFacts
<1>4. \A v : Ack(v).type = "ack" /\ Ack(v).verdict = v
  BY DEF Ack
<1>5. CASE Receiving(t)
  <2>1. Head(downlink).verdict = "invalid_sequence"
    BY <1>1, <1>3, <1>4, <1>5 DEF Receiving, Plain
  <2>2. UNCHANGED <<phase, uplink>>
    BY <2>1 DEF TakeAck
  <2>3. \A i \in 1..Len(downlink') : Plain(t, downlink[i])'
    BY <1>1, <1>3, <1>5 DEF Receiving, Plain
  <2>4. ItemsOnly(t)'
    BY <1>1, <1>5, <2>2 DEF Receiving, ItemsOnly
  <2> QED BY <1>1, <1>5, <2>2, <2>3, <2>4 DEF Receiving
<1>6. CASE Finished(t) /\ Head(downlink) = Ack("accepted")
  <2>1. Ends(t, "accepted")
    BY <1>4, <1>6 DEF TakeAck, Finished
  <2> QED BY <2>1 DEF Ends, TypeOK
<1>7. CASE Finished(t) /\ Head(downlink) # Ack("accepted")
  <2>1. PICK i \in 1..Len(downlink) :
            downlink[i] = Ack("accepted") /\ \A j \in 1..(i - 1) : Plain(t, downlink[j])
    BY <1>7 DEF Finished
  <2>2. 1 \in 1..(i - 1)
    BY <1>2, <1>3, <1>7, <2>1
  <2>3. Head(downlink).verdict = "invalid_sequence"
    BY <1>1, <1>3, <1>4, <2>1, <2>2 DEF Plain
  <2>4. UNCHANGED <<phase, uplink>>
    BY <2>3 DEF TakeAck
  <2>5. ItemsOnly(t)'
    BY <1>1, <1>7, <2>4 DEF Finished, ItemsOnly
  <2> QED BY <1>1, <1>7, <2>4, <2>5, FinishedAfterTake
<1> QED BY <1>5, <1>6, <1>7

\* What the vehicle does with the messages of a running upload.
LEMMA VehicleUndisturbed ==
    ASSUME TypeOK, Bookkeeping, NEW t \in Transfers, Vehicle, ~excuse',
           Announced(t) \/ Receiving(t) \/ Finished(t)
    PROVE  Announced(t)' \/ Receiving(t)' \/ Finished(t)'
<1>1. /\ uplink \in Seq(Commands) /\ downlink \in Seq(Replies) /\ count[t] \in 1..MaxItems
      /\ received \in Seq([of : Transfers, seq : 0..(MaxItems - 1)]) /\ Len(received) \in Nat
      /\ sent[t] \subseteq 0..(count[t] - 1) /\ expected \in Nat /\ MaxItems \in Nat
  BY TransferAssumption DEF TypeOK, Bookkeeping
<1>2. UNCHANGED <<count, sent>>
  BY DEF Vehicle, VehicleCount, VehicleStores, VehicleRefusesItem, VehicleSetsCurrent, VehicleRepeats,
         VehicleGivesUp, station
<1>3. ~Refuse
  BY DEF Refuse
<1>4. CASE VehicleCount
  <2>1. uplink # <<>> /\ Head(uplink).type = "count" /\ uplink' = Tail(uplink)
    BY <1>4 DEF VehicleCount, Receives
  <2>2. Announced(t)
    BY <2>1, ItemsAfterTake, <1>2 DEF Receiving, Finished
  <2>3. uplink = <<[type |-> "count", n |-> count[t]]>> /\ downlink = <<>>
    BY <2>1, <2>2 DEF Announced
  <2>4. expected' = count[t] /\ received' = <<>> /\ downlink' \in After(downlink, Request(0))
    BY <1>3, <1>4, <2>3 DEF VehicleCount
  <2>5. ItemsOnly(t)'
    BY <2>1, <2>3 DEF ItemsOnly
  <2>6. Request(0) \in Replies /\ Plain(t, Request(0))
    BY <1>1, Messages DEF Request, Plain
  <2>7. (\A i \in 1..Len(downlink) : Plain(t, downlink[i]))'
    BY <1>2, <2>3, <2>4, <2>6, PlainAfterSend
  <2> QED BY <1>2, <2>4, <2>5, <2>7 DEF Receiving
<1>5. CASE VehicleStores
  <2>1. /\ uplink # <<>> /\ Head(uplink).type = "item" /\ uplink' = Tail(uplink) /\ expected # 0
        /\ Head(uplink).seq = Len(received)
    BY <1>5 DEF VehicleStores, Receives
  <2>2. Receiving(t)
    BY <2>1 DEF Announced, Finished
  <2>3. ItemsOnly(t)' /\ Len(received) \in sent[t]
    BY <1>2, <2>1, <2>2, ItemsAfterTake DEF Receiving
  <2>4. Len(received') = Len(received) + 1
    BY <1>1, <1>3, <1>5 DEF VehicleStores
  <2>5. 0..(Len(received') - 1) \subseteq sent[t]
    BY SMTT(20), <1>1, <2>2, <2>3, <2>4 DEF Receiving
  <2>6. CASE Len(received') = expected
    <3>1. expected' = 0 /\ downlink' \in After(downlink, Ack("accepted")) /\ downlink' # downlink
      BY <1>3, <1>5, <2>6 DEF VehicleStores
    <3>2. downlink' = Append(downlink, Ack("accepted"))
      BY <3>1 DEF After
    <3>3. sent[t] = 0..(count[t] - 1)
      BY <1>1, <2>2, <2>5, <2>6 DEF Receiving
    <3>4. /\ Len(downlink) + 1 \in 1..Len(downlink') /\ downlink'[Len(downlink) + 1] = Ack("accepted")
          /\ \A j \in 1..Len(downlink) : downlink'[j] = downlink[j]
      BY <1>1, <3>2
    <3>5. \A j \in 1..((Len(downlink) + 1) - 1) : Plain(t, downlink[j])'
      <4>1. \A j \in 1..Len(downlink) : Plain(t, downlink[j])'
        BY <1>2, <2>2, <3>4 DEF Receiving, Plain
      <4> QED BY <1>1, <4>1
    <3>6. PICK i \in 1..Len(downlink') : i = Len(downlink) + 1
      BY <3>4
    <3> QED BY <1>2, <2>3, <3>1, <3>3, <3>4, <3>5, <3>6 DEF Finished
  <2>7. CASE Len(received') # expected
    <3>1. UNCHANGED expected /\ downlink' \in After(downlink, Request(Len(received')))
      BY <1>3, <1>5, <2>7 DEF VehicleStores
    <3>2. Len(received') < count[t] /\ Len(received') \in 0..(MaxItems - 1)
      BY <1>1, <2>1, <2>2, <2>4, <2>7 DEF Bookkeeping, Receiving
    <3>3. Request(Len(received')) \in Replies /\ Plain(t, Request(Len(received')))
      BY <3>2, Messages DEF Request, Plain
    <3>4. (\A i \in 1..Len(downlink) : Plain(t, downlink[i]))'
      BY <1>2, <2>2, <3>1, <3>3, PlainAfterSend DEF Receiving
    <3> QED BY <1>2, <2>2, <2>3, <2>5, <3>1, <3>4 DEF Receiving
  <2> QED BY <2>6, <2>7
<1>6. CASE VehicleRefusesItem
  <2> DEFINE m == Ack(IF expected = 0 THEN "refused" ELSE "invalid_sequence")
  <2>1. /\ uplink # <<>> /\ Head(uplink).type = "item" /\ uplink' = Tail(uplink)
        /\ downlink' \in After(downlink, m) /\ UNCHANGED <<expected, received>>
    BY <1>6 DEF VehicleRefusesItem, Receives, vehicle
  <2>2. Receiving(t) \/ Finished(t)
    <3>1. CASE Announced(t)
      BY <2>1, <3>1 DEF Announced
    <3> QED BY <3>1
  <2>3. ItemsOnly(t)'
    BY <1>2, <2>1, <2>2, ItemsAfterTake DEF Receiving, Finished
  <2>4. m \in Replies
    BY Messages DEF Verdicts
  <2>5. CASE Finished(t)
    BY <1>2, <2>1, <2>3, <2>4, <2>5, FinishedAfterSend
  <2>6. CASE Receiving(t)
    <3>1. expected # 0
      BY <1>1, <2>6 DEF Receiving
    <3>2. m = Ack("invalid_sequence")
      BY <3>1
    <3>3. Plain(t, m)
      BY <3>2 DEF Plain
    <3> HIDE DEF m
    <3>4. (\A i \in 1..Len(downlink) : Plain(t, downlink[i]))'
      BY <1>2, <2>1, <2>4, <2>6, <3>3, PlainAfterSend DEF Receiving
    <3> QED BY <1>2, <2>1, <2>3, <2>6, <3>4 DEF Receiving
  <2> QED BY <2>2, <2>5, <2>6
<1>7. CASE VehicleSetsCurrent
  <2>1. uplink # <<>> /\ Head(uplink).type = "set_current" /\ uplink' = Tail(uplink)
    BY <1>7 DEF VehicleSetsCurrent, Receives
  <2>2. CASE Announced(t)
    BY <2>1, <2>2 DEF Announced
  <2>3. CASE Receiving(t) \/ Finished(t)
    BY <1>2, <2>1, <2>3, ItemsAfterTake DEF Receiving, Finished
  <2> QED BY <2>2, <2>3
<1>8. CASE VehicleRepeats
  <2>1. /\ expected # 0 /\ downlink' \in After(downlink, Request(Len(received)))
        /\ UNCHANGED <<uplink, expected, received>>
    BY <1>8 DEF VehicleRepeats, vehicle
  <2>2. Receiving(t)
    BY <2>1 DEF Announced, Finished
  <2>3. Len(received) < count[t] /\ Len(received) \in 0..(MaxItems - 1)
    BY <1>1, <2>1, <2>2 DEF Bookkeeping, Receiving
  <2>4. Request(Len(received)) \in Replies /\ Plain(t, Request(Len(received)))
    BY <2>3, Messages DEF Request, Plain
  <2>5. (\A i \in 1..Len(downlink) : Plain(t, downlink[i]))'
    BY <1>2, <2>1, <2>2, <2>4, PlainAfterSend DEF Receiving
  <2>6. ItemsOnly(t)'
    BY <1>2, <2>1, <2>2 DEF Receiving, ItemsOnly
  <2> QED BY <1>2, <2>1, <2>2, <2>5, <2>6 DEF Receiving
<1>9. CASE VehicleGivesUp
  BY <1>3, <1>9 DEF VehicleGivesUp
<1> QED BY <1>4, <1>5, <1>6, <1>7, <1>8, <1>9 DEF Vehicle

LEMMA NextUndisturbed ==
    ASSUME TypeOK, Bookkeeping, [Next]_vars, NEW t \in Transfers, Undisturbed(t) PROVE Undisturbed(t)'
<1> SUFFICES ASSUME phase'[t] = "running", startedOn'[t] = "idle", ~excuse'
             PROVE  Announced(t)' \/ Receiving(t)' \/ Finished(t)'
  BY DEF Undisturbed
<1> DEFINE Fine == Announced(t) \/ Receiving(t) \/ Finished(t)
<1>1. ASSUME NEW u \in Transfers, Start(u) PROVE Announced(t)'
  <2>1. u = t
    BY <1>1 DEF TypeOK, Start, Running, Ends
  <2> QED BY <1>1, <2>1, StartUndisturbed
<1>2. ASSUME phase[t] = "running", startedOn[t] = "idle", ~excuse PROVE Fine
  BY <1>2 DEF Undisturbed
<1>3. ASSUME NEW u \in Transfers, Serve(u) \/ TakeAck(u) PROVE Fine'
  <2>1. phase[u] = "running" /\ UNCHANGED <<startedOn, excuse>> /\ downlink # <<>>
    BY <1>3 DEF Serve, TakeAck
  <2>2. u # t => phase'[t] = phase[t]
    BY <1>3 DEF TypeOK, Serve, TakeAck, Ends
  <2>3. u = t
    BY <2>1, <2>2 DEF Bookkeeping
  <2>4. Receiving(t) \/ Finished(t)
    BY <1>2, <2>1, <2>3 DEF Announced
  <2> QED BY <1>3, <2>3, <2>4, ServeUndisturbed, TakeAckUndisturbed
<1>4. ASSUME NEW u \in Transfers, Deadline(u) PROVE FALSE
  <2>1. u = t
    <3>1. u # t => phase[t] = "running" /\ phase[u] = "running"
      BY <1>4 DEF TypeOK, Deadline, Ends
    <3> QED BY <1>4, <3>1 DEF Bookkeeping, Deadline
  <2> QED BY <1>4, <2>1 DEF TypeOK, Deadline, Ends
<1>5. ~ReaderTakes
  BY DEF ReaderTakes, Running, station
<1>6. CASE Vehicle
  <2>1. UNCHANGED <<phase, startedOn>>
    BY <1>6 DEF Vehicle, VehicleCount, VehicleStores, VehicleRefusesItem, VehicleSetsCurrent,
                VehicleRepeats, VehicleGivesUp, station
  <2>2. ~excuse
    <3>1. ~Refuse
      BY DEF Refuse
    <3>2. CASE VehicleStores
      BY <3>1, <3>2 DEF VehicleStores
    <3>3. CASE ~VehicleStores
      BY <1>6, <3>1, <3>3 DEF Vehicle, VehicleCount, VehicleRefusesItem, VehicleSetsCurrent,
                              VehicleRepeats, VehicleGivesUp
    <3> QED BY <3>2, <3>3
  <2> QED BY <1>2, <1>6, <2>1, <2>2, VehicleUndisturbed
<1>7. CASE UNCHANGED vars
  BY <1>2, <1>7 DEF vars, station, vehicle, Announced, Receiving, Finished, ItemsOnly, Plain
<1> QED BY <1>1, <1>3, <1>4, <1>5, <1>6, <1>7 DEF Next

\* "Only a final verdict is fatal": an upload that began on a silent link, to a vehicle that
\* was receiving nothing, is rejected or found incomplete only after the vehicle refused or
\* gave up, or the acceptance was lost, however often requests and items are repeated
\* (mission_planner.py _send_mission_items).
THEOREM RefusalsAreReal == Spec => OnlyRealRefusals
<1> DEFINE All == IInv /\ \A t \in Transfers : Undisturbed(t)
<1>1. Init => All
  BY InitInvariant DEF Init, Undisturbed
<1>2. All /\ [Next]_vars => All'
  <2> SUFFICES ASSUME All, [Next]_vars PROVE All'
    OBVIOUS
  <2>1. IInv'
    BY NextTypes, NextBookkeeping, NextTruthful DEF IInv
  <2>2. ASSUME NEW t \in Transfers PROVE Undisturbed(t)'
    BY <2>2, NextUndisturbed DEF IInv
  <2> QED BY <2>1, <2>2
<1>3. All /\ [Next]_vars => [\A t \in Transfers :
          phase[t] = "running" /\ phase'[t] \in {"rejected", "mismatch"} /\ startedOn[t] = "idle"
              => excuse]_vars
  <2> SUFFICES ASSUME All, Next, NEW t \in Transfers, phase[t] = "running",
                      phase'[t] \in {"rejected", "mismatch"}, startedOn[t] = "idle", ~excuse
               PROVE  FALSE
    OBVIOUS
  <2>1. TypeOK /\ Bookkeeping /\ (Announced(t) \/ Receiving(t) \/ Finished(t))
    BY DEF IInv, Undisturbed
  <2>2. PICK u \in Transfers : Start(u) \/ Serve(u) \/ TakeAck(u) \/ Deadline(u)
    BY DEF Next, ReaderTakes, Vehicle, VehicleCount, VehicleStores, VehicleRefusesItem,
           VehicleSetsCurrent, VehicleRepeats, VehicleGivesUp, station
  <2>3. u # t => phase'[t] = phase[t]
    BY <2>1, <2>2 DEF TypeOK, Start, Serve, TakeAck, Deadline, Ends
  <2>4. u = t
    BY <2>3
  <2>5. ~Start(t) /\ ~Deadline(t)
    BY <2>1 DEF TypeOK, Start, Deadline, Ends
  <2>6. Receiving(t) \/ Finished(t)
    BY <2>1, <2>2, <2>4, <2>5 DEF Announced, Serve, TakeAck
  <2>7. phase'[t] \notin {"rejected", "mismatch"}
    <3>1. CASE Serve(t)
      <4>1. phase'[t] = "running"
        BY <2>1, <2>6, <3>1, ServeUndisturbed
      <4> QED BY <4>1
    <3>2. CASE TakeAck(t)
      BY <2>1, <2>6, <3>2, TakeAckUndisturbed
    <3> QED BY <2>2, <2>4, <2>5, <3>1, <3>2
  <2> QED BY <2>7
<1> HIDE DEF All
<1> QED BY <1>1, <1>2, <1>3, PTL DEF Spec, OnlyRealRefusals

-----------------------------------------------------------------------------
(* SimulatedFlight *)

Phases == Airborne \cup Grounded \cup {"landing"}

\* What a flight is: its route is flown up to idx, and it is above the height of the
\* route only by what it has borrowed.
Flights == [phase : Phases, armed : BOOLEAN, pos : Cells, alt : 0..2, wps : Seq(Cells),
            idx : Nat, back : Seq(Cells), home : Cells, manual : BOOLEAN, offset : 0..1,
            avoiding : BOOLEAN, breaching : BOOLEAN]
Sound(s) == s \in Flights /\ s.idx <= Len(s.wps) /\ s.alt <= 1 + s.offset

Queued == Orders \cup {"rtl"}

Typed ==
    /\ sim \in [Drones -> Flights] /\ \A d \in Drones : Sound(sim[d])
    /\ loop \in [Drones -> {"off", "tick", "push", "breach", "recovery", "grace"}]
    /\ profile \in [Drones -> {"off", "push", "breach", "recovery", "orphan"}]
    /\ queue \in [Drones -> Seq(Queued)]
    /\ links \subseteq Drones \cup {NoDrone}
    /\ inbox \in [Drones -> 0..MaxInbox]
    /\ ignored \in [Drones -> BOOLEAN]
    /\ events \in 0..MaxEvents

\* Between two pushes the edge detection knows where the flight is, once it has moved,
\* unless a push was cut short.
EdgeSeen(d) == loop[d] \in {"tick", "breach", "recovery"}
                  => \/ sim[d].breaching = (sim[d].pos \notin Fence)
                     \/ sim[d].phase = "idle" \/ ignored[d]

\* A flight on its route that is known to be outside will be turned home by an announcement
\* that is due, or is ignored.
TurnsHome(d) == Enforce /\ sim[d].phase = "flying" /\ sim[d].breaching
                   => ignored[d] \/ profile[d] = "breach" \/ loop[d] = "breach"

FlightIInv == Typed /\ \A d \in Drones : EdgeSeen(d) /\ TurnsHome(d)

-----------------------------------------------------------------------------
(* Commands *)

LEMMA TowardIs == ASSUME NEW from \in Cells, NEW to \in Cells PROVE Toward(from, to) \in Cells
  BY FlightAssumption DEF Toward, Cells

\* A command leaves a flight sound, where it is, and its breach as it was noticed.
LEMMA HandleIs ==
    ASSUME NEW c, NEW s, Sound(s)
    PROVE  /\ Sound(Handle(c, s)) /\ Handle(c, s).pos = s.pos
           /\ Handle(c, s).breaching = s.breaching /\ Handle(c, s).idx \in Nat
<1> DEFINE Good(t) == Sound(t) /\ t.pos = s.pos /\ t.breaching = s.breaching /\ t.idx \in Nat
<1>1. /\ s \in Flights /\ s.idx \in Nat /\ s.wps \in Seq(Cells) /\ s.back \in Seq(Cells)
      /\ s.idx <= Len(s.wps) /\ s.alt \in 0..2 /\ s.offset \in 0..1 /\ s.alt <= 1 + s.offset
      /\ s.phase \in Phases
  BY DEF Sound, Flights
<1>2. Good(s)
  BY <1>1 DEF Sound
<1>3. ASSUME NEW p \in Phases PROVE Good([s EXCEPT !.phase = p])
  BY <1>1 DEF Sound, Flights
<1>4. ASSUME NEW p \in Phases, NEW a \in BOOLEAN PROVE Good([s EXCEPT !.armed = a, !.phase = p])
  BY <1>1 DEF Sound, Flights
<1>5. ASSUME NEW p \in Phases PROVE Good([s EXCEPT !.manual = TRUE, !.phase = p])
  BY <1>1 DEF Sound, Flights
<1>6. Good([s EXCEPT !.armed = FALSE, !.alt = 0, !.phase = "landed"])
  <2>1. ASSUME NEW p \in Phases, NEW h \in 0..2, h <= 1 + s.offset
        PROVE  Good([s EXCEPT !.armed = FALSE, !.alt = h, !.phase = p])
    BY <1>1, <2>1 DEF Sound, Flights
  <2>2. "landed" \in Phases /\ 0 \in 0..2 /\ 0 <= 1 + s.offset
    BY <1>1 DEF Phases, Grounded
  <2> HIDE DEF Good
  <2> QED BY <2>1, <2>2
<1>7. ASSUME NEW b \in Seq(Cells) PROVE Good([s EXCEPT !.phase = "rtl", !.back = b])
  BY <1>1 DEF Sound, Flights, Phases, Airborne
<1>8. ASSUME NEW w \in Seq(Cells), NEW i \in Nat, i <= Len(w), NEW p \in Phases
      PROVE  Good([s EXCEPT !.wps = w, !.idx = i, !.phase = p])
  BY <1>1, <1>8 DEF Sound, Flights
<1>9. Good(EnterRTL(s, FALSE)) /\ Good(EnterRTL(s, TRUE))
  <2>1. <<>> \in Seq(Cells)
    OBVIOUS
  <2>2. [i \in 1..s.idx |-> s.wps[s.idx + 1 - i]] \in Seq(Cells)
    <3>1. \A i \in 1..s.idx : s.wps[s.idx + 1 - i] \in Cells
      <4> TAKE i \in 1..s.idx
      <4>1. s.idx + 1 - i \in 1..Len(s.wps)
        BY <1>1
      <4> QED BY <4>1, <1>1
    <3> QED BY <3>1, <1>1
  <2>3. /\ EnterRTL(s, FALSE) = [s EXCEPT !.phase = "rtl", !.back = <<>>]
        /\ EnterRTL(s, TRUE) = [s EXCEPT !.phase = "rtl",
                                         !.back = [i \in 1..s.idx |-> s.wps[s.idx + 1 - i]]]
    BY DEF EnterRTL
  <2> HIDE DEF Good
  <2> QED BY <2>1, <2>2, <2>3, <1>7
<1>10. Good(Goto(s))
  <2> DEFINE w == IF OnRoute(s) THEN [s.wps EXCEPT ![s.idx + 1] = Aside] ELSE <<Aside>>
             i == IF OnRoute(s) THEN s.idx ELSE 0
             p == IF Held(s.phase) THEN "flying" ELSE s.phase
  <2>1. w \in Seq(Cells) /\ i <= Len(w)
    <3>1. Aside \in Cells
      BY FlightAssumption DEF Cells
    <3>2. CASE OnRoute(s)
      <4>1. s.idx + 1 \in 1..Len(s.wps)
        BY <1>1, <3>2 DEF OnRoute
      <4>2. /\ [s.wps EXCEPT ![s.idx + 1] = Aside] \in Seq(Cells)
            /\ Len([s.wps EXCEPT ![s.idx + 1] = Aside]) = Len(s.wps)
        BY <1>1, <3>1, <4>1, ExceptSeq
      <4> QED BY <4>1, <4>2, <3>2, <1>1
    <3>3. CASE ~OnRoute(s)
      BY <3>1, <3>3
    <3> QED BY <3>2, <3>3
  <2>2. i \in Nat /\ p \in Phases
    BY <1>1 DEF Phases, Airborne
  <2>3. Goto(s) = [s EXCEPT !.wps = w, !.idx = i, !.phase = p]
    BY DEF Goto
  <2> HIDE DEF w, i, p, Good
  <2> QED BY <2>1, <2>2, <2>3, <1>8
<1>11. /\ {"idle", "armed", "landed", "takeoff", "flying", "guided", "paused", "landing"} \subseteq Phases
  BY DEF Phases, Airborne, Grounded
<1> HIDE DEF Good
<1>12. \/ Handle(c, s) = s
       \/ \E p \in Phases : Handle(c, s) = [s EXCEPT !.phase = p]
       \/ \E p \in Phases, a \in BOOLEAN : Handle(c, s) = [s EXCEPT !.armed = a, !.phase = p]
       \/ \E p \in Phases : Handle(c, s) = [s EXCEPT !.manual = TRUE, !.phase = p]
       \/ Handle(c, s) = [s EXCEPT !.armed = FALSE, !.alt = 0, !.phase = "landed"]
       \/ Handle(c, s) \in {EnterRTL(s, FALSE), EnterRTL(s, TRUE), Goto(s)}
  BY <1>1, <1>11, Zenon DEF Handle, Takeoff
<1>13. Good(Handle(c, s))
  BY <1>2, <1>3, <1>4, <1>5, <1>6, <1>9, <1>10, <1>12
<1> QED BY <1>13 DEF Good

LEMMA HandleExternalIs ==
    ASSUME NEW c, NEW s, Sound(s)
    PROVE  /\ Sound(HandleExternal(c, s)) /\ HandleExternal(c, s).pos = s.pos
           /\ HandleExternal(c, s).breaching = s.breaching
<1>1. CASE c = "set_home"
  BY <1>1 DEF HandleExternal, Sound, Flights
<1>2. CASE c # "set_home"
  BY <1>2, HandleIs DEF HandleExternal
<1> QED BY <1>1, <1>2

LEMMA Least ==
    ASSUME NEW T, T \subseteq Nat, T # {}
    PROVE  \E n \in T : \A m \in T : ~(m < n)
<1> DEFINE R == OpToRel(<, Nat)
<1>1. IsWellFoundedOn(R, Nat)
  BY NatLessThanWellFounded
<1>2. \A x, y \in Nat : y < x => <<y, x>> \in R
  BY DEF OpToRel
<1> HIDE DEF R
<1>3. PICK n \in T : \A m \in T : ~ (<<m, n>> \in R)
  BY <1>1, WFMin
<1> QED BY <1>2, <1>3

\* The commands of a queue, one after another.  The function that applies them exists: were
\* there a shortest queue without one, the function of the queue before would extend to it.
LEMMA HandleAllIs ==
    ASSUME NEW C, NEW q \in Seq(C), NEW s, Sound(s)
    PROVE  Sound(HandleAll(q, s)) /\ HandleAll(q, s).breaching = s.breaching
<1> DEFINE Applies(n, f) == f = [i \in 0..n |-> IF i = 0 THEN s ELSE Handle(q[i], f[i - 1])]
           Bad == {n \in Nat : ~ \E f : Applies(n, f)}
           N == Len(q)
           after == CHOOSE f : Applies(N, f)
<1>1. N \in Nat
  OBVIOUS
<1>2. Applies(0, [i \in 0..0 |-> s])
  OBVIOUS
<1>3. ASSUME NEW n \in Nat, NEW f, Applies(n, f)
      PROVE  Applies(n + 1, [i \in 0..(n + 1) |-> IF i <= n THEN f[i] ELSE Handle(q[n + 1], f[n])])
  <2> DEFINE g == [i \in 0..(n + 1) |-> IF i <= n THEN f[i] ELSE Handle(q[n + 1], f[n])]
  <2>1. \A i \in 0..n : f[i] = IF i = 0 THEN s ELSE Handle(q[i], f[i - 1])
    BY <1>3
  <2>2. ASSUME NEW i \in 0..(n + 1)
        PROVE  g[i] = IF i = 0 THEN s ELSE Handle(q[i], g[i - 1])
    <3>1. CASE i = 0
      BY <2>1, <3>1
    <3>2. CASE i \in 1..n
      <4>1. i - 1 \in 0..(n + 1) /\ i - 1 <= n /\ i <= n /\ i \in 0..n /\ i # 0
        BY <3>2
      <4>2. g[i - 1] = f[i - 1] /\ g[i] = f[i]
        BY <4>1
      <4> QED BY <4>1, <4>2, <2>1
    <3>3. CASE i = n + 1
      <4>1. n \in 0..(n + 1) /\ i - 1 = n /\ i # 0 /\ ~(i <= n)
        BY <3>3
      <4>2. g[n] = f[n] /\ g[i] = Handle(q[n + 1], f[n])
        BY <4>1
      <4> QED BY <4>1, <4>2, <3>3
    <3> QED BY <3>1, <3>2, <3>3
  <2>3. g = [i \in 0..(n + 1) |-> g[i]]
    OBVIOUS
  <2> HIDE DEF g
  <2>4. Applies(n + 1, g)
    BY <2>2, <2>3
  <2> QED BY <2>4 DEF g
<1> HIDE DEF Applies
<1>4. Bad = {}
  <2> SUFFICES ASSUME Bad # {} PROVE FALSE
    OBVIOUS
  <2>1. PICK n \in Bad : \A m \in Bad : ~(m < n)
    BY Least
  <2>2. n # 0
    BY <1>2, <2>1
  <2>3. n - 1 \in Nat /\ n - 1 < n /\ n = (n - 1) + 1
    BY <2>1, <2>2
  <2>4. PICK f : Applies(n - 1, f)
    BY <2>1, <2>3
  <2>5. \E g : Applies((n - 1) + 1, g)
    BY <1>3, <2>3, <2>4
  <2> QED BY <2>1, <2>3, <2>5
<1>5. Applies(N, after)
  BY <1>1, <1>4
<1>6. HandleAll(q, s) = after[N]
  BY DEF HandleAll, Applies
<1> DEFINE Odd == {i \in 0..N : ~(Sound(after[i]) /\ after[i].breaching = s.breaching)}
<1> HIDE DEF after, N
<1>7. \A i \in 0..N : after[i] = IF i = 0 THEN s ELSE Handle(q[i], after[i - 1])
  BY <1>5 DEF Applies
<1>8. Odd = {}
  <2> SUFFICES ASSUME Odd # {} PROVE FALSE
    OBVIOUS
  <2>1. Odd \subseteq Nat
    BY <1>1
  <2>2. PICK i \in Odd : \A m \in Odd : ~(m < i)
    BY <2>1, Least
  <2>3. i # 0
    BY <1>1, <1>7, <2>2
  <2>4. i - 1 \in 0..N /\ i - 1 < i
    BY <1>1, <2>2, <2>3
  <2>5. Sound(after[i - 1]) /\ after[i - 1].breaching = s.breaching
    BY <2>2, <2>4
  <2>6. after[i] = Handle(q[i], after[i - 1])
    BY <1>7, <2>2, <2>3
  <2> QED BY <2>2, <2>5, <2>6, HandleIs
<1> QED BY <1>1, <1>6, <1>8

-----------------------------------------------------------------------------
(* _tick *)

\* Collision avoidance borrows height once, and gives it back.
LEMMA AvoidIs ==
    ASSUME NEW d, NEW s, Sound(s), NEW t \in Avoid(d, s)
    PROVE  Sound(t) /\ t.breaching = s.breaching
<1>1. /\ s \in Flights /\ s.alt \in 0..2 /\ s.offset \in 0..1 /\ s.alt <= 1 + s.offset
      /\ s.idx <= Len(s.wps)
  BY DEF Sound, Flights
<1>2. ASSUME NEW h \in 0..2, NEW o \in 0..1, h <= 1 + o, NEW p \in Cells, NEW a \in BOOLEAN
      PROVE  /\ Sound([s EXCEPT !.avoiding = a, !.offset = o, !.alt = h, !.pos = p])
             /\ [s EXCEPT !.avoiding = a, !.offset = o, !.alt = h, !.pos = p].breaching = s.breaching
  BY <1>1, <1>2 DEF Sound, Flights
<1>3. CASE t = s
  BY <1>3
<1>4. CASE \E p \in {s.pos, s.pos + 1} \cap Cells :
              t = [s EXCEPT !.avoiding = TRUE, !.offset = 1, !.alt = s.alt + 1 - s.offset, !.pos = p]
  <2>1. s.alt + 1 - s.offset \in 0..2 /\ s.alt + 1 - s.offset <= 1 + 1
    BY <1>1
  <2>2. PICK p \in Cells :
          t = [s EXCEPT !.avoiding = TRUE, !.offset = 1, !.alt = s.alt + 1 - s.offset, !.pos = p]
    BY <1>4
  <2> DEFINE h == s.alt + 1 - s.offset
  <2>3. t = [s EXCEPT !.avoiding = TRUE, !.offset = 1, !.alt = h, !.pos = p] /\ 1 \in 0..1
    BY <2>2
  <2> HIDE DEF h
  <2> QED BY <1>1, <2>1, <2>3 DEF Sound, Flights, h
<1>5. CASE t = [s EXCEPT !.avoiding = FALSE, !.offset = 0,
                         !.alt = IF s.alt > s.offset THEN s.alt - s.offset ELSE 0]
  <2> DEFINE h == IF s.alt > s.offset THEN s.alt - s.offset ELSE 0
  <2>1. h \in 0..2 /\ h <= 1 + 0
    BY <1>1
  <2>2. t = [s EXCEPT !.avoiding = FALSE, !.offset = 0, !.alt = h]
    BY <1>5
  <2> HIDE DEF h
  <2>3. ASSUME NEW a \in BOOLEAN, NEW o \in 0..1, h <= 1 + o
        PROVE  /\ Sound([s EXCEPT !.avoiding = a, !.offset = o, !.alt = h])
               /\ [s EXCEPT !.avoiding = a, !.offset = o, !.alt = h].breaching = s.breaching
    BY <1>1, <2>1, <2>3 DEF Sound, Flights
  <2>4. FALSE \in BOOLEAN /\ 0 \in 0..1
    OBVIOUS
  <2> QED BY <2>1, <2>2, <2>3, <2>4
<1> QED BY <1>3, <1>4, <1>5 DEF Avoid

LEMMA TickedIs ==
    ASSUME NEW d, NEW s, Sound(s), NEW t \in Ticked(d, s)
    PROVE  Sound(t) /\ t.breaching = s.breaching
<1> DEFINE Good(u) == Sound(u) /\ u.breaching = s.breaching
           Moved(p, h, f, a, m, i, b) ==
              [s EXCEPT !.pos = p, !.alt = h, !.phase = f, !.armed = a, !.manual = m,
                        !.idx = i, !.back = b]
<1>1. /\ s \in Flights /\ s.phase \in Phases /\ s.armed \in BOOLEAN /\ s.pos \in Cells /\ s.alt \in 0..2
      /\ s.wps \in Seq(Cells) /\ s.idx \in Nat /\ s.back \in Seq(Cells) /\ s.home \in Cells
      /\ s.manual \in BOOLEAN /\ s.offset \in 0..1 /\ s.idx <= Len(s.wps) /\ s.alt <= 1 + s.offset
  BY DEF Sound, Flights
<1>2. ASSUME NEW p \in Cells, NEW h \in 0..2, h <= 1 + s.offset, NEW f \in Phases,
             NEW a \in BOOLEAN, NEW m \in BOOLEAN, NEW i \in Nat, i <= Len(s.wps), NEW b \in Seq(Cells)
      PROVE  Good(Moved(p, h, f, a, m, i, b))
  BY <1>1, <1>2 DEF Sound, Flights
<1>3. ASSUME NEW u, Good(u), t \in Avoid(d, u) PROVE Good(t)
  BY <1>3, AvoidIs
<1>4. {"flying", "paused", "landed", "rtl"} \subseteq Phases
  BY DEF Phases, Airborne, Grounded
<1>5. 0 \in 0..2 /\ 1 \in 0..2 /\ 0 <= 1 + s.offset /\ 1 <= 1 + s.offset
  BY <1>1
<1>6. Toward(s.alt, 1) = 1
  BY <1>1 DEF Toward
<1>7. Good(ManualTick(s))
  <2> DEFINE p == IF s.pos < Far THEN s.pos + 1 ELSE s.pos
  <2>1. p \in Cells
    BY <1>1, FlightAssumption DEF Cells
  <2>2. ManualTick(s) = Moved(p, s.alt, s.phase, s.armed, FALSE, s.idx, s.back)
    BY <1>1 DEF ManualTick, Flights
  <2> HIDE DEF p, Good, Moved
  <2> QED BY <1>1, <1>2, <2>1, <2>2
<1>8. Good(TakeoffTick(s))
  <2> DEFINE f == IF s.alt >= 1 THEN "flying" ELSE s.phase
  <2>1. f \in Phases
    BY <1>1, <1>4
  <2>2. TakeoffTick(s) = Moved(s.pos, 1, f, s.armed, s.manual, s.idx, s.back)
    BY <1>1 DEF TakeoffTick, Flights
  <2> HIDE DEF f, Good, Moved
  <2> QED BY <1>1, <1>2, <1>5, <2>1, <2>2
<1>9. ASSUME OnRoute(s) PROVE Good(FlyingTick(s))
  <2> DEFINE p == Toward(s.pos, s.wps[s.idx + 1])
             at == [s EXCEPT !.pos = p, !.alt = Toward(s.alt, 1)]
             f == IF s.idx + 1 = Len(s.wps) THEN "paused" ELSE s.phase
  <2>1. p \in Cells /\ f \in Phases /\ s.idx + 1 \in Nat /\ s.idx + 1 <= Len(s.wps)
    <3>1. s.idx + 1 \in 1..Len(s.wps)
      BY <1>1, <1>9 DEF OnRoute
    <3>2. s.wps[s.idx + 1] \in Cells
      BY <1>1, <3>1
    <3> QED BY <1>1, <1>4, <3>1, <3>2, TowardIs
  <2>2. at = Moved(p, 1, s.phase, s.armed, s.manual, s.idx, s.back)
    BY <1>1, <1>6 DEF Flights
  <2>3. [at EXCEPT !.idx = @ + 1, !.phase = IF s.idx + 1 = Len(s.wps) THEN "paused" ELSE @]
           = Moved(p, 1, f, s.armed, s.manual, s.idx + 1, s.back)
    BY <1>1, <1>6 DEF Flights
  <2>4. FlyingTick(s) \in {at, [at EXCEPT !.idx = @ + 1,
                                          !.phase = IF s.idx + 1 = Len(s.wps) THEN "paused" ELSE @]}
    BY DEF FlyingTick
  <2> HIDE DEF p, f, at, Good, Moved
  <2> QED BY <1>1, <1>2, <1>5, <2>1, <2>2, <2>3, <2>4
<1>10. ASSUME s.back # <<>> PROVE Good(RetraceTick(s))
  <2> DEFINE p == Toward(s.pos, Head(s.back))
             at == [s EXCEPT !.pos = p, !.alt = Toward(s.alt, 1)]
  <2>1. p \in Cells /\ Tail(s.back) \in Seq(Cells)
    BY <1>1, <1>10, TowardIs
  <2>2. at = Moved(p, 1, s.phase, s.armed, s.manual, s.idx, s.back)
    BY <1>1, <1>6 DEF Flights
  <2>3. [at EXCEPT !.back = Tail(@)] = Moved(p, 1, s.phase, s.armed, s.manual, s.idx, Tail(s.back))
    BY <1>1, <1>6 DEF Flights
  <2>4. RetraceTick(s) \in {at, [at EXCEPT !.back = Tail(@)]}
    BY DEF RetraceTick
  <2> HIDE DEF p, at, Good, Moved
  <2>5. Good(at)
    BY <1>1, <1>2, <1>5, <2>1, <2>2
  <2>6. Good([at EXCEPT !.back = Tail(@)])
    <3>1. Good(Moved(p, 1, s.phase, s.armed, s.manual, s.idx, Tail(s.back)))
      BY <1>1, <1>2, <1>5, <2>1
    <3> QED BY <2>3, <3>1
  <2> QED BY <2>4, <2>5, <2>6
<1>11. Good(HomingTick(s))
  <2> DEFINE p == Toward(s.pos, s.home)
             h == IF s.pos = s.home /\ s.alt > 0 THEN s.alt - 1 ELSE s.alt
  <2>1. p \in Cells /\ h \in 0..2 /\ h <= 1 + s.offset
    BY <1>1, TowardIs
  <2>2. HomingTick(s) = Moved(p, h, s.phase, s.armed, s.manual, s.idx, s.back)
    BY <1>1 DEF HomingTick, Flights
  <2> HIDE DEF p, h, Good, Moved
  <2> QED BY <1>1, <1>2, <2>1, <2>2
<1>12. Good(LandingTick(s))
  <2>1. s.alt > 1 => s.alt - 1 \in 0..2 /\ s.alt - 1 <= 1 + s.offset
    BY <1>1
  <2>2. LandingTick(s) = IF s.alt > 1 THEN Moved(s.pos, s.alt - 1, s.phase, s.armed, s.manual, s.idx, s.back)
                         ELSE Moved(s.pos, 0, "landed", FALSE, s.manual, s.idx, s.back)
    BY <1>1 DEF LandingTick, Flights
  <2> HIDE DEF Good, Moved
  <2>3. s.alt > 1 => Good(Moved(s.pos, s.alt - 1, s.phase, s.armed, s.manual, s.idx, s.back))
    BY <1>1, <1>2, <2>1
  <2>4. "landed" \in Phases /\ FALSE \in BOOLEAN
    BY <1>4
  <2>5. Good(Moved(s.pos, 0, "landed", FALSE, s.manual, s.idx, s.back))
    BY <1>1, <1>2, <1>5, <2>4
  <2> QED BY <2>2, <2>3, <2>5
<1>13. Good([s EXCEPT !.phase = "paused"]) /\ Good([s EXCEPT !.armed = FALSE, !.phase = "landed"])
  <2>1. /\ [s EXCEPT !.phase = "paused"] = Moved(s.pos, s.alt, "paused", s.armed, s.manual, s.idx, s.back)
        /\ [s EXCEPT !.armed = FALSE, !.phase = "landed"]
              = Moved(s.pos, s.alt, "landed", FALSE, s.manual, s.idx, s.back)
    BY <1>1 DEF Flights
  <2> HIDE DEF Good, Moved
  <2>2. "landed" \in Phases /\ "paused" \in Phases /\ FALSE \in BOOLEAN
    BY <1>4
  <2>3. Good(Moved(s.pos, s.alt, "paused", s.armed, s.manual, s.idx, s.back))
    BY <1>1, <1>2, <2>2
  <2>4. Good(Moved(s.pos, s.alt, "landed", FALSE, s.manual, s.idx, s.back))
    BY <1>1, <1>2, <2>2
  <2> QED BY <2>1, <2>3, <2>4
<1>14. ASSUME NEW p \in Cells PROVE Good([s EXCEPT !.pos = p])
  <2>1. [s EXCEPT !.pos = p] = Moved(p, s.alt, s.phase, s.armed, s.manual, s.idx, s.back)
    BY <1>1 DEF Flights
  <2> HIDE DEF Good, Moved
  <2> QED BY <1>1, <1>2, <2>1
<1>15. Good(s)
  OBVIOUS
<1>16. \/ t = ManualTick(s) \/ t \in Avoid(d, TakeoffTick(s)) \/ t = [s EXCEPT !.phase = "paused"]
       \/ OnRoute(s) /\ t \in Avoid(d, FlyingTick(s))
       \/ \E p \in Cells : t \in Avoid(d, [s EXCEPT !.pos = p])
       \/ s.back # <<>> /\ t = RetraceTick(s)
       \/ t = [s EXCEPT !.armed = FALSE, !.phase = "landed"]
       \/ t \in Avoid(d, HomingTick(s)) \/ t = LandingTick(s) \/ t \in Avoid(d, s)
  BY Zenon DEF Ticked
<1> HIDE DEF Good, Moved
<1>17. Good(t)
  BY <1>3, <1>7, <1>8, <1>9, <1>10, <1>11, <1>12, <1>13, <1>14, <1>15, <1>16
<1> QED BY <1>17 DEF Good

-----------------------------------------------------------------------------
(* The invariant *)

LEMMA ParkedIs == ASSUME NEW d \in Drones
                  PROVE  Sound(Parked(d)) /\ Parked(d).phase = "idle" /\ Parked(d).breaching = FALSE
<1>1. /\ Launch[d] \in Cells /\ Route \in Seq(Cells) /\ <<>> \in Seq(Cells)
  BY FlightAssumption DEF Cells
<1>2. "idle" \in Phases /\ Len(Route) \in Nat
  BY <1>1 DEF Phases, Grounded
<1>3. Sound(Parked(d))
  BY <1>1, <1>2 DEF Parked, Sound, Flights
<1> QED BY <1>3 DEF Parked

THEOREM InitFlightIInv == FlightInit => FlightIInv
<1> SUFFICES ASSUME FlightInit PROVE FlightIInv
  OBVIOUS
<1> USE DEF FlightInit
<1>1. sim \in [Drones -> Flights] /\ \A d \in Drones : Sound(sim[d])
  BY ParkedIs DEF Sound
<1>2. queue \in [Drones -> Seq(Queued)] /\ inbox \in [Drones -> 0..MaxInbox] /\ events \in 0..MaxEvents
  BY FlightAssumption
<1>3. Typed
  BY <1>1, <1>2 DEF Typed
<1>4. ASSUME NEW d \in Drones PROVE EdgeSeen(d) /\ TurnsHome(d)
  BY <1>4, ParkedIs DEF EdgeSeen, TurnsHome
<1> QED BY <1>3, <1>4 DEF FlightIInv

\* A step is the step of one flight.
Others(d) == \A o \in Drones \ {d} : /\ sim'[o] = sim[o] /\ loop'[o] = loop[o]
                                     /\ profile'[o] = profile[o] /\ ignored'[o] = ignored[o]

LEMMA OneFlight ==
    ASSUME FlightIInv, NEW d \in Drones, Typed', Others(d), EdgeSeen(d)', TurnsHome(d)'
    PROVE  FlightIInv'
<1>1. ASSUME NEW o \in Drones PROVE EdgeSeen(o)' /\ TurnsHome(o)'
  <2>1. CASE o = d
    BY <2>1
  <2>2. CASE o # d
    <3>1. sim'[o] = sim[o] /\ loop'[o] = loop[o] /\ profile'[o] = profile[o] /\ ignored'[o] = ignored[o]
      BY <2>2, <1>1 DEF Others
    <3>2. EdgeSeen(o) /\ TurnsHome(o)
      BY <1>1 DEF FlightIInv
    <3>3. EdgeSeen(o)'
      BY <3>1, <3>2 DEF EdgeSeen
    <3>4. TurnsHome(o)'
      BY <3>1, <3>2 DEF TurnsHome
    <3> QED BY <3>3, <3>4
  <2> QED BY <2>1, <2>2
<1> QED BY <1>1 DEF FlightIInv

\* What a flight is, when only it is changed.
LEMMA Flown ==
    ASSUME Typed, NEW d \in Drones, NEW s, Sound(s), sim' = [sim EXCEPT ![d] = s]
    PROVE  (sim \in [Drones -> Flights] /\ \A o \in Drones : Sound(sim[o]))'
  BY DEF Typed, Sound

LEMMA StartKeeps == ASSUME FlightIInv, NEW d \in Drones, StartFlight(d) PROVE FlightIInv'
<1>1. Typed /\ EdgeSeen(d) /\ TurnsHome(d)
  BY DEF FlightIInv
<1>2. (sim \in [Drones -> Flights] /\ \A o \in Drones : Sound(sim[o]))'
  BY <1>1, Flown, ParkedIs DEF StartFlight
<1>3. events' \in 0..MaxEvents
  BY <1>1, FlightAssumption DEF StartFlight, Typed
<1>4. Typed'
  BY <1>1, <1>2, <1>3 DEF StartFlight, Typed
<1>5. sim'[d] = Parked(d)
  BY <1>1 DEF StartFlight, Typed
<1>6. EdgeSeen(d)' /\ TurnsHome(d)'
  BY <1>5, ParkedIs DEF EdgeSeen, TurnsHome
<1>7. Others(d)
  BY <1>1 DEF StartFlight, Others, Typed
<1> QED BY <1>4, <1>6, <1>7, OneFlight

LEMMA CommandKeeps ==
    ASSUME FlightIInv, NEW d \in Drones, NEW c \in Orders, Command(d, c) PROVE FlightIInv'
<1>1. Typed /\ EdgeSeen(d) /\ TurnsHome(d) /\ Sound(sim[d])
  BY DEF FlightIInv, Typed
<1>2. events' \in 0..MaxEvents
  BY <1>1, FlightAssumption DEF Command, Typed
<1>3. CASE c # "profile"
  <2>1. queue' \in [Drones -> Seq(Queued)]
    <3>1. queue \in [Drones -> Seq(Queued)] /\ c \in Queued
      BY <1>1 DEF Typed, Queued
    <3>2. Append(queue[d], c) \in Seq(Queued)
      BY <3>1
    <3>3. queue' = [queue EXCEPT ![d] = Append(@, c)]
      BY <1>3 DEF Command
    <3> QED BY <3>1, <3>2, <3>3
  <2>2. Typed'
    BY <1>1, <1>2, <1>3, <2>1 DEF Command, Typed
  <2>3. EdgeSeen(d)' /\ TurnsHome(d)'
    BY <1>1, <1>3 DEF Command, EdgeSeen, TurnsHome
  <2>4. Others(d)
    BY <1>3 DEF Command, Others
  <2> QED BY <2>2, <2>3, <2>4, OneFlight
<1>4. CASE c = "profile"
  <2> DEFINE s == Handle(c, sim[d])
  <2>1. Sound(s) /\ s.pos = sim[d].pos /\ s.breaching = sim[d].breaching
    BY <1>1, HandleIs
  <2>2. sim[d].phase = "idle" => s = sim[d]
    BY <1>4 DEF Handle
  <2>3. /\ sim' = [sim EXCEPT ![d] = s] /\ profile' = [profile EXCEPT ![d] = "push"]
        /\ ignored' = [ignored EXCEPT ![d] = @ \/ Resumes(sim[d], s)]
        /\ profile[d] = "off" /\ UNCHANGED <<queue, loop, links, inbox>>
    BY <1>4 DEF Command
  <2> HIDE DEF s
  <2>4. (sim \in [Drones -> Flights] /\ \A o \in Drones : Sound(sim[o]))'
    BY <1>1, <2>1, <2>3, Flown
  <2>5. Typed'
    BY <1>1, <1>2, <2>3, <2>4 DEF Typed
  <2>6. /\ sim'[d] = s /\ profile'[d] = "push" /\ loop'[d] = loop[d]
    BY <1>1, <2>3 DEF Typed
  <2>7. ignored'[d] <=> ignored[d] \/ Resumes(sim[d], s)
    BY <1>1, <2>3 DEF Typed
  <2>8. EdgeSeen(d)'
    BY <1>1, <2>1, <2>2, <2>6, <2>7 DEF EdgeSeen
  <2>9. TurnsHome(d)'
    BY <1>1, <2>1, <2>3, <2>6, <2>7 DEF TurnsHome, Resumes
  <2>10. Others(d)
    BY <1>1, <2>3 DEF Others, Typed
  <2> QED BY <2>5, <2>8, <2>9, <2>10, OneFlight
<1> QED BY <1>3, <1>4

LEMMA TickKeeps == ASSUME FlightIInv, NEW d \in Drones, Tick(d) PROVE FlightIInv'
<1>1. Typed /\ EdgeSeen(d) /\ TurnsHome(d) /\ Sound(sim[d]) /\ queue[d] \in Seq(Queued)
  BY DEF FlightIInv, Typed
<1>2. PICK s \in Ticked(d, HandleAll(queue[d], sim[d])) :
          /\ sim' = [sim EXCEPT ![d] = s]
          /\ ignored' = [ignored EXCEPT ![d] = @ \/ Resumes(sim[d], s)]
  BY DEF Tick
<1>3. Sound(s) /\ s.breaching = sim[d].breaching
  <2>1. /\ Sound(HandleAll(queue[d], sim[d]))
        /\ HandleAll(queue[d], sim[d]).breaching = sim[d].breaching
    BY <1>1, HandleAllIs
  <2> QED BY <2>1, <1>2, TickedIs
<1>4. /\ loop[d] = "tick" /\ loop' = [loop EXCEPT ![d] = "push"] /\ queue' = [queue EXCEPT ![d] = <<>>]
      /\ UNCHANGED <<profile, links, inbox, events>>
  BY DEF Tick
<1>5. (sim \in [Drones -> Flights] /\ \A o \in Drones : Sound(sim[o]))'
  BY <1>1, <1>2, <1>3, Flown
<1>6. Typed'
  BY <1>1, <1>2, <1>4, <1>5 DEF Typed
<1>7. sim'[d] = s /\ loop'[d] = "push" /\ profile'[d] = profile[d]
  BY <1>1, <1>2, <1>4 DEF Typed
<1>8. ignored'[d] <=> ignored[d] \/ Resumes(sim[d], s)
  BY <1>1, <1>2 DEF Typed
<1>9. EdgeSeen(d)'
  BY <1>7 DEF EdgeSeen
<1>10. TurnsHome(d)'
  BY <1>1, <1>3, <1>4, <1>7, <1>8 DEF TurnsHome, Resumes
<1>11. Others(d)
  BY <1>1, <1>2, <1>4 DEF Others, Typed
<1> QED BY <1>6, <1>9, <1>10, <1>11, OneFlight

\* Where the end of a push leaves the two tasks that push.
LEMMA PushOverIs ==
    ASSUME Typed, NEW d \in Drones, NEW w \in Pushers, NEW s, PushOver(d, w, s)
    PROVE  /\ loop' \in [Drones -> {"off", "tick", "push", "breach", "recovery", "grace"}]
           /\ profile' \in [Drones -> {"off", "push", "breach", "recovery", "orphan"}]
           /\ \A o \in Drones \ {d} : loop'[o] = loop[o] /\ profile'[o] = profile[o]
           /\ w = "profile" => profile'[d] = "off" /\ loop'[d] = loop[d]
           /\ w = "run" => loop'[d] \in {"grace", "tick"} /\ profile'[d] = profile[d]
<1>1. CASE w = "profile"
  BY <1>1 DEF PushOver, Typed
<1>2. CASE w = "run"
  <2> DEFINE l == IF s.phase = "landed" THEN "grace" ELSE "tick"
  <2>1. loop' = [loop EXCEPT ![d] = l] /\ UNCHANGED profile
    BY <1>2 DEF PushOver
  <2>2. l \in {"grace", "tick"}
    OBVIOUS
  <2> HIDE DEF l
  <2> QED BY <1>2, <2>1, <2>2 DEF Typed
<1> QED BY <1>1, <1>2 DEF Pushers

LEMMA PushedKeeps ==
    ASSUME FlightIInv, NEW d \in Drones, NEW w \in Pushers, NEW c, Pushed(d, w, c) PROVE FlightIInv'
<1> DEFINE s == HandleExternal(c, sim[d])
           out == s.pos \notin Fence
           t == [s EXCEPT !.breaching = out]
           e == IF out THEN "breach" ELSE "recovery"
<1>1. Typed /\ EdgeSeen(d) /\ TurnsHome(d) /\ Sound(sim[d])
  BY DEF FlightIInv, Typed
<1>2. Sound(s) /\ s.pos = sim[d].pos /\ s.breaching = sim[d].breaching
  BY <1>1, HandleExternalIs
<1>3. /\ At(d, w, "push") /\ links' = links \cup {d} /\ UNCHANGED <<queue, inbox>>
      /\ sim' = [sim EXCEPT ![d] = t]
      /\ ignored' = [ignored EXCEPT ![d] = out /\ ((s.breaching /\ @) \/ Resumes(sim[d], s))]
      /\ out # s.breaching => IF w = "run" THEN loop' = [loop EXCEPT ![d] = e] /\ UNCHANGED profile
                              ELSE profile' = [profile EXCEPT ![d] = e] /\ UNCHANGED loop
      /\ out = s.breaching => PushOver(d, w, s)
  BY DEF Pushed
<1>4. Sound(t) /\ t.pos = s.pos /\ t.phase = s.phase /\ t.breaching = out
  <2>1. out \in BOOLEAN
    OBVIOUS
  <2> HIDE DEF out
  <2> QED BY <1>2, <2>1 DEF Sound, Flights
<1>5. events' \in 0..MaxEvents
  BY <1>1, FlightAssumption DEF Pushed, Typed
<1>6. e \in {"breach", "recovery"} /\ (out => e = "breach")
  OBVIOUS
<1>7. /\ loop' \in [Drones -> {"off", "tick", "push", "breach", "recovery", "grace"}]
      /\ profile' \in [Drones -> {"off", "push", "breach", "recovery", "orphan"}]
      /\ \A o \in Drones \ {d} : loop'[o] = loop[o] /\ profile'[o] = profile[o]
      /\ w = "run" => profile'[d] = profile[d]
      /\ w = "profile" => loop'[d] = loop[d]
      /\ out # s.breaching => (w = "run" /\ loop'[d] = e) \/ (w = "profile" /\ profile'[d] = e)
  <2>1. CASE out = s.breaching
    BY <1>1, <1>3, <2>1, PushOverIs
  <2>2. CASE out # s.breaching /\ w = "run"
    <3> HIDE DEF e
    <3> QED BY <1>1, <1>3, <1>6, <2>2 DEF Typed
  <2>3. CASE out # s.breaching /\ w = "profile"
    <3> HIDE DEF e
    <3> QED BY <1>1, <1>3, <1>6, <2>3 DEF Typed
  <2> QED BY <2>1, <2>2, <2>3 DEF Pushers
<1> HIDE DEF e, t
<1>8. (sim \in [Drones -> Flights] /\ \A o \in Drones : Sound(sim[o]))'
  BY <1>1, <1>3, <1>4, Flown
<1>9. links' \subseteq Drones \cup {NoDrone} /\ ignored' \in [Drones -> BOOLEAN]
  BY <1>1, <1>3 DEF Typed
<1>10. Typed'
  BY <1>1, <1>3, <1>5, <1>7, <1>8, <1>9 DEF Typed
<1>11. sim'[d] = t
  BY <1>1, <1>3 DEF Typed
<1>12. ignored'[d] <=> out /\ ((s.breaching /\ ignored[d]) \/ Resumes(sim[d], s))
  BY <1>1, <1>3 DEF Typed
<1>13. EdgeSeen(d)'
  BY <1>4, <1>11 DEF EdgeSeen
<1>14. TurnsHome(d)'
  <2> SUFFICES ASSUME Enforce, s.phase = "flying", out
               PROVE  ignored'[d] \/ profile'[d] = "breach" \/ loop'[d] = "breach"
    BY <1>4, <1>11 DEF TurnsHome
  <2>1. CASE out # s.breaching
    BY <1>6, <1>7, <2>1
  <2>2. CASE out = s.breaching /\ sim[d].phase # "flying"
    BY <1>2, <1>12, <2>2 DEF Resumes
  <2>3. CASE out = s.breaching /\ sim[d].phase = "flying"
    <3>1. ignored[d] \/ profile[d] = "breach" \/ loop[d] = "breach"
      BY <1>1, <1>2, <2>3 DEF TurnsHome
    <3>2. w = "run" => loop[d] = "push"
      BY <1>3 DEF At
    <3>3. w = "profile" => profile[d] = "push"
      BY <1>3 DEF At
    <3> QED BY <1>7, <1>12, <2>3, <3>1, <3>2, <3>3 DEF Pushers
  <2> QED BY <2>1, <2>2, <2>3
<1>15. Others(d)
  BY <1>1, <1>3, <1>7 DEF Others, Typed
<1> QED BY <1>10, <1>13, <1>14, <1>15, OneFlight

LEMMA BreachKeeps ==
    ASSUME FlightIInv, NEW d \in Drones, NEW w \in Pushers, BreachAnnounced(d, w) PROVE FlightIInv'
<1> DEFINE s == IF sim[d].phase = "flying" /\ Enforce THEN [sim[d] EXCEPT !.phase = "rtl"] ELSE sim[d]
<1>1. Typed /\ EdgeSeen(d) /\ TurnsHome(d) /\ Sound(sim[d])
  BY DEF FlightIInv, Typed
<1>2. /\ At(d, w, "breach") /\ inbox[d] < MaxInbox /\ UNCHANGED <<queue, links, events>>
      /\ inbox' = IF Broker THEN [inbox EXCEPT ![d] = @ + 1] ELSE inbox
      /\ sim' = [sim EXCEPT ![d] = s] /\ PushOver(d, w, s)
      /\ ignored' = [ignored EXCEPT ![d] = @ \/ (s.breaching /\ sim[d].phase # "flying")]
  BY DEF BreachAnnounced
<1>3. Sound(s) /\ s.pos = sim[d].pos /\ s.breaching = sim[d].breaching
  BY <1>1 DEF Sound, Flights, Phases, Airborne
<1>4. s.phase = "flying" => ~Enforce
  BY <1>1 DEF Sound, Flights
<1>5. sim[d].phase = "idle" => s.phase = "idle"
  OBVIOUS
<1>6. inbox' \in [Drones -> 0..MaxInbox]
  BY <1>1, <1>2, FlightAssumption DEF Typed
<1> HIDE DEF s
<1>7. (sim \in [Drones -> Flights] /\ \A o \in Drones : Sound(sim[o]))'
  BY <1>1, <1>2, <1>3, Flown
<1>8. s.breaching \in BOOLEAN
  BY <1>3 DEF Sound, Flights
<1>9. ignored' \in [Drones -> BOOLEAN]
  BY <1>1, <1>2, <1>8 DEF Typed
<1>10. /\ loop' \in [Drones -> {"off", "tick", "push", "breach", "recovery", "grace"}]
       /\ profile' \in [Drones -> {"off", "push", "breach", "recovery", "orphan"}]
       /\ \A o \in Drones \ {d} : loop'[o] = loop[o] /\ profile'[o] = profile[o]
       /\ w = "profile" => profile'[d] = "off" /\ loop'[d] = loop[d]
       /\ w = "run" => loop'[d] \in {"grace", "tick"} /\ profile'[d] = profile[d]
  BY <1>1, <1>2, PushOverIs
<1>11. Typed'
  BY <1>1, <1>2, <1>6, <1>7, <1>9, <1>10 DEF Typed
<1>12. sim'[d] = s /\ (ignored[d] => ignored'[d])
  BY <1>1, <1>2 DEF Typed
<1>13. EdgeSeen(d)'
  <2>1. CASE w = "run"
    <3>1. loop[d] = "breach"
      BY <1>2, <2>1 DEF At
    <3> QED BY <1>1, <1>3, <1>5, <1>12, <3>1 DEF EdgeSeen
  <2>2. CASE w = "profile"
    BY <1>1, <1>3, <1>5, <1>10, <1>12, <2>2 DEF EdgeSeen
  <2> QED BY <2>1, <2>2 DEF Pushers
<1>14. TurnsHome(d)'
  BY <1>4, <1>12 DEF TurnsHome
<1>15. Others(d)
  BY <1>1, <1>2, <1>10 DEF Others, Typed
<1> QED BY <1>11, <1>13, <1>14, <1>15, OneFlight

LEMMA RecoveryKeeps ==
    ASSUME FlightIInv, NEW d \in Drones, NEW w \in Pushers, RecoveryAnnounced(d, w) PROVE FlightIInv'
<1>1. Typed /\ EdgeSeen(d) /\ TurnsHome(d)
  BY DEF FlightIInv
<1>2. /\ At(d, w, "recovery") /\ PushOver(d, w, sim[d])
      /\ UNCHANGED <<sim, queue, links, inbox, ignored, events>>
  BY DEF RecoveryAnnounced
<1>3. /\ loop' \in [Drones -> {"off", "tick", "push", "breach", "recovery", "grace"}]
      /\ profile' \in [Drones -> {"off", "push", "breach", "recovery", "orphan"}]
      /\ \A o \in Drones \ {d} : loop'[o] = loop[o] /\ profile'[o] = profile[o]
      /\ w = "profile" => profile'[d] = "off" /\ loop'[d] = loop[d]
      /\ w = "run" => loop'[d] \in {"grace", "tick"} /\ profile'[d] = profile[d]
  BY <1>1, <1>2, PushOverIs
<1>4. Typed'
  BY <1>1, <1>2, <1>3 DEF Typed
<1>5. EdgeSeen(d)' /\ TurnsHome(d)'
  <2>1. CASE w = "run"
    <3>1. loop[d] = "recovery"
      BY <1>2, <2>1 DEF At
    <3>2. EdgeSeen(d)'
      BY <1>1, <1>2, <3>1 DEF EdgeSeen
    <3>3. TurnsHome(d)'
      BY <1>1, <1>2, <1>3, <2>1, <3>1 DEF TurnsHome
    <3> QED BY <3>2, <3>3
  <2>2. CASE w = "profile"
    <3>1. profile[d] = "recovery"
      BY <1>2, <2>2 DEF At
    <3>2. EdgeSeen(d)'
      BY <1>1, <1>2, <1>3, <2>2 DEF EdgeSeen
    <3>3. TurnsHome(d)'
      BY <1>1, <1>2, <1>3, <2>2, <3>1 DEF TurnsHome
    <3> QED BY <3>2, <3>3
  <2> QED BY <2>1, <2>2 DEF Pushers
<1>6. Others(d)
  BY <1>2, <1>3 DEF Others
<1> QED BY <1>4, <1>5, <1>6, OneFlight

LEMMA FailureKeeps ==
    ASSUME FlightIInv, NEW d \in Drones, NEW w \in Pushers, PushFails(d, w) PROVE FlightIInv'
<1>1. Typed /\ EdgeSeen(d) /\ TurnsHome(d) /\ sim[d].breaching \in BOOLEAN
  BY DEF FlightIInv, Typed, Flights
<1>2. /\ PushOver(d, w, sim[d]) /\ UNCHANGED <<sim, queue, links, inbox, events>>
      /\ ignored' = [ignored EXCEPT ![d] = @ \/ sim[d].breaching \/ sim[d].pos \notin Fence]
  BY DEF PushFails
<1>3. /\ loop' \in [Drones -> {"off", "tick", "push", "breach", "recovery", "grace"}]
      /\ profile' \in [Drones -> {"off", "push", "breach", "recovery", "orphan"}]
      /\ \A o \in Drones \ {d} : loop'[o] = loop[o] /\ profile'[o] = profile[o]
      /\ w = "profile" => profile'[d] = "off" /\ loop'[d] = loop[d]
      /\ w = "run" => loop'[d] \in {"grace", "tick"} /\ profile'[d] = profile[d]
  BY <1>1, <1>2, PushOverIs
<1>4. ignored' \in [Drones -> BOOLEAN]
  BY <1>1, <1>2 DEF Typed
<1>5. Typed'
  BY <1>1, <1>2, <1>3, <1>4 DEF Typed
<1>6. ignored'[d] <=> ignored[d] \/ sim[d].breaching \/ sim[d].pos \notin Fence
  BY <1>1, <1>2 DEF Typed
<1>7. EdgeSeen(d)'
  BY <1>1, <1>2, <1>6 DEF EdgeSeen
<1>8. TurnsHome(d)'
  BY <1>2, <1>6 DEF TurnsHome
<1>9. Others(d)
  BY <1>1, <1>2, <1>3 DEF Others, Typed
<1> QED BY <1>5, <1>7, <1>8, <1>9, OneFlight

LEMMA ConsumeKeeps == ASSUME FlightIInv, NEW d \in Drones, ConsumeBreach(d) PROVE FlightIInv'
<1>1. Typed /\ EdgeSeen(d) /\ TurnsHome(d)
  BY DEF FlightIInv
<1>2. UNCHANGED <<sim, loop, profile, links, ignored, events>>
  BY DEF ConsumeBreach
<1>3. inbox' \in [Drones -> 0..MaxInbox]
  BY <1>1, FlightAssumption DEF ConsumeBreach, Typed
<1>4. queue' \in [Drones -> Seq(Queued)]
  <2>1. queue \in [Drones -> Seq(Queued)] /\ "rtl" \in Queued
    BY <1>1 DEF Typed, Queued
  <2>2. Append(queue[d], "rtl") \in Seq(Queued)
    BY <2>1
  <2>3. queue' = queue \/ queue' = [queue EXCEPT ![d] = Append(@, "rtl")]
    BY DEF ConsumeBreach
  <2> QED BY <2>1, <2>2, <2>3
<1>5. Typed'
  BY <1>1, <1>2, <1>3, <1>4 DEF Typed
<1>6. EdgeSeen(d)' /\ TurnsHome(d)'
  BY <1>1, <1>2 DEF EdgeSeen, TurnsHome
<1>7. Others(d)
  BY <1>2 DEF Others
<1> QED BY <1>5, <1>6, <1>7, OneFlight

LEMMA CleanUpIs ==
    ASSUME Typed, NEW d \in Drones, CleanUp(d)
    PROVE  /\ loop' \in [Drones -> {"off", "tick", "push", "breach", "recovery", "grace"}]
           /\ loop'[d] = "off" /\ \A o \in Drones \ {d} : loop'[o] = loop[o]
           /\ links' \subseteq Drones \cup {NoDrone} /\ queue' \in [Drones -> Seq(Queued)]
           /\ UNCHANGED <<inbox, events>>
<1>1. <<>> \in Seq(Queued)
  OBVIOUS
<1> QED BY <1>1 DEF CleanUp, Typed

LEMMA GraceKeeps == ASSUME FlightIInv, NEW d \in Drones, GraceOver(d) PROVE FlightIInv'
<1>1. Typed /\ EdgeSeen(d) /\ TurnsHome(d)
  BY DEF FlightIInv
<1>2. loop[d] = "grace" /\ CleanUp(d) /\ UNCHANGED <<sim, profile, ignored>>
  BY DEF GraceOver
<1>3. Typed'
  BY <1>1, <1>2, CleanUpIs DEF Typed
<1>4. loop'[d] = "off" /\ \A o \in Drones \ {d} : loop'[o] = loop[o]
  BY <1>1, <1>2, CleanUpIs
<1>5. EdgeSeen(d)'
  BY <1>4 DEF EdgeSeen
<1>6. TurnsHome(d)'
  BY <1>1, <1>2 DEF TurnsHome
<1>7. Others(d)
  BY <1>2, <1>4 DEF Others
<1> QED BY <1>3, <1>5, <1>6, <1>7, OneFlight

LEMMA StopKeeps == ASSUME FlightIInv, NEW d \in Drones, StopFlight(d) PROVE FlightIInv'
<1>1. Typed
  BY DEF FlightIInv
<1>2. /\ sim' = [sim EXCEPT ![d] = Parked(d)] /\ ignored' = [ignored EXCEPT ![d] = FALSE] /\ CleanUp(d)
      /\ profile' = [profile EXCEPT ![d] = IF @ = "push" THEN "orphan" ELSE "off"]
  BY DEF StopFlight
<1>3. (sim \in [Drones -> Flights] /\ \A o \in Drones : Sound(sim[o]))'
  BY <1>1, <1>2, Flown, ParkedIs
<1>4. Typed'
  BY <1>1, <1>2, <1>3, CleanUpIs DEF Typed
<1>5. sim'[d] = Parked(d)
  BY <1>1, <1>2 DEF Typed
<1>6. EdgeSeen(d)' /\ TurnsHome(d)'
  BY <1>5, ParkedIs, <1>1, <1>2, CleanUpIs DEF EdgeSeen, TurnsHome
<1>7. \A o \in Drones \ {d} : loop'[o] = loop[o]
  BY <1>1, <1>2, CleanUpIs
<1>8. Others(d)
  BY <1>1, <1>2, <1>7 DEF Others, Typed
<1> QED BY <1>4, <1>6, <1>8, OneFlight

LEMMA OrphanKeeps == ASSUME FlightIInv, NEW d \in Drones, PushedAfterStop(d) PROVE FlightIInv'
<1>1. Typed /\ EdgeSeen(d) /\ TurnsHome(d)
  BY DEF FlightIInv
<1>2. Typed'
  BY <1>1 DEF PushedAfterStop, Typed
<1>3. EdgeSeen(d)'
  BY <1>1 DEF PushedAfterStop, EdgeSeen
<1>4. TurnsHome(d)'
  <2>1. profile[d] # "breach" /\ UNCHANGED <<sim, loop, ignored>>
    BY DEF PushedAfterStop
  <2> QED BY <1>1, <2>1 DEF TurnsHome
<1>5. Others(d)
  BY <1>1 DEF PushedAfterStop, Others, Typed
<1> QED BY <1>2, <1>3, <1>4, <1>5, OneFlight

THEOREM NextFlightIInv == FlightIInv /\ [FlightNext]_fvars => FlightIInv'
<1> SUFFICES ASSUME FlightIInv, [FlightNext]_fvars PROVE FlightIInv'
  OBVIOUS
<1>1. ASSUME NEW d \in Drones, NEW w \in Pushers, PushStep(d, w) PROVE FlightIInv'
  BY <1>1, PushedKeeps, BreachKeeps, RecoveryKeeps, FailureKeeps DEF PushStep
<1>2. ASSUME NEW d \in Drones, RunStep(d) PROVE FlightIInv'
  <2>1. "run" \in Pushers
    BY DEF Pushers
  <2> QED BY <1>1, <1>2, <2>1, TickKeeps, GraceKeeps DEF RunStep
<1>3. ASSUME NEW d \in Drones, PushStep(d, "profile") PROVE FlightIInv'
  <2>1. "profile" \in Pushers
    BY DEF Pushers
  <2> QED BY <1>1, <1>3, <2>1
<1>4. CASE FlightNext
  <2>1. PICK d \in Drones : \/ StartFlight(d) \/ StopFlight(d)
                            \/ RunStep(d) \/ PushStep(d, "profile") \/ PushedAfterStop(d)
                            \/ ConsumeBreach(d)
                            \/ \E c \in Orders : Command(d, c)
                            \/ \E c \in GcsOrders, w \in Pushers : Pushed(d, w, c)
    BY <1>4 DEF FlightNext
  <2> QED BY <1>2, <1>3, <2>1, StartKeeps, StopKeeps, OrphanKeeps, ConsumeKeeps, CommandKeeps, PushedKeeps
<1>5. CASE UNCHANGED fvars
  <2>1. Typed'
    BY <1>5 DEF FlightIInv, Typed, fvars
  <2>2. ASSUME NEW d \in Drones PROVE EdgeSeen(d)' /\ TurnsHome(d)'
    BY <1>5, <2>2 DEF FlightIInv, EdgeSeen, TurnsHome, fvars
  <2> QED BY <2>1, <2>2 DEF FlightIInv
<1> QED BY <1>4, <1>5

THEOREM FlightInvariant == FlightSpec => []FlightIInv
<1> QED BY InitFlightIInv, NextFlightIInv, PTL DEF FlightSpec

-----------------------------------------------------------------------------
(* The theorems *)

\* Heights, cells and phases stay in their bounds for any commands: collision avoidance
\* never lifts a flight more than one level above its route, and a route is never flown
\* past its end (mission_simulator.py _handle_cmd, _tick, _apply_collision_avoidance).
THEOREM FlightTypeCorrect == FlightSpec => []FlightTypeOK
<1>1. FlightIInv => FlightTypeOK
  <2> SUFFICES ASSUME FlightIInv PROVE FlightTypeOK
    OBVIOUS
  <2>1. Typed
    BY DEF FlightIInv
  <2>2. ASSUME NEW d \in Drones
        PROVE  /\ sim[d].phase \in Airborne \cup Grounded \cup {"landing"}
               /\ sim[d].pos \in Cells /\ sim[d].alt \in 0..2 /\ sim[d].offset \in 0..1
               /\ sim[d].idx \in 0..Len(sim[d].wps) /\ sim[d].home \in Cells
               /\ inbox[d] \in 0..MaxInbox
    <3>1. Sound(sim[d])
      BY <2>1, <2>2 DEF Typed
    <3>2. sim[d].wps \in Seq(Cells) /\ sim[d].idx \in Nat /\ sim[d].idx <= Len(sim[d].wps)
      BY <3>1 DEF Sound, Flights
    <3> QED BY <2>1, <2>2, <3>1, <3>2 DEF Typed, Sound, Flights, Phases
  <2> QED BY <2>1, <2>2 DEF FlightTypeOK, Typed
<1> QED BY <1>1, FlightInvariant, PTL

\* No flight that is on its route outside an enforced fence has been missed by the edge
\* detection of a push: its breach was noticed when it was not on its route, the route was
\* resumed out there, or a push was cut short by an error (mission_simulator.py _run, _push,
\* _check_geofence).
THEOREM NoBreachMissed == FlightSpec => []BreachTurnsHome
<1>1. FlightIInv => BreachTurnsHome
  <2> SUFFICES ASSUME FlightIInv, NEW d \in Drones, Enforce, loop[d] = "tick", profile[d] = "off",
                      sim[d].phase = "flying", sim[d].pos \notin Fence
               PROVE  ignored[d]
    BY DEF BreachTurnsHome
  <2>1. EdgeSeen(d) /\ TurnsHome(d)
    BY DEF FlightIInv
  <2>2. ignored[d] \/ sim[d].breaching
    BY <2>1 DEF EdgeSeen
  <2> QED BY <2>1, <2>2 DEF TurnsHome
<1> QED BY <1>1, FlightInvariant, PTL
=============================================================================
