---------------------------- MODULE MissionTransfer ----------------------------
(***************************************************************************)
(* The item protocol of MissionPlanner._send_mission_items, run for one    *)
(* upload after another over the same link.  The station announces a       *)
(* number of items and then only answers: requests with the item asked     *)
(* for, until the final MISSION_ACK or the deadline.  Messages carry no    *)
(* identity of the upload they belong to; the link keeps their order, may  *)
(* lose any of them and deliver them as late as it likes.                  *)
(*                                                                         *)
(* The vehicle is external: an autopilot that asks for the items in order, *)
(* repeats requests, refuses items out of sequence and gives up.           *)
(***************************************************************************)
EXTENDS Naturals, Sequences

CONSTANTS Transfers,  \* calls of _send_mission_items on one connection
          MaxItems,   \* bound on the items of a mission
          MaxWire,    \* bound on the messages under way in one direction
          None

ASSUME TransferAssumption ==
    /\ None \notin Transfers
    /\ MaxItems \in Nat \ {0}
    /\ MaxWire \in Nat \ {0}

VARIABLES
    count,      \* len(items) of each upload
    phase,      \* "waiting" for io_lock, "running", or how the call ended
    sent,       \* the sequence numbers it served
    latest,     \* the last upload to have taken io_lock
    startedOn,  \* the link it found (history)
    uplink,     \* messages to the vehicle
    downlink,   \* messages to the station
    expected,   \* the vehicle: items of the mission it is receiving, 0 if none
    received,   \* the vehicle: the items it stores, in order
    excuse      \* refusal, give-up or lost acceptance since "latest" began (history)

station == <<count, phase, sent, latest, startedOn>>
vehicle == <<expected, received>>
vars == <<station, uplink, downlink, vehicle, excuse>>

Verdicts == {"accepted", "invalid_sequence", "refused"}

Commands == [type : {"count"}, n : 1..MaxItems]
               \cup [type : {"item"}, of : Transfers, seq : 0..(MaxItems - 1)]
               \cup [type : {"set_current"}]

Replies == [type : {"request"}, seq : 0..(MaxItems - 1)] \cup [type : {"ack"}, verdict : Verdicts]

\* An item, as the vehicle stores it: whose upload it came from and its number.
Item(t, i) == [of |-> t, seq |-> i]

TypeOK ==
    /\ count \in [Transfers -> 1..MaxItems]
    /\ phase \in [Transfers -> {"waiting", "running", "accepted", "rejected", "mismatch", "timeout"}]
    /\ sent \in [Transfers -> SUBSET (0..(MaxItems - 1))]
    /\ latest \in Transfers \cup {None}
    /\ startedOn \in [Transfers -> {"none", "idle", "quiet", "busy"}]
    /\ uplink \in Seq(Commands)
    /\ downlink \in Seq(Replies)
    /\ expected \in 0..MaxItems
    /\ received \in Seq([of : Transfers, seq : 0..(MaxItems - 1)])
    /\ excuse \in BOOLEAN

Init ==
    /\ count \in [Transfers -> 1..MaxItems]
    /\ phase = [t \in Transfers |-> "waiting"]
    /\ sent = [t \in Transfers |-> {}]
    /\ latest = None
    /\ startedOn = [t \in Transfers |-> "none"]
    /\ uplink = <<>>
    /\ downlink = <<>>
    /\ expected = 0
    /\ received = <<>>
    /\ excuse = FALSE

\* The channel after a message is sent: it may be lost, and is when too many are under way.
After(channel, m) ==
    {channel} \cup IF Len(channel) < MaxWire THEN {Append(channel, m)} ELSE {}
-----------------------------------------------------------------------------
(* The station.                                                            *)

Running == {t \in Transfers : phase[t] = "running"}

Ends(t, how) == phase' = [phase EXCEPT ![t] = how]

\* io_lock is taken and MISSION_COUNT sent, once; "sent = set()".
Start(t) ==
    /\ phase[t] = "waiting" /\ Running = {}
    /\ Ends(t, "running")
    /\ latest' = t
    /\ startedOn' = [startedOn EXCEPT ![t] =
           IF uplink # <<>> \/ downlink # <<>> THEN "busy"
           ELSE IF expected # 0 THEN "quiet" ELSE "idle"]
    /\ uplink' \in After(uplink, [type |-> "count", n |-> count[t]])
    /\ excuse' = FALSE
    /\ UNCHANGED <<count, sent, downlink, vehicle>>

\* Mutant: served items are remembered by the number of the next one.
Serve_MarksNext(t) ==
    /\ phase[t] = "running" /\ downlink # <<>> /\ Head(downlink).type = "request"
    /\ LET seq == Head(downlink).seq IN
       /\ seq < count[t]
       /\ sent' = [sent EXCEPT ![t] = @ \cup {seq + 1}]
       /\ uplink' \in After(uplink, [type |-> "item", of |-> t, seq |-> seq])
    /\ downlink' = Tail(downlink)
    /\ UNCHANGED <<count, phase, latest, startedOn, vehicle, excuse>>

\* MISSION_REQUEST(_INT): answer with the item, whether or not it was sent before.
Serve(t) ==
    /\ phase[t] = "running" /\ downlink # <<>> /\ Head(downlink).type = "request"
    /\ LET seq == Head(downlink).seq IN
       \/ /\ seq >= count[t]
          /\ Ends(t, "mismatch")
          /\ UNCHANGED <<sent, uplink>>
       \/ /\ seq < count[t]
          /\ sent' = [sent EXCEPT ![t] = @ \cup {seq}]
          /\ uplink' \in After(uplink, [type |-> "item", of |-> t, seq |-> seq])
          /\ UNCHANGED phase
    /\ downlink' = Tail(downlink)
    /\ UNCHANGED <<count, latest, startedOn, vehicle, excuse>>

\* Mutant: any acceptance will do, whatever was sent.
TakeAck_Unchecked(t) ==
    /\ phase[t] = "running" /\ downlink # <<>> /\ Head(downlink).type = "ack"
    /\ Head(downlink).verdict # "invalid_sequence"
    /\ Ends(t, IF Head(downlink).verdict = "accepted" THEN "accepted" ELSE "rejected")
    /\ downlink' = Tail(downlink)
    /\ UNCHANGED <<count, sent, latest, startedOn, uplink, vehicle, excuse>>

\* Mutant: the NAK of a late duplicate is taken for a refusal.
TakeAck_SequenceFatal(t) ==
    /\ phase[t] = "running" /\ downlink # <<>> /\ Head(downlink).type = "ack"
    /\ Ends(t, CASE Head(downlink).verdict # "accepted"  -> "rejected"
                  [] sent[t] # 0..(count[t] - 1)         -> "mismatch"
                  [] OTHER                               -> "accepted")
    /\ downlink' = Tail(downlink)
    /\ UNCHANGED <<count, sent, latest, startedOn, uplink, vehicle, excuse>>

\* MISSION_ACK: an INVALID_SEQUENCE is ignored, a refusal ends the upload, and an
\* acceptance counts only once every item was asked for.
TakeAck(t) ==
    /\ phase[t] = "running" /\ downlink # <<>> /\ Head(downlink).type = "ack"
    /\ LET verdict == Head(downlink).verdict IN
       \/ verdict = "invalid_sequence" /\ UNCHANGED <<phase, uplink>>
       \/ verdict = "refused" /\ Ends(t, "rejected") /\ UNCHANGED uplink
       \/ /\ verdict = "accepted" /\ sent[t] # 0..(count[t] - 1)
          /\ Ends(t, "mismatch") /\ UNCHANGED uplink
       \/ /\ verdict = "accepted" /\ sent[t] = 0..(count[t] - 1)
          /\ Ends(t, "accepted")
          /\ IF count[t] > 1 THEN uplink' \in After(uplink, [type |-> "set_current"])
             ELSE UNCHANGED uplink
    /\ downlink' = Tail(downlink)
    /\ UNCHANGED <<count, sent, latest, startedOn, vehicle, excuse>>

\* "remaining <= 0", or the closed link raises.
Deadline(t) ==
    /\ phase[t] = "running"
    /\ Ends(t, "timeout")
    /\ UNCHANGED <<count, sent, latest, startedOn, uplink, downlink, vehicle, excuse>>

\* Between uploads the telemetry reader owns the link and drops such messages.
ReaderTakes ==
    /\ Running = {} /\ downlink # <<>>
    /\ downlink' = Tail(downlink)
    /\ UNCHANGED <<station, uplink, vehicle, excuse>>
-----------------------------------------------------------------------------
(* The vehicle.                                                            *)

Request(i) == [type |-> "request", seq |-> i]
Ack(verdict) == [type |-> "ack", verdict |-> verdict]

Receives(type) ==
    /\ uplink # <<>> /\ Head(uplink).type = type
    /\ uplink' = Tail(uplink)

\* The vehicle stops receiving and says so.
Refuse ==
    /\ expected' = 0
    /\ downlink' \in After(downlink, Ack("refused"))
    /\ excuse' = TRUE
    /\ UNCHANGED received

\* A new upload begins (even in the middle of another), or is refused.
VehicleCount ==
    /\ Receives("count")
    /\ \/ Refuse
       \/ /\ expected' = Head(uplink).n
          /\ received' = <<>>
          /\ downlink' \in After(downlink, Request(0))
          /\ UNCHANGED excuse
    /\ UNCHANGED station

\* The item asked for: stored, and the next one requested or the mission accepted.
VehicleStores ==
    /\ Receives("item")
    /\ expected # 0 /\ Head(uplink).seq = Len(received)
    /\ \/ Refuse
       \/ /\ received' = Append(received, Item(Head(uplink).of, Head(uplink).seq))
          /\ IF Len(received') = expected
             THEN /\ expected' = 0
                  /\ downlink' \in After(downlink, Ack("accepted"))
                  /\ excuse' = (excuse \/ downlink' = downlink)
             ELSE /\ downlink' \in After(downlink, Request(Len(received')))
                  /\ UNCHANGED <<expected, excuse>>
    /\ UNCHANGED station

\* An item out of sequence, or one nobody is waiting for.
VehicleRefusesItem ==
    /\ Receives("item")
    /\ expected = 0 \/ Head(uplink).seq # Len(received)
    /\ downlink' \in After(downlink, Ack(IF expected = 0 THEN "refused" ELSE "invalid_sequence"))
    /\ UNCHANGED <<station, vehicle, excuse>>

VehicleSetsCurrent ==
    /\ Receives("set_current")
    /\ UNCHANGED <<station, downlink, vehicle, excuse>>

\* No item came for a while: ask again.
VehicleRepeats ==
    /\ expected # 0
    /\ downlink' \in After(downlink, Request(Len(received))) \ {downlink}
    /\ UNCHANGED <<station, uplink, vehicle, excuse>>

VehicleGivesUp ==
    /\ expected # 0
    /\ Refuse
    /\ UNCHANGED <<station, uplink>>
-----------------------------------------------------------------------------
Vehicle == \/ VehicleCount \/ VehicleStores \/ VehicleRefusesItem
           \/ VehicleSetsCurrent \/ VehicleRepeats \/ VehicleGivesUp

Next ==
    \/ \E t \in Transfers : Start(t) \/ Serve(t) \/ TakeAck(t) \/ Deadline(t)
    \/ ReaderTakes
    \/ Vehicle

Spec == Init /\ [][Next]_vars
-----------------------------------------------------------------------------
Mission(t) == [i \in 1..count[t] |-> Item(t, i - 1)]

\* An upload that found nothing under way on the link, vouched for by its acceptance.
Claim ==
    IF latest # None /\ phase[latest] = "accepted" /\ startedOn[latest] # "busy"
    THEN latest ELSE None

Holds ==
    IF expected = 0 /\ \E t \in Transfers : received = Mission(t)
    THEN CHOOSE t \in Transfers : received = Mission(t) ELSE None

Store == INSTANCE MissionStore WITH claim <- Claim, holds <- Holds

\* "Confirm MISSION_ACK" is enough: the mission of an accepted upload is what the
\* vehicle stores, complete and unmixed, and stays so until the next upload, although
\* requests are repeated, messages lost and an earlier upload left unfinished.
ImplementsStore == Store!Spec

\* "Some flight controllers retry the final item request", and "only a final verdict
\* is fatal": on a link with nothing under way and a vehicle waiting for nothing, an
\* upload fails before its deadline only if the vehicle refused or gave up, or the
\* acceptance was lost.
OnlyRealRefusals ==
    [][\A t \in Transfers :
          phase[t] = "running" /\ phase'[t] \in {"rejected", "mismatch"} /\ startedOn[t] = "idle"
              => excuse]_vars

=============================================================================
