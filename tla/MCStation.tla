------------------------------ MODULE MCStation ------------------------------
(***************************************************************************)
(* One instance of the parts of the station that share no state with each  *)
(* other: the serial bridge, the data recorder, the fleet registry, the    *)
(* accounts with the audit trail, the fleet planner, the vessel's position *)
(* feed, the telemetry stream and the payload camera.  In each behaviour   *)
(* one of them runs and the others stay as they started.                   *)
(***************************************************************************)
EXTENDS ComBridge, DataRecorder, FleetRegistry, Accounts, FleetPlanner,
        VesselFeed, LiveStream, PayloadCamera, TLC

CONSTANTS t1, t2, d1, d2, v1, p1, h1, q1, q2, u1, x1, x2

VARIABLE focus

MCFleet == [type |-> t1, drone |-> d1, vessel |-> v1, payload |-> p1, threat |-> h1]
MCUserOf == q1 :> u1 @@ q2 :> u1

Parts == {"bridge", "recorder", "registry", "accounts", "planner", "feed", "stream", "camera"}
stationvars == <<focus, brvars, recvars, fleetvars, accountvars, planvars, feedvars,
                 streamvars, camvars>>

StationInit == /\ focus \in Parts
               /\ BridgeInit /\ RecorderInit /\ FleetInit /\ AccountsInit /\ PlannerInit
               /\ FeedInit /\ StreamInit /\ CameraInit
               /\ focus # "bridge" => ~present
               /\ focus # "accounts" => status[q1] = "none"
               /\ status[q2] = "none"
               /\ focus # "camera" => answers = 0
               /\ focus # "registry" => linked = {}

Bridges == focus = "bridge"
             /\ UNCHANGED <<focus, recvars, fleetvars, accountvars, planvars, feedvars, streamvars, camvars>>
Keeps == focus = "recorder"
           /\ UNCHANGED <<focus, brvars, fleetvars, accountvars, planvars, feedvars, streamvars, camvars>>
Registry == focus = "registry"
              /\ UNCHANGED <<focus, brvars, recvars, accountvars, planvars, feedvars, streamvars, camvars>>
\* The requests are interchangeable: x1 is the one that begins first.
InTurn == call'[x2].pc # "off" => call'[x1].pc # "off"
Accounting == focus = "accounts"
                /\ UNCHANGED <<focus, brvars, recvars, fleetvars, planvars, feedvars, streamvars, camvars>>
Planning == focus = "planner"
              /\ UNCHANGED <<focus, brvars, recvars, fleetvars, accountvars, feedvars, streamvars, camvars>>

Feeding == focus = "feed"
             /\ UNCHANGED <<focus, brvars, recvars, fleetvars, accountvars, planvars, streamvars, camvars>>
Streaming == focus = "stream"
               /\ UNCHANGED <<focus, brvars, recvars, fleetvars, accountvars, planvars, feedvars, camvars>>
Filming == focus = "camera"
             /\ UNCHANGED <<focus, brvars, recvars, fleetvars, accountvars, planvars, feedvars, streamvars>>

StationNext ==
    \/ Bridges /\ PortGone
    \/ Bridges /\ OpenPort
    \/ Bridges /\ PortInstalled
    \/ Bridges /\ OpenFails
    \/ Bridges /\ Unplugged
    \/ Bridges /\ Plugged
    \/ \E c \in Callers : Bridges /\ Arrives(c)
    \/ \E c \in Callers : Bridges /\ Claims(c)
    \/ \E c \in Callers : Bridges /\ Captures(c)
    \/ \E c \in Callers : Bridges /\ HangsUp(c)
    \/ \E c \in Callers : Bridges /\ SendFails(c)
    \/ \E c \in Callers : Bridges /\ LateChunk(c)
    \/ \E c \in Callers : Bridges /\ Stopped(c)
    \/ \E c \in Callers : Bridges /\ Releases(c)
    \/ \E c \in Callers, p \in Pipes : Bridges /\ PipeEnds(c, p)
    \/ \E c \in Callers, p \in Pipes : Bridges /\ PipeFails(c, p)
    \/ \E c \in Callers, p \in Pipes : Bridges /\ PipeMarks(c, p)
    \/ Keeps /\ Boots
    \/ Keeps /\ StartsUp
    \/ Keeps /\ ShutsDown
    \/ Keeps /\ FlushTakes
    \/ Keeps /\ ProcessEnds
    \/ \E ok \in BOOLEAN : Keeps /\ ServiceStarts(ok)
    \/ \E ok \in BOOLEAN : Keeps /\ FlushEnds(ok)
    \/ \E ok \in BOOLEAN : Keeps /\ StopsRecorder(ok)
    \/ \E ok \in BOOLEAN : Keeps /\ Recorded(ok)
    \/ \E d \in RecDrones, r \in Readings : Keeps /\ Record(d, r)
    \/ \E s \in Slots : Registry /\ AsksOfType(s)
    \/ \E s \in Slots : Registry /\ AsksOfDrone(s)
    \/ \E s \in Slots : Registry /\ AsksOfVessel(s)
    \/ \E s \in Slots : Registry /\ AsksOfPayload(s)
    \/ \E s \in Slots : Registry /\ AsksOfThreat(s)
    \/ \E s \in Slots : Registry /\ AsksOfLink(s)
    \/ \E s \in Slots : Registry /\ AsksOfTemplate(s)
    \/ \E s \in Slots : Registry /\ AsksForPlan(s)
    \/ \E s \in Slots : Registry /\ RollsBack(s)
    \/ \E s \in Slots : Registry /\ WritesType(s)
    \/ \E s \in Slots : Registry /\ WritesDrone(s)
    \/ \E s \in Slots : Registry /\ WritesVessel(s)
    \/ \E s \in Slots : Registry /\ WritesPayload(s)
    \/ \E s \in Slots : Registry /\ WritesThreat(s)
    \/ \E s \in Slots : Registry /\ WritesLink(s)
    \/ \E s \in Slots : Registry /\ WritesTemplate(s)
    \/ \E s \in Slots : Registry /\ WritesPlan(s)
    \/ \E c \in Calls : Accounting /\ Submits(c) /\ InTurn
    \/ \E c \in Calls : Accounting /\ Registers(c) /\ InTurn
    \/ \E c \in Calls : Accounting /\ Accepts(c) /\ InTurn
    \/ \E c \in Calls : Accounting /\ Rejects(c) /\ InTurn
    \/ \E c \in Calls : Accounting /\ Resends(c) /\ InTurn
    \/ \E c \in Calls : Accounting /\ SetsPassword(c) /\ InTurn
    \/ \E c \in Calls : Accounting /\ Flushes(c) /\ InTurn
    \/ \E c \in Calls : Accounting /\ Replies(c) /\ InTurn
    \/ \E c \in Calls : Accounting /\ Closes(c) /\ InTurn
    \/ \E c \in Calls : Accounting /\ MailArrives(c) /\ InTurn
    \/ \E x \in Sessions : Accounting /\ TakesLock(x)
    \/ \E x \in Sessions : Accounting /\ ReadsLast(x)
    \/ \E x \in Sessions : Accounting /\ Appends(x)
    \/ \E x \in Sessions : Accounting /\ AuditFails(x)
    \/ Planning /\ PlansFleet
    \/ Planning /\ Decomposes
    \/ Planning /\ SolvesNext
    \/ Feeding /\ Anchors
    \/ Feeding /\ Datagram
    \/ Feeding /\ SecondPasses
    \/ \E t \in Ingests : Feeding /\ Reads(t)
    \/ \E t \in Ingests, ok \in BOOLEAN : Feeding /\ StoresFix(t, ok)
    \/ \E d \in HomeDrones : Feeding /\ Connected(d)
    \/ \E d \in HomeDrones : Feeding /\ Disconnected(d)
    \/ \E d \in HomeDrones : Feeding /\ Polls(d)
    \/ \E d \in HomeDrones, ok \in BOOLEAN : Feeding /\ SendsHome(d, ok)
    \/ Streaming /\ LifeBegins
    \/ Streaming /\ LifeEnds
    \/ Streaming /\ NeighbourLeaves
    \/ \E n \in Notifiers : Streaming /\ Reports(n)
    \/ \E n \in Notifiers : Streaming /\ LooksUp(n)
    \/ \E n \in Notifiers : Streaming /\ Broadcasts(n)
    \/ \E b \in Browsers : Streaming /\ Subscribes(b)
    \/ \E b \in Browsers : Streaming /\ Drains(b)
    \/ \E b \in Browsers : Streaming /\ Sends(b)
    \/ \E b \in Browsers : Streaming /\ Pings(b)
    \/ \E b \in Browsers : Streaming /\ Hangs(b)
    \/ \E b \in Browsers : Streaming /\ Unsubscribes(b)
    \/ Filming /\ CameraMoves
    \/ \E v \in Viewers : Filming /\ Views(v)
    \/ \E v \in Viewers : Filming /\ StopsViewing(v)
    \/ \E v \in Viewers : Filming /\ Puts(v)
    \/ \E v \in Viewers : Filming /\ Shows(v)
    \/ \E s \in CaptureIds : Filming /\ NextRound(s)
    \/ \E s \in CaptureIds : Filming /\ Opened(s)
    \/ \E s \in CaptureIds : Filming /\ NotOpened(s)
    \/ \E s \in CaptureIds : Filming /\ OpenFailed(s)
    \/ \E s \in CaptureIds : Filming /\ Grabs(s)
    \/ \E s \in CaptureIds : Filming /\ RoundEnds(s)

\* The fairness of each part, for the behaviours in which its part runs.
BridgeIsFair ==
    /\ WF_brvars(focus = "bridge" /\ WatcherStep)
    /\ \A c \in Callers : /\ WF_brvars(focus = "bridge" /\ ClientStep(c))
                          /\ \A p \in Pipes : WF_brvars(focus = "bridge" /\ PipeStep(c, p))

FeedIsFair ==
    /\ WF_feedvars(focus = "feed" /\ Datagram) /\ WF_feedvars(focus = "feed" /\ SecondPasses)
    /\ WF_feedvars(focus = "feed" /\ \E t \in Ingests : Reads(t))
    /\ SF_feedvars(focus = "feed" /\ \E t \in Ingests : StoresFix(t, TRUE))
    /\ \A d \in HomeDrones : /\ SF_feedvars(focus = "feed" /\ Finds(d))
                              /\ SF_feedvars(focus = "feed" /\ SendsHome(d, TRUE))

StreamIsFair ==
    /\ \A n \in Notifiers : /\ WF_streamvars(focus = "stream" /\ LooksUp(n))
                            /\ WF_streamvars(focus = "stream" /\ Broadcasts(n))
    /\ \A b \in Browsers : /\ WF_streamvars(focus = "stream" /\ Drains(b))
                           /\ WF_streamvars(focus = "stream" /\ Sends(b))

CameraIsFair ==
    /\ \A s \in CaptureIds : WF_camvars(focus = "camera" /\ ThreadStep(s))
    /\ \A v \in Viewers : /\ WF_camvars(focus = "camera" /\ Puts(v))
                          /\ WF_camvars(focus = "camera" /\ Shows(v))

StationSpec == StationInit /\ [][StationNext]_stationvars
                 /\ BridgeIsFair /\ FeedIsFair /\ StreamIsFair /\ CameraIsFair

-----------------------------------------------------------------------------
\* Every part keeps the types of its variables, what each of those invariants says
\* of slots, caps and rows included.
StationTypeOK == /\ BridgeTypeOK /\ RecorderTypeOK
                 /\ FleetTypeOK /\ AccountsTypeOK /\ PlannerTypeOK
                 /\ FeedTypeOK /\ StreamTypeOK /\ CameraTypeOK
=============================================================================
