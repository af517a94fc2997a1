---------------------------- MODULE MissionUpload ----------------------------
(***************************************************************************)
(* What the flight controller of one drone has on board and what the       *)
(* ground station believes it has: the mission uploads and live draft      *)
(* syncs of MissionPlanner, the handlers that edit, delete and re-status a *)
(* saved mission, and the check that authorises a switch to AUTO.          *)
(*                                                                         *)
(* The coroutines share DroneConnection.uploaded_mission_id; the transfers *)
(* run on executor threads, one at a time per connection (io_lock).  An    *)
(* edit becomes visible to other requests when its transaction commits.    *)
(***************************************************************************)
EXTENDS Naturals

CONSTANTS Links,     \* DroneConnection objects, in the order of successive connects
          Missions,  \* saved missions assigned to the drone
          Uploads,   \* calls of POST /missions/{mid}/upload
          Drafts,    \* calls of POST /missions/live-sync
          Autos,     \* POST /command set_mode AUTO
          Edited,    \* bound: the missions that are edited, deleted or change status
          Statuses,  \* bound: the statuses a mission takes
          Shapes,    \* bound: the geofences a plan has
          MaxEdits,  \* bound on the committed edits of one mission
          Vessels,   \* home vessels
          Positions, \* positions a vessel reports
          Drawn,     \* a home point as the operator drew it
          Draft,     \* the waypoints of a live sync
          Mixture,   \* what an interrupted transfer may leave on board
          Operator,  \* a geofence set or cleared by an operator
          None

Jobs == Uploads \cup Drafts

ASSUME UploadAssumption ==
    /\ Uploads \cap Drafts = {}
    /\ Edited \subseteq Missions
    /\ Statuses \subseteq {"planning", "approved", "executing"}
    /\ Shapes \subseteq {"none", "polygon", "rejected"}
    /\ MaxEdits \in Nat
    /\ None \notin Links \cup Missions

\* A saved plan: a revision of its waypoints and its geofence, which is absent,
\* a polygon, or a geometry set_geofence() rejects; the vessel it
\* starts from (home_point_type dynamic_vessel), if any; and where its home
\* waypoint is.
Plan == [mission : Missions, rev : 0..MaxEdits, shape : Shapes,
         ship : Vessels \cup {None}, home : Positions \cup {Drawn}]

\* A geofence of a saved plan.
Fence == [mission : Missions, rev : 0..MaxEdits]

ASSUME ContentAssumption ==
    /\ {Draft, Mixture, Operator, None} \cap (Plan \cup Fence) = {}
    /\ Draft \notin {Mixture, None}
    /\ Operator # None
    /\ None \notin Positions \cup Vessels

VARIABLES
    registered,  \* the open connection of the drone
    opened,      \* connections opened so far
    uploaded,    \* conn.uploaded_mission_id of each connection
    plan,        \* the committed Mission and Waypoint rows
    position,    \* where each vessel is, None before its first report
    status,      \* Mission.status; "approved" stands for completed and aborted too
    patching,    \* missions with an uncommitted PATCH
    deleting,    \* missions with an uncommitted DELETE
    acked,       \* history: the missions whose upload each connection acknowledged
    phase,       \* where each upload or live sync is
    content,     \* the items it sends
    link,        \* the connection it captured
    onboard,     \* the mission in the flight controller
    fence,       \* geofence_store: None, a plan's, or the operator's choice
    astray,      \* history: the upload that last wrote it was refused after that
    auto,        \* progress of each AUTO request
    asked,       \* its mission_id parameter
    autoLink     \* the connection it captured

linkVars == <<registered, opened>>
boardVars == <<onboard, acked>>
planVars == <<plan, position, status, patching, deleting>>
fenceVars == <<fence, astray>>
jobVars  == <<phase, content, link>>
autoVars == <<auto, asked, autoLink>>
vars == <<linkVars, uploaded, planVars, jobVars, boardVars, fenceVars, autoVars>>

TypeOK ==
    /\ registered \in Links \cup {None}
    /\ opened \subseteq Links
    /\ uploaded \in [Links -> Missions \cup {None}]
    /\ acked \in [Links -> SUBSET Missions]
    /\ plan \in [Missions -> Plan]
    /\ \A m \in Missions : plan[m].mission = m
    /\ status \in [Missions -> Statuses \cup {"deleted"}]
    /\ patching \subseteq Missions
    /\ deleting \subseteq Missions
    /\ position \in [Vessels -> Positions \cup {None}]
    /\ phase \in [Jobs -> {"idle", "read", "armed", "queued", "transferring", "stored",
                           "failed", "recorded", "unsaved", "returned"}]
    /\ content \in [Jobs -> Plan \cup {Draft, None}]
    /\ link \in [Jobs -> Links \cup {None}]
    /\ onboard \in Plan \cup {Draft, Mixture, None}
    /\ fence \in Fence \cup {None, Operator}
    /\ astray \in BOOLEAN
    /\ auto \in [Autos -> {"idle", "reading", "authorised"}]
    /\ asked \in [Autos -> Missions \cup {None}]
    /\ autoLink \in [Autos -> Links \cup {None}]

Init ==
    /\ registered = None
    /\ opened = {}
    /\ uploaded = [l \in Links |-> None]
    /\ \E shape \in [Missions -> Shapes], ship \in [Missions -> Vessels \cup {None}] :
          plan = [m \in Missions |-> [mission |-> m, rev |-> 0, shape |-> shape[m],
                                      ship |-> ship[m], home |-> Drawn]]
    /\ position = [v \in Vessels |-> None]
    /\ status \in [Missions -> Statuses \ {"executing"}]
    /\ patching = {}
    /\ deleting = {}
    /\ acked = [l \in Links |-> {}]
    /\ phase = [j \in Jobs |-> "idle"]
    /\ content = [j \in Jobs |-> None]
    /\ link = [j \in Jobs |-> None]
    /\ onboard = None
    /\ fence = None
    /\ astray = FALSE
    /\ auto = [a \in Autos |-> "idle"]
    /\ asked = [a \in Autos |-> None]
    /\ autoLink = [a \in Autos |-> None]
-----------------------------------------------------------------------------
(* The connection.                                                         *)

\* connect() registers a new DroneConnection, whose uploaded_mission_id is None.
LinkUp(l) ==
    /\ registered = None /\ l \notin opened
    /\ registered' = l
    /\ opened' = opened \cup {l}
    /\ UNCHANGED <<uploaded, planVars, jobVars, boardVars, fenceVars, autoVars>>

\* disconnect(), or the reader found the link dead.
LinkDown ==
    /\ registered # None
    /\ registered' = None
    /\ UNCHANGED <<opened, uploaded, planVars, jobVars, boardVars, fenceVars, autoVars>>
-----------------------------------------------------------------------------
(* upload_to_drone and upload_live_waypoints.                              *)

\* An exception or a return ends job j and drops what it held.
Returns(j) ==
    /\ phase' = [phase EXCEPT ![j] = "returned"]
    /\ content' = [content EXCEPT ![j] = None]
    /\ link' = [link EXCEPT ![j] = None]

\* upload_mission reads the rows; whatever the mission's status.
UploadRequest(u, m) ==
    /\ phase[u] = "idle" /\ status[m] # "deleted"
    /\ phase' = [phase EXCEPT ![u] = "read"]
    /\ content' = [content EXCEPT ![u] = plan[m]]
    /\ UNCHANGED <<linkVars, uploaded, planVars, link, boardVars, fenceVars, autoVars>>

FenceOf(p) == [mission |-> p.mission, rev |-> p.rev]

\* Mutant: a mission without a geofence keeps the previous one.
SetGeofence_KeepsOld(p) == fence' = IF p.shape = "polygon" THEN FenceOf(p) ELSE fence

\* set_geofence(mission.geofence or None): a rejected geometry leaves the store
\* as it was, and upload_to_drone does not look at the result.
SetGeofence(p) ==
    fence' = CASE p.shape = "none"     -> None
               [] p.shape = "polygon"  -> FenceOf(p)
               [] p.shape = "rejected" -> fence

\* Validated (or not), the connection found (or not), the geofence armed.
UploadChecked(u) ==
    /\ phase[u] = "read"
    /\ \/ /\ Returns(u)
          /\ UNCHANGED fenceVars
       \/ /\ registered # None
          /\ phase' = [phase EXCEPT ![u] = "armed"]
          /\ link' = [link EXCEPT ![u] = registered]
          /\ SetGeofence(content[u])
          /\ astray' = (astray /\ content[u].shape = "rejected")
          /\ UNCHANGED content
    /\ UNCHANGED <<linkVars, uploaded, planVars, boardVars, autoVars>>

\* Mutant: the authorisation of the previous mission stays during a transfer.
Forget_Nothing(l) == UNCHANGED uploaded

\* conn.uploaded_mission_id = None
Forget(l) == uploaded' = [uploaded EXCEPT ![l] = None]

\* _get_home_vessel and _apply_dynamic_home: a vessel not seen yet is a 503, with
\* the fence armed and the previous upload still on record; otherwise the home
\* waypoint is moved to the vessel.  Then forget the uploaded mission and hand
\* over to a thread.
UploadQueued(u) ==
    LET ship == content[u].ship
    IN  /\ phase[u] = "armed"
        /\ \/ /\ ship # None /\ position[ship] = None
              /\ Returns(u)
              /\ astray' = (astray \/ content[u].shape # "rejected")
              /\ UNCHANGED uploaded
           \/ /\ ship # None => position[ship] # None
              /\ phase' = [phase EXCEPT ![u] = "queued"]
              /\ content' = IF ship = None THEN content
                            ELSE [content EXCEPT ![u].home = position[ship]]
              /\ Forget(link[u])
              /\ UNCHANGED <<link, astray>>
        /\ UNCHANGED <<linkVars, planVars, boardVars, fence, autoVars>>

\* POST /missions/live-sync runs up to its thread without suspending.
LiveSync(d) ==
    /\ phase[d] = "idle" /\ registered # None
    /\ phase' = [phase EXCEPT ![d] = "queued"]
    /\ content' = [content EXCEPT ![d] = Draft]
    /\ link' = [link EXCEPT ![d] = registered]
    /\ Forget(registered)
    /\ UNCHANGED <<linkVars, planVars, boardVars, fenceVars, autoVars>>

\* "with io_lock": the thread owns the connection.
TransferStarts(j) ==
    /\ phase[j] = "queued"
    /\ \A k \in Jobs : phase[k] = "transferring" => link[k] # link[j]
    /\ phase' = [phase EXCEPT ![j] = "transferring"]
    /\ UNCHANGED <<linkVars, uploaded, planVars, content, link, boardVars, fenceVars, autoVars>>

\* The final MISSION_ACK of job j was accepted.
Stored(j) ==
    /\ registered = link[j]
    /\ phase' = [phase EXCEPT ![j] = "stored"]
    /\ onboard' = content[j]
    /\ acked' = IF j \in Drafts THEN acked
                ELSE [acked EXCEPT ![link[j]] = @ \cup {content[j].mission}]

\* Mutant: the thread waits for the final MISSION_ACK without a deadline.
TransferEnds_NoDeadline(j) ==
    /\ phase[j] = "transferring"
    /\ Stored(j)
    /\ UNCHANGED <<linkVars, uploaded, planVars, content, link, fenceVars, autoVars>>

\* The transfer succeeded; or it failed (rejected, timed out, link closed),
\* whatever the flight controller has stored by then.
TransferEnds(j) ==
    /\ phase[j] = "transferring"
    /\ \/ Stored(j)
       \/ /\ phase' = [phase EXCEPT ![j] = "failed"]
          /\ onboard' \in {onboard, content[j], Mixture}
          /\ UNCHANGED acked
    /\ UNCHANGED <<linkVars, uploaded, planVars, content, link, fenceVars, autoVars>>

\* Where the coroutine resumes: a successful upload has its transaction left.
Resumed(j) ==
    IF j \in Uploads /\ phase[j] = "stored"
    THEN phase' = [phase EXCEPT ![j] = "recorded"] /\ UNCHANGED <<content, link>>
    ELSE Returns(j)

\* Mutant: a failed transfer is recorded like a successful one.
JobResumes_FailureRecorded(j) ==
    /\ phase[j] \in {"stored", "failed"}
    /\ Resumed(j)
    /\ uploaded' = [uploaded EXCEPT ![link[j]] =
                        IF j \in Uploads THEN content[j].mission ELSE None]
    /\ UNCHANGED <<linkVars, planVars, boardVars, fenceVars, autoVars>>

\* The coroutine resumes: an upload records its mission, a live sync clears the
\* record again; an exception becomes a 503, which leaves it alone and rolls the
\* home waypoint back.
JobResumes(j) ==
    /\ phase[j] \in {"stored", "failed"}
    /\ Resumed(j)
    /\ uploaded' = IF phase[j] = "failed" THEN uploaded
                   ELSE [uploaded EXCEPT ![link[j]] =
                            IF j \in Uploads THEN content[j].mission ELSE None]
    /\ UNCHANGED <<linkVars, planVars, boardVars, fenceVars, autoVars>>

\* get_db() ends the upload's transaction, which moved the home waypoint of a
\* mission that starts from a vessel: it is committed, or rolled back (the rows
\* may be gone).  The record of the upload stays either way.
UploadEnds(u) ==
    /\ phase[u] = "recorded"
    /\ \/ /\ status[content[u].mission] # "deleted"
          /\ Returns(u)
          /\ plan' = IF content[u].ship = None THEN plan
                     ELSE [plan EXCEPT ![content[u].mission].home = content[u].home]
       \/ /\ phase' = [phase EXCEPT ![u] = "unsaved"]
          /\ UNCHANGED <<plan, content, link>>
    /\ UNCHANGED <<linkVars, uploaded, position, status, patching, deleting, boardVars,
                   fenceVars, autoVars>>
-----------------------------------------------------------------------------
(* Saved missions.                                                         *)

\* "if conn and conn.uploaded_mission_id == mid: conn.uploaded_mission_id = None"
Revoke(m) ==
    uploaded' = [l \in Links |->
                    IF l = registered /\ uploaded[l] = m THEN None ELSE uploaded[l]]

\* PATCH /missions/{mid}, planning missions only: revoke, then write the rows.
PatchRequest(m) ==
    /\ status[m] = "planning" /\ m \notin patching /\ plan[m].rev < MaxEdits
    /\ patching' = patching \cup {m}
    /\ Revoke(m)
    /\ UNCHANGED <<linkVars, plan, position, status, deleting, jobVars, boardVars, fenceVars, autoVars>>

\* Its transaction ends: committed, or rolled back (the row may be gone).
PatchEnds(m) ==
    /\ m \in patching
    /\ patching' = patching \ {m}
    /\ \/ UNCHANGED plan
       \/ /\ status[m] # "deleted" /\ plan[m].rev < MaxEdits
          /\ \E shape \in Shapes, ship \in Vessels \cup {None}, home \in {plan[m].home, Drawn} :
                plan' = [plan EXCEPT ![m] = [mission |-> m, rev |-> plan[m].rev + 1,
                                             shape |-> shape, ship |-> ship, home |-> home]]
    /\ UNCHANGED <<linkVars, uploaded, position, status, deleting, jobVars, boardVars, fenceVars, autoVars>>

\* A vessel reports where it is.
VesselMoves(v, p) ==
    /\ position' = [position EXCEPT ![v] = p]
    /\ UNCHANGED <<linkVars, uploaded, plan, status, patching, deleting, jobVars, boardVars,
                   fenceVars, autoVars>>

\* DELETE /missions/{mid}: the upload is revoked even when the mission is
\* executing and the request then refused.
DeleteRequest(m) ==
    /\ status[m] # "deleted" /\ m \notin deleting
    /\ Revoke(m)
    /\ deleting' = IF status[m] = "executing" THEN deleting ELSE deleting \cup {m}
    /\ UNCHANGED <<linkVars, plan, position, status, patching, jobVars, boardVars, fenceVars, autoVars>>

DeleteEnds(m) ==
    /\ m \in deleting
    /\ deleting' = deleting \ {m}
    /\ status' = [status EXCEPT ![m] = "deleted"]
    /\ UNCHANGED <<linkVars, uploaded, plan, position, patching, jobVars, boardVars, fenceVars, autoVars>>

\* PATCH /missions/{mid}/status: from any status to any.
SetStatus(m, s) ==
    /\ status[m] # "deleted"
    /\ status' = [status EXCEPT ![m] = s]
    /\ UNCHANGED <<linkVars, uploaded, plan, position, patching, deleting, jobVars, boardVars, fenceVars, autoVars>>

\* POST /drones/{drone_id}/geofence: the operator sets or clears the fence.
SetDroneGeofence ==
    /\ fence' = Operator
    /\ astray' = FALSE
    /\ UNCHANGED <<linkVars, uploaded, planVars, jobVars, boardVars, autoVars>>
-----------------------------------------------------------------------------
(* POST /command set_mode AUTO.                                            *)

\* Without mission_id any upload will do; with one, the mission is read first.
AutoRequest(a, m) ==
    /\ auto[a] # "reading" /\ registered # None
    /\ IF m = None
       THEN /\ auto' = [auto EXCEPT ![a] = IF uploaded[registered] # None THEN "authorised" ELSE "idle"]
            /\ UNCHANGED <<asked, autoLink>>
       ELSE /\ auto' = [auto EXCEPT ![a] = "reading"]
            /\ asked' = [asked EXCEPT ![a] = m]
            /\ autoLink' = [autoLink EXCEPT ![a] = registered]
    /\ UNCHANGED <<linkVars, uploaded, planVars, jobVars, boardVars, fenceVars>>

\* The request is answered: the switch to AUTO is authorised if ok.
Answer(a, ok) ==
    /\ auto' = [auto EXCEPT ![a] = IF ok THEN "authorised" ELSE "idle"]
    /\ asked' = [asked EXCEPT ![a] = None]
    /\ autoLink' = [autoLink EXCEPT ![a] = None]
    /\ UNCHANGED <<linkVars, uploaded, planVars, jobVars, boardVars, fenceVars>>

\* Mutant: the saved mission is read, but the upload is not compared with it.
AutoChecked_NotCompared(a) == auto[a] = "reading" /\ Answer(a, status[asked[a]] # "deleted")

\* The mission was read: compare it with the captured connection's upload.
AutoChecked(a) ==
    /\ auto[a] = "reading"
    /\ Answer(a, status[asked[a]] # "deleted" /\ uploaded[autoLink[a]] = asked[a])
-----------------------------------------------------------------------------
JobStep(j) ==
    \/ j \in Uploads /\ (UploadChecked(j) \/ UploadQueued(j) \/ UploadEnds(j))
    \/ TransferStarts(j) \/ TransferEnds(j) \/ JobResumes(j)

Next ==
    \/ \E l \in Links : LinkUp(l)
    \/ LinkDown
    \/ \E u \in Uploads, m \in Missions : UploadRequest(u, m)
    \/ \E d \in Drafts : LiveSync(d)
    \/ \E j \in Jobs : JobStep(j)
    \/ \E m \in Edited : PatchRequest(m)
    \/ \E m \in Edited : PatchEnds(m)
    \/ \E v \in Vessels, p \in Positions : VesselMoves(v, p)
    \/ \E m \in Edited : DeleteRequest(m)
    \/ \E m \in Edited : DeleteEnds(m)
    \/ \E m \in Edited, s \in Statuses : SetStatus(m, s)
    \/ SetDroneGeofence
    \/ \E a \in Autos, m \in Missions \cup {None} : AutoRequest(a, m)
    \/ \E a \in Autos : AutoChecked(a)

\* The transfer has a deadline and the event loop serves every coroutine.
Fairness == \A j \in Jobs : WF_vars(JobStep(j))

Spec == Init /\ [][Next]_vars /\ Fairness

InFlight(j) == phase[j] \in {"read", "armed", "queued", "transferring", "stored", "failed",
                             "recorded"}

\* One operator working through the planner: an upload, live sync, edit or
\* deletion starts when the previous one has returned.  Links, AUTO requests,
\* status changes and the geofence stay unconstrained.
OneAtATime ==
    /\ \A j, k \in Jobs : InFlight(j) /\ InFlight(k) => j = k
    /\ (\E j \in Jobs : InFlight(j)) => patching = {} /\ deleting = {}

SequentialSpec == Init /\ [][Next /\ OneAtATime']_vars
-----------------------------------------------------------------------------
(* Properties of every interleaving (Spec).                                *)

\* uploaded_mission_id is "set only after final MAVLink MISSION_ACK": whatever it
\* names was transferred over that very connection by an upload that succeeded.
UploadedWasAcked == \A l \in Links : uploaded[l] # None => uploaded[l] \in acked[l]

\* Every upload and every live sync returns, whatever the link does.
JobReturns == \A j \in Jobs : InFlight(j) ~> ~InFlight(j)
-----------------------------------------------------------------------------
(* Properties of one request at a time (SequentialSpec).                   *)

\* The saved plan of m is on board; its home waypoint, if an upload moved it to
\* the vessel, may differ as long as that upload's transaction has not committed.
Carries(m) ==
    \/ onboard = plan[m]
    \/ \E u \in Uploads : /\ phase[u] \in {"recorded", "unsaved"} /\ content[u].ship # None
                          /\ onboard = content[u]
                          /\ onboard = [plan[m] EXCEPT !.home = content[u].home]

\* The mission the station would authorise AUTO for is on board in its saved
\* revision: through failed transfers, reconnections, drafts, edits and deletions.
UploadedIsOnboard ==
    \A l \in Links : l = registered /\ uploaded[l] # None => Carries(uploaded[l])

\* The fence is the one plan p asks for: its own, none, or whatever was there if
\* its geometry is rejected; or an operator replaced it.
FenceFits(p) ==
    \/ fence = Operator
    \/ p.shape = "none" /\ fence = None
    \/ p.shape = "polygon" /\ fence = FenceOf(p)
    \/ p.shape = "rejected"

\* The armed geofence is the uploaded mission's, unless the operator set one
\* since or its geometry was rejected.  The code leaves one way out: an upload
\* that arms its fence and is then refused for want of the vessel's position does
\* not revoke the earlier one.
FenceIsUploaded ==
    \A l \in Links :
        l = registered /\ uploaded[l] # None /\ ~(\E j \in Jobs : InFlight(j)) =>
            \/ FenceFits(plan[uploaded[l]])
            \/ astray

\* POST /command asks to "upload this mission from Plan and receive
\* flight-controller acceptance": a switch to AUTO authorised for a saved mission
\* flies that mission's saved revision, if the link it was checked for is still
\* the drone's.
AutoFliesAskedPlan ==
    [][\A a \in Autos :
          auto[a] = "reading" /\ auto'[a] = "authorised" /\ autoLink[a] = registered =>
              Carries(asked[a])]_vars
=============================================================================
