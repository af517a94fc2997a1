------------------------- MODULE MissionUploadProofs -------------------------
(***************************************************************************)
(* Proofs about MissionUpload for any number of missions, requests,        *)
(* connections and edits.                                                  *)
(***************************************************************************)
EXTENDS MissionUpload, TLAPS

\* A job that captured a connection captured an opened one; an upload in progress
\* carries a saved plan, which its connection acknowledged once it is stored; the
\* registered connection is an opened one, and one not yet opened has no upload
\* recorded.
JobsWellFormed ==
    /\ \A j \in Jobs : phase[j] \in {"armed", "queued", "transferring", "stored", "failed",
                                      "recorded", "unsaved"} => link[j] \in opened
    /\ \A u \in Uploads : phase[u] \notin {"idle", "returned"} => content[u] \in Plan
    /\ \A u \in Uploads : phase[u] = "stored" => content[u].mission \in acked[link[u]]
    /\ registered \in opened \cup {None}
    /\ \A l \in Links : l \notin opened => uploaded[l] = None

\* The inductive invariant of every interleaving.
IInv == TypeOK /\ JobsWellFormed /\ UploadedWasAcked

\* The connection records no uploaded mission.
Unclaimed(l) == l \in Links => uploaded[l] = None

\* From its hand-over to a thread until it returns a job leaves its own
\* connection and the registered one unclaimed.
TransfersUnclaimed ==
    \A j \in Jobs :
        /\ phase[j] = "armed" => registered = link[j] \/ Unclaimed(registered)
        /\ phase[j] \in {"queued", "transferring", "stored", "failed"} =>
              Unclaimed(link[j]) /\ Unclaimed(registered)

\* What an upload in progress carries is the saved plan, with the home waypoint
\* moved if it starts from a vessel; after a successful transfer it is on board.
CarriesSavedPlan ==
    /\ \A u \in Uploads : InFlight(u) =>
          \/ content[u] = plan[content[u].mission]
          \/ /\ content[u].ship # None
             /\ content[u] = [plan[content[u].mission] EXCEPT !.home = content[u].home]
    /\ \A j \in Jobs : phase[j] \in {"stored", "recorded"} => onboard = content[j]

\* A mission being edited is not the uploaded one.
EditsRevoke ==
    \A m \in patching, l \in Links : l = registered => uploaded[l] # m

\* The fence fits the upload in progress, and the uploaded mission unless an
\* upload has just armed another or was refused after it did.
FenceFollows ==
    /\ \A u \in Uploads : phase[u] \in {"armed", "queued", "transferring", "stored"} =>
          FenceFits(content[u])
    /\ \A l \in Links : l = registered /\ uploaded[l] # None =>
          \/ FenceFits(plan[uploaded[l]])
          \/ astray
          \/ \E u \in Uploads : phase[u] = "armed" /\ content[u].shape # "rejected"

Bookkeeping ==
    /\ TransfersUnclaimed
    /\ CarriesSavedPlan
    /\ EditsRevoke
    /\ UploadedIsOnboard
    /\ FenceFollows

\* The inductive invariant of one request at a time.
SInv == IInv /\ OneAtATime /\ Bookkeeping
-----------------------------------------------------------------------------
LEMMA InitIInv == Init => IInv
<1> SUFFICES ASSUME Init PROVE IInv
  OBVIOUS
<1>1. plan \in [Missions -> Plan] /\ \A m \in Missions : plan[m].mission = m
  <2>1. PICK shape \in [Missions -> Shapes], ship \in [Missions -> Vessels \cup {None}] :
          plan = [m \in Missions |-> [mission |-> m, rev |-> 0, shape |-> shape[m],
                                      ship |-> ship[m], home |-> Drawn]]
    BY DEF Init
  <2>2. 0 \in 0..MaxEdits
    BY UploadAssumption
  <2> QED
    BY <2>1, <2>2 DEF Plan
<1>2. status \in [Missions -> Statuses \cup {"deleted"}]
  BY DEF Init
<1>3. TypeOK
  BY <1>1, <1>2 DEF Init, TypeOK
<1>4. JobsWellFormed
  BY DEF Init, JobsWellFormed, Jobs
<1>5. UploadedWasAcked
  BY DEF Init, UploadedWasAcked
<1> QED
  BY <1>3, <1>4, <1>5 DEF IInv

\* A returning job holds nothing, and no other job notices.
LEMMA ReturnsOnly ==
    ASSUME TypeOK, NEW j \in Jobs, Returns(j)
    PROVE  /\ phase'[j] = "returned"
           /\ \A k \in Jobs \ {j} : /\ phase'[k] = phase[k]
                                    /\ content'[k] = content[k]
                                    /\ link'[k] = link[k]
           /\ TypeOK => /\ phase' \in [Jobs -> {"idle", "read", "armed", "queued", "transferring",
                                     "stored", "failed", "recorded", "unsaved", "returned"}]
                        /\ content' \in [Jobs -> Plan \cup {Draft, None}]
                        /\ link' \in [Jobs -> Links \cup {None}]
  BY DEF Returns, TypeOK

\* An upload's plan with the home waypoint moved is a plan of the same mission,
\* revision, geofence and vessel.
LEMMA MovedHome ==
    ASSUME NEW p \in Plan, NEW h \in Positions \cup {Drawn}
    PROVE  /\ [p EXCEPT !.home = h] \in Plan
           /\ [p EXCEPT !.home = h].mission = p.mission
           /\ [p EXCEPT !.home = h].rev = p.rev
           /\ [p EXCEPT !.home = h].shape = p.shape
           /\ [p EXCEPT !.home = h].ship = p.ship
           /\ [p EXCEPT !.home = h].home = h
  BY DEF Plan

\* Two plans that differ in their home waypoint only.
LEMMA SameButHome ==
    ASSUME NEW p \in Plan, NEW q \in Plan,
           q = p \/ q = [p EXCEPT !.home = q.home]
    PROVE  /\ p.mission = q.mission /\ p.rev = q.rev /\ p.shape = q.shape /\ p.ship = q.ship
           /\ \A h \in Positions \cup {Drawn} : [q EXCEPT !.home = h] = [p EXCEPT !.home = h]
           /\ q = [p EXCEPT !.home = q.home]
           /\ [p EXCEPT !.home = q.home].home = q.home
  BY DEF Plan

\* Every step keeps the types.
LEMMA TypePreserved ==
    ASSUME TypeOK, JobsWellFormed, [Next]_vars
    PROVE  TypeOK'
<1> USE DEF TypeOK, boardVars, fenceVars
<1>1. CASE UNCHANGED vars
  BY <1>1 DEF vars, linkVars, planVars, jobVars, autoVars
<1>2. ASSUME NEW l \in Links, LinkUp(l) PROVE TypeOK'
  BY <1>2 DEF LinkUp, planVars, jobVars, autoVars
<1>3. CASE LinkDown
  BY <1>3 DEF LinkDown, planVars, jobVars, autoVars
<1>4. ASSUME NEW u \in Uploads, NEW m \in Missions, UploadRequest(u, m) PROVE TypeOK'
  BY <1>4 DEF UploadRequest, linkVars, planVars, autoVars
<1>5. ASSUME NEW d \in Drafts, LiveSync(d) PROVE TypeOK'
  BY <1>5 DEF LiveSync, Forget, linkVars, planVars, autoVars
<1>6. ASSUME NEW u \in Uploads, UploadChecked(u) PROVE TypeOK'
  <2>1. content[u] \in Plan /\ u \in Jobs
    BY <1>6 DEF UploadChecked, JobsWellFormed, Jobs
  <2>2. SetGeofence(content[u]) => fence' \in Fence \cup {None, Operator}
    BY <2>1, UploadAssumption DEF SetGeofence, FenceOf, Plan, Fence
  <2>3. CASE Returns(u) /\ UNCHANGED fenceVars
    BY <1>6, <2>1, <2>3, ReturnsOnly DEF UploadChecked, linkVars, planVars, autoVars
  <2>4. CASE /\ registered # None
             /\ phase' = [phase EXCEPT ![u] = "armed"]
             /\ link' = [link EXCEPT ![u] = registered]
             /\ SetGeofence(content[u])
             /\ astray' \in BOOLEAN /\ UNCHANGED content
    BY <1>6, <2>1, <2>2, <2>4 DEF UploadChecked, linkVars, planVars, autoVars
  <2> QED
    BY <1>6, <2>3, <2>4 DEF UploadChecked
<1>7. ASSUME NEW u \in Uploads, UploadQueued(u) PROVE TypeOK'
  <2>1. content[u] \in Plan /\ u \in Jobs /\ phase[u] = "armed"
    BY <1>7 DEF UploadQueued, JobsWellFormed, Jobs
  <2>2. CASE Returns(u) /\ UNCHANGED uploaded /\ astray' \in BOOLEAN
    BY <1>7, <2>1, <2>2, ReturnsOnly DEF UploadQueued, linkVars, planVars, autoVars
  <2>3. ASSUME content[u].ship # None => position[content[u].ship] # None,
               phase' = [phase EXCEPT ![u] = "queued"],
               content' = IF content[u].ship = None THEN content
                          ELSE [content EXCEPT ![u].home = position[content[u].ship]],
               Forget(link[u]), UNCHANGED <<link, astray>>
        PROVE  TypeOK'
    <3>1. content' \in [Jobs -> Plan \cup {Draft, None}]
      <4>1. CASE content[u].ship = None
        BY <2>3, <4>1
      <4>2. CASE content[u].ship # None
        <5>1. position[content[u].ship] \in Positions
          BY <2>1, <2>3, <4>2 DEF Plan
        <5>2. [content[u] EXCEPT !.home = position[content[u].ship]] \in Plan
          BY <2>1, <5>1, MovedHome
        <5> QED
          BY <2>1, <2>3, <4>2, <5>2
      <4> QED
        BY <4>1, <4>2
    <3> QED
      BY <1>7, <2>3, <3>1 DEF UploadQueued, Forget, linkVars, planVars, autoVars
  <2> QED
    BY <1>7, <2>2, <2>3 DEF UploadQueued
<1>8. ASSUME NEW j \in Jobs, TransferStarts(j) PROVE TypeOK'
  BY <1>8 DEF TransferStarts, linkVars, planVars, autoVars
<1>9. ASSUME NEW j \in Jobs, TransferEnds(j) PROVE TypeOK'
  <2>1. j \notin Drafts /\ phase[j] = "transferring" => content[j].mission \in Missions
    BY DEF JobsWellFormed, Jobs, Plan
  <2> QED
    BY <1>9, <2>1 DEF TransferEnds, Stored, linkVars, planVars, autoVars
<1>10. ASSUME NEW j \in Jobs, JobResumes(j) PROVE TypeOK'
  <2>1. j \in Uploads => content[j].mission \in Missions
    BY <1>10 DEF JobResumes, JobsWellFormed, Plan
  <2>2. uploaded' \in [Links -> Missions \cup {None}]
    BY <1>10, <2>1 DEF JobResumes
  <2>3. CASE Returns(j)
    BY <1>10, <2>2, <2>3, ReturnsOnly DEF JobResumes, linkVars, planVars, autoVars
  <2>4. CASE ~Returns(j)
    BY <1>10, <2>2, <2>4 DEF JobResumes, Resumed, linkVars, planVars, autoVars
  <2> QED
    BY <2>3, <2>4
<1>11. ASSUME NEW u \in Uploads, UploadEnds(u) PROVE TypeOK'
  <2>1. content[u] \in Plan /\ u \in Jobs /\ content[u].mission \in Missions
    BY <1>11 DEF UploadEnds, JobsWellFormed, Jobs, Plan
  <2>2. plan' \in [Missions -> Plan] /\ \A n \in Missions : plan'[n].mission = n
    <3>1. CASE UNCHANGED plan
      BY <3>1
    <3>2. CASE plan' = [plan EXCEPT ![content[u].mission].home = content[u].home]
      <4>1. content[u].home \in Positions \cup {Drawn} /\ plan[content[u].mission] \in Plan
        BY <2>1 DEF Plan
      <4>2. /\ [plan[content[u].mission] EXCEPT !.home = content[u].home] \in Plan
            /\ [plan[content[u].mission] EXCEPT !.home = content[u].home].mission
                 = content[u].mission
        BY <2>1, <4>1 DEF Plan
      <4> QED
        BY <2>1, <3>2, <4>2
    <3> QED
      BY <1>11, <3>1, <3>2 DEF UploadEnds
  <2>3. CASE Returns(u)
    BY <1>11, <2>1, <2>2, <2>3, ReturnsOnly DEF UploadEnds, linkVars, planVars, autoVars
  <2>4. CASE ~Returns(u)
    BY <1>11, <2>1, <2>2, <2>4 DEF UploadEnds, linkVars, planVars, autoVars
  <2> QED
    BY <2>3, <2>4
<1>12. ASSUME NEW m \in Edited, PatchRequest(m) PROVE TypeOK'
  BY <1>12, UploadAssumption DEF PatchRequest, Revoke, linkVars, jobVars, autoVars
<1>13. ASSUME NEW m \in Edited, PatchEnds(m) PROVE TypeOK'
  <2>1. plan' \in [Missions -> Plan] /\ \A n \in Missions : plan'[n].mission = n
    <3>1. CASE UNCHANGED plan
      BY <3>1
    <3>2. ASSUME plan[m].rev < MaxEdits, NEW s \in Shapes, NEW v \in Vessels \cup {None},
                 NEW h \in {plan[m].home, Drawn},
                 plan' = [plan EXCEPT ![m] = [mission |-> m, rev |-> plan[m].rev + 1, shape |-> s,
                                              ship |-> v, home |-> h]]
          PROVE  plan' \in [Missions -> Plan] /\ \A n \in Missions : plan'[n].mission = n
      <4>1. plan[m] \in Plan /\ m \in Missions
        BY UploadAssumption
      <4>2. plan[m].rev + 1 \in 0..MaxEdits /\ h \in Positions \cup {Drawn}
        BY <3>2, <4>1, UploadAssumption DEF Plan
      <4>3. [mission |-> m, rev |-> plan[m].rev + 1, shape |-> s, ship |-> v, home |-> h] \in Plan
        BY <4>1, <4>2 DEF Plan
      <4> QED
        BY <3>2, <4>3
    <3> QED
      BY <1>13, <3>1, <3>2 DEF PatchEnds
  <2> QED
    BY <1>13, <2>1 DEF PatchEnds, linkVars, jobVars, autoVars
<1>14. ASSUME NEW v \in Vessels, NEW p \in Positions, VesselMoves(v, p) PROVE TypeOK'
  BY <1>14 DEF VesselMoves, linkVars, jobVars, autoVars
<1>15. ASSUME NEW m \in Edited, DeleteRequest(m) PROVE TypeOK'
  BY <1>15, UploadAssumption DEF DeleteRequest, Revoke, linkVars, jobVars, autoVars
<1>16. ASSUME NEW m \in Edited, DeleteEnds(m) PROVE TypeOK'
  BY <1>16 DEF DeleteEnds, linkVars, jobVars, autoVars
<1>17. ASSUME NEW m \in Edited, NEW s \in Statuses, SetStatus(m, s) PROVE TypeOK'
  BY <1>17 DEF SetStatus, linkVars, jobVars, autoVars
<1>18. CASE SetDroneGeofence
  BY <1>18 DEF SetDroneGeofence, linkVars, planVars, jobVars, autoVars
<1>19. ASSUME NEW a \in Autos, NEW m \in Missions \cup {None}, AutoRequest(a, m) PROVE TypeOK'
  BY <1>19 DEF AutoRequest, linkVars, planVars, jobVars
<1>20. ASSUME NEW a \in Autos, AutoChecked(a) PROVE TypeOK'
  BY <1>20 DEF AutoChecked, Answer, linkVars, planVars, jobVars
<1> QED
  BY <1>1, <1>2, <1>3, <1>4, <1>5, <1>6, <1>7, <1>8, <1>9, <1>10, <1>11, <1>12, <1>13,
     <1>14, <1>15, <1>16, <1>17, <1>18, <1>19, <1>20 DEF Next, JobStep

\* Connections are opened once, and a job keeps what it captured.
LEMMA WellFormedPreserved ==
    ASSUME TypeOK, JobsWellFormed, [Next]_vars
    PROVE  JobsWellFormed'
<1> USE DEF TypeOK, JobsWellFormed, boardVars
<1>0. UNCHANGED <<registered, opened, uploaded, jobVars, acked>> => JobsWellFormed'
  BY DEF jobVars
<1>1. CASE UNCHANGED vars
  BY <1>0, <1>1 DEF vars, linkVars
<1>2. ASSUME NEW l \in Links, LinkUp(l) PROVE JobsWellFormed'
  BY <1>2 DEF LinkUp, jobVars
<1>3. CASE LinkDown
  BY <1>3 DEF LinkDown, jobVars
<1>4. ASSUME NEW u \in Uploads, NEW m \in Missions, UploadRequest(u, m) PROVE JobsWellFormed'
  BY <1>4 DEF UploadRequest, linkVars, Jobs
<1>5. ASSUME NEW d \in Drafts, LiveSync(d) PROVE JobsWellFormed'
  <2>1. \A u \in Uploads : content'[u] = content[u] /\ phase'[u] = phase[u] /\ link'[u] = link[u]
    BY <1>5, UploadAssumption DEF LiveSync, Jobs
  <2>2. registered \in opened /\ registered \in Links
    BY <1>5 DEF LiveSync
  <2> QED
    BY <1>5, <2>1, <2>2 DEF LiveSync, Forget, linkVars
<1>6. ASSUME NEW u \in Uploads, UploadChecked(u) PROVE JobsWellFormed'
  <2>1. u \in Jobs
    BY DEF Jobs
  <2>2. CASE Returns(u)
    BY <1>6, <2>1, <2>2, ReturnsOnly DEF UploadChecked, linkVars, Jobs
  <2>3. CASE ~Returns(u)
    BY <1>6, <2>1, <2>3 DEF UploadChecked, linkVars, Jobs
  <2> QED
    BY <2>2, <2>3
<1>7. ASSUME NEW u \in Uploads, UploadQueued(u) PROVE JobsWellFormed'
  <2>1. u \in Jobs /\ link[u] \in opened /\ content[u] \in Plan
    BY <1>7 DEF Jobs, UploadQueued
  <2>2. CASE Returns(u) /\ UNCHANGED uploaded
    BY <1>7, <2>1, <2>2, ReturnsOnly DEF UploadQueued, linkVars, Jobs
  <2>3. CASE phase' = [phase EXCEPT ![u] = "queued"] /\ Forget(link[u]) /\ UNCHANGED link
    <3>1. TypeOK'
      BY <1>7, TypePreserved DEF Next, JobStep, Jobs
    <3>2. \A w \in Uploads \ {u} : content'[w] = content[w]
      BY <1>7, <2>1, <2>3 DEF UploadQueued, Jobs, Returns
    <3>3. content'[u] \in Plan
      <4>1. CASE content'[u] = content[u]
        BY <2>1, <4>1
      <4>2. CASE content[u].ship # None /\ position[content[u].ship] # None
                 /\ content' = [content EXCEPT ![u].home = position[content[u].ship]]
        <5>1. position[content[u].ship] \in Positions
          BY <2>1, <4>2 DEF Plan
        <5>2. [content[u] EXCEPT !.home = position[content[u].ship]] \in Plan
          BY <2>1, <5>1, MovedHome
        <5> QED
          BY <2>1, <4>2, <5>2
      <4>3. phase'[u] # "returned"
        BY <2>1, <2>3
      <4>4. ~Returns(u)
        BY <2>1, <4>3 DEF Returns
      <4> QED
        BY <1>7, <4>1, <4>2, <4>4 DEF UploadQueued
    <3> QED
      BY <1>7, <2>1, <2>3, <3>2, <3>3 DEF UploadQueued, Forget, linkVars, Jobs
  <2> QED
    BY <1>7, <2>2, <2>3 DEF UploadQueued
<1>8. ASSUME NEW j \in Jobs, TransferStarts(j) PROVE JobsWellFormed'
  BY <1>8 DEF TransferStarts, linkVars
<1>9. ASSUME NEW j \in Jobs, TransferEnds(j) PROVE JobsWellFormed'
  <2>1. /\ phase[j] = "transferring" /\ UNCHANGED <<linkVars, uploaded, content, link>>
        /\ \A k \in Jobs : phase'[k] = phase[k] \/ (k = j /\ phase'[k] \in {"stored", "failed"})
    BY <1>9 DEF TransferEnds, Stored
  <2>2. \A l \in Links : acked[l] \subseteq acked'[l]
    BY <1>9 DEF TransferEnds, Stored
  <2>3. phase'[j] = "stored" /\ j \in Uploads => content[j].mission \in acked'[link[j]]
    BY <1>9, <2>1, UploadAssumption DEF TransferEnds, Stored, Jobs
  <2>4. \A k \in Jobs : phase[k] = "stored" => link[k] \in Links
    OBVIOUS
  <2> QED
    BY <2>1, <2>2, <2>3, <2>4 DEF linkVars, Jobs
<1>10. ASSUME NEW j \in Jobs, JobResumes(j) PROVE JobsWellFormed'
  <2>1. \A l \in Links : l \notin opened => uploaded'[l] = None
    BY <1>10 DEF JobResumes
  <2>2. CASE Returns(j)
    BY <1>10, <2>1, <2>2, ReturnsOnly DEF JobResumes, linkVars, Jobs
  <2>3. CASE ~Returns(j)
    BY <1>10, <2>1, <2>3 DEF JobResumes, Resumed, linkVars, Jobs
  <2> QED
    BY <2>2, <2>3
<1>11. ASSUME NEW u \in Uploads, UploadEnds(u) PROVE JobsWellFormed'
  <2>1. u \in Jobs
    BY DEF Jobs
  <2>2. CASE Returns(u)
    BY <1>11, <2>1, <2>2, ReturnsOnly DEF UploadEnds, linkVars, Jobs
  <2>3. CASE ~Returns(u)
    BY <1>11, <2>1, <2>3 DEF UploadEnds, linkVars, Jobs
  <2> QED
    BY <2>2, <2>3
<1>12. ASSUME NEW m \in Edited, PatchRequest(m) \/ DeleteRequest(m) PROVE JobsWellFormed'
  BY <1>12 DEF PatchRequest, DeleteRequest, Revoke, linkVars, jobVars
<1>13. ASSUME NEW m \in Edited, PatchEnds(m) \/ DeleteEnds(m) PROVE JobsWellFormed'
  BY <1>0, <1>13 DEF PatchEnds, DeleteEnds, linkVars
<1>14. ASSUME NEW v \in Vessels, NEW p \in Positions, VesselMoves(v, p) PROVE JobsWellFormed'
  BY <1>0, <1>14 DEF VesselMoves, linkVars
<1>15. ASSUME NEW m \in Edited, NEW s \in Statuses, SetStatus(m, s) PROVE JobsWellFormed'
  BY <1>0, <1>15 DEF SetStatus, linkVars
<1>16. CASE SetDroneGeofence
  BY <1>0, <1>16 DEF SetDroneGeofence, linkVars
<1>17. ASSUME NEW a \in Autos, NEW m \in Missions \cup {None}, AutoRequest(a, m)
       PROVE  JobsWellFormed'
  BY <1>0, <1>17 DEF AutoRequest, linkVars
<1>18. ASSUME NEW a \in Autos, AutoChecked(a) PROVE JobsWellFormed'
  BY <1>0, <1>18 DEF AutoChecked, Answer, linkVars
<1> QED
  BY <1>1, <1>2, <1>3, <1>4, <1>5, <1>6, <1>7, <1>8, <1>9, <1>10, <1>11, <1>12, <1>13,
     <1>14, <1>15, <1>16, <1>17, <1>18 DEF Next, JobStep

\* Only a successful upload writes a mission into uploaded_mission_id, after its
\* connection acknowledged it, and acknowledgements are not taken back.
LEMMA AckedPreserved ==
    ASSUME TypeOK, JobsWellFormed, UploadedWasAcked, [Next]_vars
    PROVE  UploadedWasAcked'
<1> USE DEF TypeOK, boardVars
<1>1. /\ \A l \in Links : acked[l] \subseteq acked'[l]
      /\ \A l \in Links : uploaded'[l] # None => uploaded'[l] = uploaded[l]
      => UploadedWasAcked'
  BY DEF UploadedWasAcked
<1>2. CASE UNCHANGED vars
  BY <1>1, <1>2 DEF vars
<1>3. ASSUME NEW l \in Links, LinkUp(l) PROVE UploadedWasAcked'
  BY <1>1, <1>3 DEF LinkUp
<1>4. CASE LinkDown
  BY <1>1, <1>4 DEF LinkDown
<1>5. ASSUME NEW u \in Uploads, NEW m \in Missions, UploadRequest(u, m) PROVE UploadedWasAcked'
  BY <1>1, <1>5 DEF UploadRequest
<1>6. ASSUME NEW d \in Drafts, LiveSync(d) PROVE UploadedWasAcked'
  BY <1>1, <1>6 DEF LiveSync, Forget
<1>7. ASSUME NEW u \in Uploads, UploadChecked(u) \/ UploadQueued(u) \/ UploadEnds(u)
      PROVE  UploadedWasAcked'
  BY <1>1, <1>7 DEF UploadChecked, UploadQueued, UploadEnds, Forget
<1>8. ASSUME NEW j \in Jobs, TransferStarts(j) \/ TransferEnds(j) PROVE UploadedWasAcked'
  BY <1>1, <1>8 DEF TransferStarts, TransferEnds, Stored
<1>9. ASSUME NEW j \in Jobs, JobResumes(j) PROVE UploadedWasAcked'
  <2>1. CASE phase[j] = "stored" /\ j \in Uploads
    <3>1. /\ content[j].mission \in acked[link[j]] /\ link[j] \in Links /\ acked' = acked
          /\ uploaded' = [uploaded EXCEPT ![link[j]] = content[j].mission]
      BY <1>9, <2>1 DEF JobResumes, JobsWellFormed
    <3> QED
      BY <3>1 DEF UploadedWasAcked
  <2>2. CASE ~(phase[j] = "stored" /\ j \in Uploads)
    BY <1>1, <1>9, <2>2 DEF JobResumes
  <2> QED
    BY <2>1, <2>2
<1>10. ASSUME NEW m \in Edited, PatchRequest(m) \/ DeleteRequest(m) PROVE UploadedWasAcked'
  BY <1>1, <1>10 DEF PatchRequest, DeleteRequest, Revoke
<1>11. ASSUME NEW m \in Edited, PatchEnds(m) \/ DeleteEnds(m) PROVE UploadedWasAcked'
  BY <1>1, <1>11 DEF PatchEnds, DeleteEnds
<1>12. ASSUME NEW v \in Vessels, NEW p \in Positions, VesselMoves(v, p) PROVE UploadedWasAcked'
  BY <1>1, <1>12 DEF VesselMoves
<1>13. ASSUME NEW m \in Edited, NEW s \in Statuses, SetStatus(m, s) PROVE UploadedWasAcked'
  BY <1>1, <1>13 DEF SetStatus
<1>14. CASE SetDroneGeofence
  BY <1>1, <1>14 DEF SetDroneGeofence
<1>15. ASSUME NEW a \in Autos, NEW m \in Missions \cup {None}, AutoRequest(a, m)
       PROVE  UploadedWasAcked'
  BY <1>1, <1>15 DEF AutoRequest
<1>16. ASSUME NEW a \in Autos, AutoChecked(a) PROVE UploadedWasAcked'
  BY <1>1, <1>16 DEF AutoChecked, Answer
<1> QED
  BY <1>2, <1>3, <1>4, <1>5, <1>6, <1>7, <1>8, <1>9, <1>10, <1>11, <1>12, <1>13, <1>14,
     <1>15, <1>16 DEF Next, JobStep

LEMMA IInvPreserved == IInv /\ [Next]_vars => IInv'
  BY TypePreserved, WellFormedPreserved, AckedPreserved DEF IInv

\* In every interleaving, the state keeps its types.
THEOREM TypeCorrect == Spec => []TypeOK
<1>1. IInv => TypeOK
  BY DEF IInv
<1> QED
  BY InitIInv, IInvPreserved, <1>1, PTL DEF Spec

\* In every interleaving of uploads, live syncs, edits and reconnections,
\* uploaded_mission_id names a mission that an upload over that connection
\* transferred to its final MISSION_ACK.
THEOREM UploadAcked == Spec => []UploadedWasAcked
<1>1. IInv => UploadedWasAcked
  BY DEF IInv
<1> QED
  BY InitIInv, IInvPreserved, <1>1, PTL DEF Spec
-----------------------------------------------------------------------------
(* One request at a time.                                                  *)

LEMMA InitSInv == Init => SInv
<1> SUFFICES ASSUME Init PROVE SInv
  OBVIOUS
<1>1. \A j \in Jobs : phase[j] = "idle"
  BY DEF Init
<1>2. OneAtATime
  BY <1>1 DEF Init, OneAtATime, InFlight
<1>3. TransfersUnclaimed /\ CarriesSavedPlan
  BY <1>1 DEF TransfersUnclaimed, CarriesSavedPlan, InFlight, Jobs
<1>4. EditsRevoke /\ UploadedIsOnboard
  BY DEF Init, EditsRevoke, UploadedIsOnboard
<1>5. FenceFollows
  BY <1>1 DEF Init, FenceFollows, Jobs
<1> QED
  BY InitIInv, <1>2, <1>3, <1>4, <1>5 DEF SInv, Bookkeeping

\* A mission stays on board through a step that keeps what is on board, its plan,
\* and the uploads whose home waypoint is not committed.
LEMMA CarriesKept ==
    ASSUME NEW m, Carries(m), UNCHANGED onboard, plan'[m] = plan[m],
           \A u \in Uploads : phase[u] \in {"recorded", "unsaved"} =>
               phase'[u] \in {"recorded", "unsaved"} /\ content'[u] = content[u]
    PROVE  Carries(m)'
  BY DEF Carries

LEMMA OnboardKept ==
    ASSUME UploadedIsOnboard, UNCHANGED <<registered, onboard, plan>>,
           \A l \in Links : uploaded'[l] \in {uploaded[l], None},
           \A u \in Uploads : phase[u] \in {"recorded", "unsaved"} =>
               phase'[u] \in {"recorded", "unsaved"} /\ content'[u] = content[u]
    PROVE  UploadedIsOnboard'
<1>1. \A m : Carries(m) => Carries(m)'
  BY CarriesKept
<1> QED
  BY <1>1 DEF UploadedIsOnboard

\* A plan's fence fits on as long as the fence is not written, or an operator
\* writes it.
LEMMA FenceKept ==
    ASSUME fence' \in {fence, Operator}
    PROVE  \A p : FenceFits(p) => FenceFits(p)'
  BY DEF FenceFits

\* A step that leaves jobs, plans and uploads alone, and the fence too unless an
\* operator sets it, leaves the bookkeeping as it was.
LEMMA FramePreserves ==
    ASSUME SInv, fence' = Operator \/ UNCHANGED <<fence, astray>>, patching' \subseteq patching,
           UNCHANGED <<registered, uploaded, plan, phase, content, link, onboard>>
    PROVE  Bookkeeping'
<1> USE DEF SInv, Bookkeeping
<1>1. TransfersUnclaimed' /\ CarriesSavedPlan' /\ EditsRevoke'
  BY DEF TransfersUnclaimed, Unclaimed, CarriesSavedPlan, InFlight, EditsRevoke
<1>2. UploadedIsOnboard'
  BY OnboardKept
<1>3. FenceFollows'
  <2>1. \A p : FenceFits(p) => FenceFits(p)'
    BY FenceKept
  <2>2. CASE fence' = Operator
    BY <2>2 DEF FenceFollows, FenceFits
  <2>3. CASE UNCHANGED <<fence, astray>>
    BY <2>1, <2>3 DEF FenceFollows
  <2> QED
    BY <2>2, <2>3
<1> QED
  BY <1>1, <1>2, <1>3

\* A new connection has no upload recorded; without one nothing is claimed.
LEMMA LinkPreserves ==
    ASSUME SInv, IInv', LinkDown \/ \E l \in Links : LinkUp(l)
    PROVE  Bookkeeping'
<1> USE DEF SInv, Bookkeeping
<1>1. UNCHANGED <<uploaded, plan, patching, phase, content, link, onboard, fence>>
  BY DEF LinkUp, LinkDown, planVars, jobVars, boardVars, fenceVars
<1>2. \A l \in Links : l = registered' => uploaded[l] = None
  BY UploadAssumption DEF LinkUp, LinkDown, IInv, JobsWellFormed
<1>3. TransfersUnclaimed'
  BY <1>1, <1>2 DEF TransfersUnclaimed, Unclaimed
<1>4. CarriesSavedPlan'
  BY <1>1 DEF CarriesSavedPlan, InFlight
<1>5. EditsRevoke'
  BY <1>1, <1>2, UploadAssumption DEF EditsRevoke, IInv, TypeOK
<1>6. UploadedIsOnboard'
  BY <1>1, <1>2 DEF UploadedIsOnboard
<1>7. FenceFollows'
  BY <1>1, <1>2 DEF FenceFollows, FenceFits
<1> QED
  BY <1>3, <1>4, <1>5, <1>6, <1>7

\* Nothing else is in progress when an upload reads its plan.
LEMMA UploadRequestPreserves ==
    ASSUME SInv, IInv', NEW u \in Uploads, NEW m \in Missions, UploadRequest(u, m)
    PROVE  Bookkeeping'
<1> USE DEF SInv, Bookkeeping, UploadRequest
<1>1. /\ UNCHANGED <<registered, uploaded, plan, patching, link, onboard, fence, astray>>
      /\ phase[u] = "idle" /\ phase'[u] = "read" /\ content'[u] = plan[m]
      /\ \A j \in Jobs \ {u} : phase'[j] = phase[j] /\ content'[j] = content[j]
  BY DEF IInv, TypeOK, Jobs, linkVars, planVars, boardVars, fenceVars
<1>2. plan[m].mission = m
  BY DEF IInv, TypeOK
<1>3. TransfersUnclaimed'
  BY <1>1 DEF TransfersUnclaimed, Unclaimed
<1>4. CarriesSavedPlan'
  BY <1>1, <1>2 DEF CarriesSavedPlan, InFlight, Jobs
<1>5. EditsRevoke'
  BY <1>1 DEF EditsRevoke
<1>6. UploadedIsOnboard'
  BY <1>1, OnboardKept DEF Jobs
<1>7. FenceFollows'
  <2>1. \A v \in Uploads : phase[v] = "armed" => phase'[v] = "armed" /\ content'[v] = content[v]
    BY <1>1 DEF Jobs
  <2>2. \A v \in Uploads : phase'[v] \in {"armed", "queued", "transferring", "stored"} =>
          phase'[v] = phase[v] /\ content'[v] = content[v]
    BY <1>1 DEF Jobs
  <2>3. \A p : FenceFits(p) => FenceFits(p)'
    BY <1>1, FenceKept
  <2> QED
    BY <1>1, <2>1, <2>2, <2>3 DEF FenceFollows
<1> QED
  BY <1>3, <1>4, <1>5, <1>6, <1>7

\* set_geofence() arms the plan's own fence, clears it, or rejects the geometry.
LEMMA SetGeofenceFits ==
    ASSUME NEW p \in Plan, SetGeofence(p)
    PROVE  FenceFits(p)' /\ (p.shape = "rejected" => fence' = fence)
  BY UploadAssumption DEF SetGeofence, FenceFits, Plan

LEMMA UploadCheckedPreserves ==
    ASSUME SInv, IInv', NEW u \in Uploads, UploadChecked(u)
    PROVE  Bookkeeping'
<1> USE DEF SInv, Bookkeeping
<1>1. UNCHANGED <<registered, uploaded, plan, patching, onboard>> /\ phase[u] = "read" /\ u \in Jobs
  BY DEF UploadChecked, linkVars, planVars, boardVars, Jobs
<1>2. \A j \in Jobs \ {u} : ~InFlight(j)
  BY <1>1 DEF OneAtATime, InFlight
<1>3. /\ \A j \in Jobs \ {u} : phase'[j] = phase[j] /\ content'[j] = content[j] /\ link'[j] = link[j]
      /\ \/ phase'[u] = "returned" /\ UNCHANGED <<fence, astray>>
         \/ /\ phase'[u] = "armed" /\ content'[u] = content[u] /\ link'[u] = registered
            /\ SetGeofence(content[u])
            /\ astray' = (astray /\ content[u].shape = "rejected")
  <2>1. CASE Returns(u) /\ UNCHANGED fenceVars
    BY <1>1, <2>1, ReturnsOnly DEF IInv, fenceVars
  <2>2. CASE ~(Returns(u) /\ UNCHANGED fenceVars)
    BY <1>1, <2>2 DEF UploadChecked, IInv, TypeOK
  <2> QED
    BY <2>1, <2>2
<1>4. TransfersUnclaimed'
  BY <1>1, <1>2, <1>3 DEF TransfersUnclaimed, Unclaimed, InFlight
<1>5. CarriesSavedPlan'
  BY <1>1, <1>2, <1>3 DEF CarriesSavedPlan, InFlight, Jobs
<1>6. EditsRevoke'
  BY <1>1 DEF EditsRevoke
<1>7. UploadedIsOnboard'
  BY <1>1, <1>3, OnboardKept DEF Jobs
<1>8. FenceFollows'
  <2>1. \A v \in Uploads \ {u} : phase[v] \notin {"armed", "queued", "transferring", "stored"}
    BY <1>2 DEF InFlight, Jobs
  <2>2. CASE phase'[u] = "returned" /\ UNCHANGED <<fence, astray>>
    BY <1>1, <1>3, <2>1, <2>2 DEF FenceFollows, FenceFits, Jobs
  <2>3. CASE /\ phase'[u] = "armed" /\ content'[u] = content[u]
             /\ SetGeofence(content[u])
             /\ astray' = (astray /\ content[u].shape = "rejected")
    <3>1. content[u] \in Plan
      BY <1>1 DEF IInv, JobsWellFormed
    <3>2. FenceFits(content[u])' /\ (content[u].shape = "rejected" => fence' = fence)
      BY <2>3, <3>1, SetGeofenceFits
    <3>3. \A v \in Uploads : phase'[v] \in {"armed", "queued", "transferring", "stored"} =>
            FenceFits(content[v])'
      BY <1>1, <1>3, <2>1, <2>3, <3>2 DEF FenceFits, Jobs
    <3>4. CASE content[u].shape # "rejected"
      BY <2>3, <3>3, <3>4 DEF FenceFollows
    <3>5. CASE content[u].shape = "rejected"
      <4>1. UNCHANGED <<fence, astray>>
        BY <2>3, <3>2, <3>5 DEF IInv, TypeOK
      <4>2. \A p : FenceFits(p) => FenceFits(p)'
        BY <4>1, FenceKept
      <4>3. \A v \in Uploads : phase[v] # "armed"
        BY <1>1, <2>1
      <4> QED
        BY <1>1, <3>3, <4>1, <4>2, <4>3 DEF FenceFollows
    <3> QED
      BY <3>4, <3>5
  <2> QED
    BY <1>3, <2>2, <2>3
<1> QED
  BY <1>4, <1>5, <1>6, <1>7, <1>8

\* An upload refused for want of the vessel's position leaves the earlier upload on
\* record and its own fence armed: the fence has gone astray.
LEMMA HomelessPreserves ==
    ASSUME SInv, IInv', NEW u \in Uploads, phase[u] = "armed", Returns(u),
           astray' = (astray \/ content[u].shape # "rejected"),
           UNCHANGED <<registered, uploaded, plan, patching, onboard, fence>>
    PROVE  Bookkeeping'
<1> USE DEF SInv, Bookkeeping
<1>1. /\ u \in Jobs /\ phase'[u] = "returned"
      /\ \A j \in Jobs \ {u} : phase'[j] = phase[j] /\ content'[j] = content[j] /\ link'[j] = link[j]
  BY ReturnsOnly DEF IInv, Jobs
<1>2. \A j \in Jobs \ {u} : ~InFlight(j)
  BY <1>1 DEF OneAtATime, InFlight
<1>3. TransfersUnclaimed' /\ CarriesSavedPlan' /\ EditsRevoke'
  BY <1>1, <1>2 DEF TransfersUnclaimed, CarriesSavedPlan, EditsRevoke, InFlight, Jobs
<1>4. UploadedIsOnboard'
  BY <1>1, OnboardKept DEF Jobs
<1>5. FenceFollows'
  <2>1. \A v \in Uploads : phase[v] = "armed" => v = u
    BY <1>2 DEF InFlight, Jobs
  <2>2. \A v \in Uploads : phase'[v] \notin {"armed", "queued", "transferring", "stored"}
    BY <1>1, <1>2 DEF InFlight, Jobs
  <2>3. \A p : FenceFits(p) => FenceFits(p)'
    BY FenceKept
  <2> QED
    BY <2>1, <2>2, <2>3 DEF FenceFollows
<1> QED
  BY <1>3, <1>4, <1>5

\* Handing over to a thread: the captured connection forgets its upload; if the
\* drone was reconnected meanwhile, the new connection has none.
LEMMA HandOverPreserves ==
    ASSUME SInv, IInv', NEW u \in Uploads, phase[u] = "armed",
           content[u].ship # None => position[content[u].ship] # None,
           phase' = [phase EXCEPT ![u] = "queued"],
           content' = IF content[u].ship = None THEN content
                      ELSE [content EXCEPT ![u].home = position[content[u].ship]],
           Forget(link[u]),
           UNCHANGED <<registered, plan, patching, link, onboard, fence, astray>>
    PROVE  Bookkeeping'
<1> USE DEF SInv, Bookkeeping
<1>1. /\ u \in Jobs /\ link[u] \in Links /\ phase'[u] = "queued"
      /\ uploaded' = [uploaded EXCEPT ![link[u]] = None]
      /\ \A j \in Jobs \ {u} : phase'[j] = phase[j] /\ content'[j] = content[j]
  BY DEF Forget, IInv, TypeOK, Jobs, JobsWellFormed
<1>2. \A j \in Jobs \ {u} : ~InFlight(j)
  BY <1>1 DEF OneAtATime, InFlight
<1>3. \A l \in Links : l = registered => uploaded'[l] = None
  BY <1>1 DEF TransfersUnclaimed, Unclaimed, IInv, TypeOK
<1>4. TransfersUnclaimed'
  BY <1>1, <1>2, <1>3 DEF TransfersUnclaimed, Unclaimed, InFlight, IInv, TypeOK
<1>5. /\ content[u] \in Plan /\ plan[content[u].mission] \in Plan
      /\ \/ content[u] = plan[content[u].mission]
         \/ content[u] = [plan[content[u].mission] EXCEPT !.home = content[u].home]
  BY <1>1 DEF CarriesSavedPlan, InFlight, IInv, TypeOK, JobsWellFormed, Plan
<1>6. content[u].ship # None =>
        /\ position[content[u].ship] \in Positions
        /\ content'[u] = [content[u] EXCEPT !.home = position[content[u].ship]]
  BY <1>1, <1>5 DEF IInv, TypeOK, Plan
<1>7. content[u].ship = None => content'[u] = content[u]
  OBVIOUS
<1>8. /\ content'[u].mission = content[u].mission /\ content'[u].rev = content[u].rev
      /\ content'[u].shape = content[u].shape
  BY <1>5, <1>6, <1>7, MovedHome
<1>9. \/ content'[u] = plan[content'[u].mission]
      \/ /\ content'[u].ship # None
         /\ content'[u] = [plan[content'[u].mission] EXCEPT !.home = content'[u].home]
  <2>1. CASE content[u].ship = None
    BY <1>1, <1>7, <2>1 DEF CarriesSavedPlan, InFlight
  <2>2. CASE content[u].ship # None
    <3>1. [content[u] EXCEPT !.home = position[content[u].ship]]
            = [plan[content[u].mission] EXCEPT !.home = position[content[u].ship]]
      BY <1>5, <1>6, <2>2, SameButHome
    <3>2. /\ content'[u].ship = content[u].ship
          /\ content'[u].home = position[content[u].ship]
      BY <1>5, <1>6, <2>2 DEF Plan
    <3> QED
      BY <1>6, <1>8, <2>2, <3>1, <3>2
  <2> QED
    BY <2>1, <2>2
<1>10. CarriesSavedPlan'
  BY <1>1, <1>2, <1>9 DEF CarriesSavedPlan, InFlight, Jobs
<1>11. EditsRevoke' /\ UploadedIsOnboard'
  BY <1>1, <1>3, UploadAssumption DEF EditsRevoke, UploadedIsOnboard, IInv, TypeOK
<1>12. FenceFollows'
  <2>1. FenceFits(content[u])
    BY DEF FenceFollows
  <2>2. FenceFits(content[u])'
    BY <1>8, <2>1 DEF FenceFits, FenceOf
  <2>3. \A v \in Uploads \ {u} : phase'[v] \notin {"armed", "queued", "transferring", "stored"}
    BY <1>1, <1>2 DEF InFlight, Jobs
  <2> QED
    BY <1>3, <2>2, <2>3 DEF FenceFollows
<1> QED
  BY <1>4, <1>10, <1>11, <1>12

LEMMA UploadQueuedPreserves ==
    ASSUME SInv, IInv', NEW u \in Uploads, UploadQueued(u)
    PROVE  Bookkeeping'
  BY HomelessPreserves, HandOverPreserves
  DEF UploadQueued, linkVars, planVars, boardVars

LEMMA LiveSyncPreserves ==
    ASSUME SInv, IInv', OneAtATime', NEW d \in Drafts, LiveSync(d)
    PROVE  Bookkeeping'
<1> USE DEF SInv, Bookkeeping
<1>1. /\ UNCHANGED <<registered, plan, patching, onboard, fence, astray>>
      /\ registered \in Links /\ phase'[d] = "queued" /\ link'[d] = registered
      /\ uploaded' = [uploaded EXCEPT ![registered] = None]
      /\ \A j \in Jobs \ {d} : phase'[j] = phase[j] /\ content'[j] = content[j] /\ link'[j] = link[j]
      /\ d \in Jobs /\ d \notin Uploads
  BY UploadAssumption DEF LiveSync, Forget, IInv, TypeOK, Jobs, linkVars, planVars, boardVars,
     fenceVars
<1>2. \A j \in Jobs \ {d} : ~InFlight(j)
  BY <1>1 DEF OneAtATime, InFlight
<1>3. \A l \in Links : l = registered => uploaded'[l] = None
  BY <1>1 DEF IInv, TypeOK
<1>4. TransfersUnclaimed'
  BY <1>1, <1>2, <1>3 DEF TransfersUnclaimed, Unclaimed, InFlight
<1>5. CarriesSavedPlan'
  BY <1>1, <1>2 DEF CarriesSavedPlan, InFlight, Jobs
<1>6. EditsRevoke' /\ UploadedIsOnboard'
  BY <1>1, <1>3, UploadAssumption DEF EditsRevoke, UploadedIsOnboard, IInv, TypeOK
<1>7. FenceFollows'
  <2>1. \A v \in Uploads : phase'[v] \notin {"armed", "queued", "transferring", "stored"}
    BY <1>1, <1>2 DEF InFlight, Jobs
  <2> QED
    BY <1>1, <1>3, <2>1 DEF FenceFollows
<1> QED
  BY <1>4, <1>5, <1>6, <1>7

\* While a transfer changes what is on board, the registered connection claims
\* nothing.
LEMMA TransferPreserves ==
    ASSUME SInv, IInv', NEW j \in Jobs, TransferStarts(j) \/ TransferEnds(j)
    PROVE  Bookkeeping'
<1> USE DEF SInv, Bookkeeping
<1>1. /\ UNCHANGED <<registered, uploaded, plan, patching, content, link, fence, astray>>
      /\ phase[j] \in {"queued", "transferring"}
      /\ phase'[j] \in {"transferring", "stored", "failed"}
      /\ \A k \in Jobs \ {j} : phase'[k] = phase[k]
  BY DEF TransferStarts, TransferEnds, Stored, IInv, TypeOK, linkVars, planVars, boardVars,
     fenceVars
<1>2. \A k \in Jobs \ {j} : ~InFlight(k)
  BY <1>1 DEF OneAtATime, InFlight
<1>3. Unclaimed(link[j]) /\ Unclaimed(registered)
  BY <1>1 DEF TransfersUnclaimed
<1>4. TransfersUnclaimed'
  BY <1>1, <1>2, <1>3 DEF TransfersUnclaimed, Unclaimed, InFlight
<1>5. CarriesSavedPlan'
  <2>1. phase'[j] = "stored" => onboard' = content[j]
    BY <1>1 DEF TransferStarts, TransferEnds, Stored, IInv, TypeOK
  <2>2. \A k \in Jobs \ {j} : phase'[k] \notin {"stored", "recorded"}
    BY <1>1, <1>2 DEF InFlight
  <2> QED
    BY <1>1, <2>1, <2>2 DEF CarriesSavedPlan, InFlight, Jobs
<1>6. EditsRevoke' /\ UploadedIsOnboard'
  BY <1>1, <1>3 DEF EditsRevoke, UploadedIsOnboard, Unclaimed
<1>7. FenceFollows'
  BY <1>1, <1>3 DEF FenceFollows, FenceFits, Unclaimed, Jobs
<1> QED
  BY <1>4, <1>5, <1>6, <1>7

\* A successful upload records its mission: nobody edited it since it was read,
\* it is on board, and the fence fits it.
LEMMA JobResumesPreserves ==
    ASSUME SInv, IInv', OneAtATime', NEW j \in Jobs, JobResumes(j)
    PROVE  Bookkeeping'
<1> USE DEF SInv, Bookkeeping
<1>1. /\ UNCHANGED <<registered, plan, patching, onboard, fence, astray>>
      /\ phase[j] \in {"stored", "failed"} /\ link[j] \in Links
  BY DEF JobResumes, IInv, TypeOK, JobsWellFormed, linkVars, planVars, boardVars, fenceVars
<1>2. /\ \A k \in Jobs \ {j} : phase'[k] = phase[k] /\ content'[k] = content[k]
      /\ \/ phase'[j] = "returned" /\ ~(j \in Uploads /\ phase[j] = "stored")
         \/ phase'[j] = "recorded" /\ j \in Uploads /\ phase[j] = "stored" /\ content' = content
  <2>1. CASE j \in Uploads /\ phase[j] = "stored"
    BY <2>1 DEF JobResumes, Resumed, IInv, TypeOK
  <2>2. CASE ~(j \in Uploads /\ phase[j] = "stored")
    <3>1. Returns(j)
      BY <2>2 DEF JobResumes, Resumed
    <3> QED
      BY <2>2, <3>1, ReturnsOnly DEF IInv
  <2> QED
    BY <2>1, <2>2
<1>3. \A k \in Jobs \ {j} : ~InFlight(k)
  BY <1>1 DEF OneAtATime, InFlight
<1>4. patching = {}
  BY <1>1 DEF OneAtATime, InFlight
<1>5. Unclaimed(link[j]) /\ Unclaimed(registered)
  BY <1>1 DEF TransfersUnclaimed
<1>6. \/ \A l \in Links : l = registered => uploaded'[l] = None
      \/ /\ phase[j] = "stored" /\ j \in Uploads
         /\ uploaded' = [uploaded EXCEPT ![link[j]] = content[j].mission]
  BY <1>1, <1>5 DEF JobResumes, IInv, TypeOK, Unclaimed
<1>7. \A k \in Jobs : phase'[k] \notin {"read", "armed", "queued", "transferring", "stored", "failed"}
  BY <1>2, <1>3 DEF InFlight
<1>8. TransfersUnclaimed'
  BY <1>7 DEF TransfersUnclaimed
<1>9. CarriesSavedPlan'
  BY <1>1, <1>2, <1>3 DEF CarriesSavedPlan, InFlight, Jobs
<1>10. EditsRevoke'
  BY <1>1, <1>4 DEF EditsRevoke
<1>11. ASSUME NEW l \in Links, l = registered, uploaded'[l] # None
       PROVE  Carries(uploaded[l])' /\ FenceFits(plan[uploaded[l]])'
  <2>1. /\ phase[j] = "stored" /\ j \in Uploads
        /\ uploaded' = [uploaded EXCEPT ![link[j]] = content[j].mission]
    BY <1>6, <1>11
  <2>2. uploaded'[l] = content[j].mission
    BY <1>5, <1>11, <2>1 DEF IInv, TypeOK, Unclaimed
  <2>3. phase'[j] = "recorded" /\ content'[j] = content[j] /\ onboard = content[j]
    BY <1>2, <2>1 DEF CarriesSavedPlan
  <2>4. FenceFits(content[j])
    BY <2>1 DEF FenceFollows
  <2>5. /\ content[j] \in Plan /\ plan[content[j].mission] \in Plan
        /\ \/ content[j] = plan[content[j].mission]
           \/ /\ content[j].ship # None
              /\ content[j] = [plan[content[j].mission] EXCEPT !.home = content[j].home]
    BY <2>1 DEF CarriesSavedPlan, InFlight, IInv, TypeOK, JobsWellFormed, Plan
  <2>6. Carries(uploaded[l])'
    BY <1>1, <2>1, <2>2, <2>3, <2>5 DEF Carries
  <2>7. /\ plan[content[j].mission].shape = content[j].shape
        /\ plan[content[j].mission].mission = content[j].mission
        /\ plan[content[j].mission].rev = content[j].rev
    BY <2>5, SameButHome
  <2>8. FenceFits(plan[uploaded[l]])'
    BY <1>1, <2>2, <2>4, <2>7 DEF FenceFits, FenceOf
  <2> QED
    BY <2>6, <2>8
<1>12. UploadedIsOnboard'
  BY <1>1, <1>11 DEF UploadedIsOnboard
<1>13. FenceFollows'
  BY <1>1, <1>7, <1>11 DEF FenceFollows, Jobs
<1> QED
  BY <1>8, <1>9, <1>10, <1>12, <1>13

\* When an upload's transaction ends, the home waypoint it sent becomes the saved
\* one, or the upload remains as one that was not saved.
LEMMA UploadEndsPreserves ==
    ASSUME SInv, IInv', NEW u \in Uploads, UploadEnds(u)
    PROVE  Bookkeeping'
<1> USE DEF SInv, Bookkeeping
<1>1. /\ UNCHANGED <<registered, uploaded, patching, onboard, fence, astray>>
      /\ phase[u] = "recorded" /\ u \in Jobs
  BY DEF UploadEnds, Jobs, linkVars, boardVars, fenceVars
<1>2. \A j \in Jobs \ {u} : ~InFlight(j)
  BY <1>1 DEF OneAtATime, InFlight
<1>3. /\ content[u] \in Plan /\ plan[content[u].mission] \in Plan
      /\ content[u].mission \in Missions
      /\ onboard = content[u]
      /\ \/ content[u] = plan[content[u].mission]
         \/ /\ content[u].ship # None
            /\ content[u] = [plan[content[u].mission] EXCEPT !.home = content[u].home]
  BY <1>1 DEF CarriesSavedPlan, InFlight, IInv, TypeOK, JobsWellFormed, Plan
<1>4. /\ \A j \in Jobs \ {u} : phase'[j] = phase[j] /\ content'[j] = content[j]
      /\ \/ phase'[u] = "unsaved" /\ UNCHANGED <<plan, content>>
         \/ /\ phase'[u] = "returned"
            /\ plan' = IF content[u].ship = None THEN plan
                       ELSE [plan EXCEPT ![content[u].mission].home = content[u].home]
  <2>1. CASE Returns(u)
    BY <1>1, <2>1, ReturnsOnly DEF UploadEnds, IInv, TypeOK
  <2>2. CASE ~Returns(u)
    BY <1>1, <2>2 DEF UploadEnds, IInv, TypeOK
  <2> QED
    BY <2>1, <2>2
<1>5. /\ \A m \in Missions \ {content[u].mission} : plan'[m] = plan[m]
      /\ phase'[u] = "returned" => plan'[content[u].mission] = content[u]
      /\ \A m \in Missions : /\ plan'[m].mission = plan[m].mission
                             /\ plan'[m].rev = plan[m].rev
                             /\ plan'[m].shape = plan[m].shape
  <2>1. CASE UNCHANGED plan
    BY <1>3, <1>4, <2>1 DEF IInv, TypeOK
  <2>2. CASE content[u].ship # None
             /\ plan' = [plan EXCEPT ![content[u].mission].home = content[u].home]
    <3>1. plan'[content[u].mission] = [plan[content[u].mission] EXCEPT !.home = content[u].home]
      BY <1>3, <2>2 DEF IInv, TypeOK
    <3>2. [plan[content[u].mission] EXCEPT !.home = content[u].home] = content[u]
      BY <1>3, SameButHome
    <3>3. /\ plan[content[u].mission].mission = content[u].mission
          /\ plan[content[u].mission].rev = content[u].rev
          /\ plan[content[u].mission].shape = content[u].shape
      BY <1>3, SameButHome
    <3>4. \A m \in Missions \ {content[u].mission} : plan'[m] = plan[m]
      BY <2>2 DEF IInv, TypeOK
    <3> QED
      BY <3>1, <3>2, <3>3, <3>4
  <2> QED
    BY <1>4, <2>1, <2>2
<1>6. \A k \in Jobs : phase'[k] \notin {"read", "armed", "queued", "transferring", "stored",
                                      "failed", "recorded"}
  BY <1>2, <1>4 DEF InFlight
<1>7. TransfersUnclaimed' /\ CarriesSavedPlan' /\ EditsRevoke'
  BY <1>1, <1>6 DEF TransfersUnclaimed, CarriesSavedPlan, EditsRevoke, InFlight, Jobs
<1>8. ASSUME NEW m \in Missions, Carries(m) PROVE Carries(m)'
  <2>1. CASE phase'[u] = "unsaved"
    BY <1>1, <1>4, <1>8, <2>1, CarriesKept DEF Jobs
  <2>2. CASE phase'[u] = "returned" /\ m = content[u].mission
    BY <1>1, <1>3, <1>5, <2>2 DEF Carries
  <2>3. CASE phase'[u] = "returned" /\ m # content[u].mission
    <3>1. content[u] # [plan[m] EXCEPT !.home = content[u].home] /\ content[u] # plan[m]
      BY <1>3, <2>3, MovedHome DEF IInv, TypeOK, Plan
    <3>2. onboard # plan[m]
      BY <1>3, <3>1
    <3>3. PICK v \in Uploads : /\ phase[v] \in {"recorded", "unsaved"} /\ content[v].ship # None
                               /\ onboard = content[v]
                               /\ onboard = [plan[m] EXCEPT !.home = content[v].home]
      BY <1>8, <3>2 DEF Carries
    <3>4. content[v] = content[u]
      BY <1>3, <3>3
    <3> QED
      BY <3>1, <3>3, <3>4
  <2> QED
    BY <1>4, <2>1, <2>2, <2>3
<1>9. UploadedIsOnboard'
  BY <1>1, <1>8 DEF UploadedIsOnboard, IInv, TypeOK
<1>10. FenceFollows'
  <2>1. \A m \in Missions : FenceFits(plan[m]) => FenceFits(plan[m])'
    BY <1>1, <1>5 DEF FenceFits, FenceOf
  <2>2. \A v \in Uploads : phase[v] # "armed"
    BY <1>1, <1>2 DEF InFlight, Jobs
  <2>3. \A v \in Uploads : phase'[v] \notin {"armed", "queued", "transferring", "stored"}
    BY <1>6 DEF Jobs
  <2> QED
    BY <1>1, <2>1, <2>2, <2>3 DEF FenceFollows, IInv, TypeOK
<1> QED
  BY <1>7, <1>9, <1>10

\* An edit or a deletion first revokes the mission's upload.
LEMMA RevokePreserves ==
    ASSUME SInv, IInv', OneAtATime', NEW m \in Edited, PatchRequest(m) \/ DeleteRequest(m)
    PROVE  Bookkeeping'
<1> USE DEF SInv, Bookkeeping
<1>1. /\ UNCHANGED <<registered, plan, phase, content, link, onboard, fence, astray>>
      /\ patching' \subseteq patching \cup {m}
  BY DEF PatchRequest, DeleteRequest, linkVars, jobVars, boardVars, fenceVars
<1>2. /\ \A l \in Links : uploaded'[l] \in {uploaded[l], None}
      /\ \A l \in Links : l = registered => uploaded'[l] # m
  BY UploadAssumption DEF PatchRequest, DeleteRequest, Revoke
<1>3. TransfersUnclaimed' /\ CarriesSavedPlan'
  BY <1>1, <1>2 DEF TransfersUnclaimed, Unclaimed, CarriesSavedPlan, InFlight
<1>4. EditsRevoke'
  BY <1>1, <1>2, UploadAssumption DEF EditsRevoke, IInv, TypeOK
<1>5. UploadedIsOnboard'
  BY <1>1, <1>2, OnboardKept
<1>6. FenceFollows'
  <2>1. \A p : FenceFits(p) => FenceFits(p)'
    BY <1>1, FenceKept
  <2> QED
    BY <1>1, <1>2, <2>1 DEF FenceFollows
<1> QED
  BY <1>3, <1>4, <1>5, <1>6

\* A committed edit changes a plan that is neither uploaded nor in progress.
LEMMA PatchEndsPreserves ==
    ASSUME SInv, IInv', OneAtATime', NEW m \in Edited, PatchEnds(m)
    PROVE  Bookkeeping'
<1> USE DEF SInv, Bookkeeping
<1>1. /\ UNCHANGED <<registered, uploaded, phase, content, link, onboard, fence, astray>>
      /\ m \in patching /\ patching' \subseteq patching
      /\ \A n \in Missions \ {m} : plan'[n] = plan[n]
  BY DEF PatchEnds, IInv, TypeOK, linkVars, jobVars, boardVars, fenceVars
<1>2. \A j \in Jobs : ~InFlight(j)
  BY <1>1 DEF OneAtATime
<1>3. \A l \in Links : l = registered /\ uploaded[l] # None => uploaded[l] \in Missions \ {m}
  BY <1>1 DEF EditsRevoke, IInv, TypeOK
<1>4. TransfersUnclaimed' /\ EditsRevoke'
  BY <1>1 DEF TransfersUnclaimed, Unclaimed, EditsRevoke
<1>5. CarriesSavedPlan'
  BY <1>1, <1>2 DEF CarriesSavedPlan, InFlight, Jobs
<1>6. UploadedIsOnboard'
  <2>1. \A n \in Missions \ {m} : Carries(n) => Carries(n)'
    BY <1>1, CarriesKept
  <2> QED
    BY <1>1, <1>3, <2>1 DEF UploadedIsOnboard
<1>7. FenceFollows'
  <2>1. \A p : FenceFits(p) => FenceFits(p)'
    BY <1>1, FenceKept
  <2>2. \A v \in Uploads : phase[v] \notin {"armed", "queued", "transferring", "stored"}
    BY <1>2 DEF InFlight, Jobs
  <2>3. \A n \in Missions \ {m} : FenceFits(plan[n]) => FenceFits(plan[n])'
    BY <1>1, <2>1 DEF FenceFits
  <2> QED
    BY <1>1, <1>3, <2>2, <2>3 DEF FenceFollows
<1> QED
  BY <1>4, <1>5, <1>6, <1>7

LEMMA SInvPreserved == SInv /\ [Next /\ OneAtATime']_vars => SInv'
<1> SUFFICES ASSUME SInv, [Next /\ OneAtATime']_vars PROVE SInv'
  OBVIOUS
<1>1. IInv'
  BY IInvPreserved DEF SInv
<1>2. OneAtATime'
  BY DEF SInv, OneAtATime, InFlight, vars, jobVars, planVars
<1>3. Bookkeeping'
  <2> USE DEF linkVars, planVars, jobVars, boardVars, fenceVars
  <2>1. CASE UNCHANGED vars
    BY <2>1, FramePreserves DEF vars
  <2>2. ASSUME NEW m \in Edited, NEW s \in Statuses, SetStatus(m, s) PROVE Bookkeeping'
    BY <2>2, FramePreserves DEF SetStatus
  <2>3. ASSUME NEW m \in Edited, DeleteEnds(m) PROVE Bookkeeping'
    BY <2>3, FramePreserves DEF DeleteEnds
  <2>4. ASSUME NEW v \in Vessels, NEW p \in Positions, VesselMoves(v, p) PROVE Bookkeeping'
    BY <2>4, FramePreserves DEF VesselMoves
  <2>5. CASE SetDroneGeofence
    BY <2>5, FramePreserves DEF SetDroneGeofence
  <2>6. ASSUME NEW a \in Autos, NEW m \in Missions \cup {None}, AutoRequest(a, m)
        PROVE  Bookkeeping'
    BY <2>6, FramePreserves DEF AutoRequest
  <2>7. ASSUME NEW a \in Autos, AutoChecked(a) PROVE Bookkeeping'
    BY <2>7, FramePreserves DEF AutoChecked, Answer
  <2> QED
    BY <1>1, <1>2, <2>1, <2>2, <2>3, <2>4, <2>5, <2>6, <2>7, LinkPreserves,
       UploadRequestPreserves, UploadCheckedPreserves, UploadQueuedPreserves, LiveSyncPreserves,
       TransferPreserves, JobResumesPreserves, UploadEndsPreserves, RevokePreserves,
       PatchEndsPreserves DEF Next, JobStep
<1> QED
  BY <1>1, <1>2, <1>3 DEF SInv

THEOREM SequentialInvariant == SequentialSpec => []SInv
  BY InitSInv, SInvPreserved, PTL DEF SequentialSpec

\* With one request at a time, the mission the station would authorise AUTO for is
\* on board in its saved revision.
THEOREM UploadTruthful == SequentialSpec => []UploadedIsOnboard
<1>1. SInv => UploadedIsOnboard
  BY DEF SInv, Bookkeeping
<1> QED
  BY SequentialInvariant, <1>1, PTL

\* With one request at a time, the armed geofence is the uploaded mission's, unless
\* the operator set one since, its geometry was rejected, or the last upload to write
\* the fence was refused after that for want of its vessel's position.
THEOREM FenceTruthful == SequentialSpec => []FenceIsUploaded
<1>1. SInv => FenceIsUploaded
  <2> SUFFICES ASSUME SInv PROVE FenceIsUploaded
    OBVIOUS
  <2>1. \A j \in Jobs : ~InFlight(j) => phase[j] # "armed"
    BY DEF InFlight
  <2> QED
    BY <2>1 DEF SInv, Bookkeeping, FenceFollows, FenceIsUploaded, Jobs
<1> QED
  BY SequentialInvariant, <1>1, PTL

-----------------------------------------------------------------------------
(* What AUTO is authorised for *)

\* A request for AUTO that reads the database reads a mission, for a connection.
ReadsAMission ==
    \A a \in Autos : auto[a] = "reading" => asked[a] \in Missions /\ autoLink[a] \in Links

\* Only the handlers of the AUTO requests change them.
LEMMA OtherSteps ==
    ASSUME Next,
           \A a \in Autos, m \in Missions \cup {None} : ~AutoRequest(a, m),
           \A a \in Autos : ~AutoChecked(a)
    PROVE  UNCHANGED autoVars
<1>1. (\/ \E l \in Links : LinkUp(l)
       \/ LinkDown
       \/ \E u \in Uploads, m \in Missions : UploadRequest(u, m)
       \/ \E d \in Drafts : LiveSync(d)) => UNCHANGED autoVars
  BY DEF LinkUp, LinkDown, UploadRequest, LiveSync, autoVars
<1>2. (\E j \in Jobs : JobStep(j)) => UNCHANGED autoVars
  BY DEF JobStep, UploadChecked, UploadQueued, UploadEnds, TransferStarts, TransferEnds,
     JobResumes, autoVars
<1>3. (\/ \E m \in Edited : PatchRequest(m) \/ PatchEnds(m) \/ DeleteRequest(m) \/ DeleteEnds(m)
       \/ \E v \in Vessels, p \in Positions : VesselMoves(v, p)
       \/ \E m \in Edited, s \in Statuses : SetStatus(m, s)
       \/ SetDroneGeofence) => UNCHANGED autoVars
  BY DEF PatchRequest, PatchEnds, VesselMoves, DeleteRequest, DeleteEnds, SetStatus,
     SetDroneGeofence, autoVars
<1> QED
  BY <1>1, <1>2, <1>3 DEF Next

LEMMA ReadsAMissionPreserved ==
    ASSUME TypeOK, ReadsAMission, [Next]_vars
    PROVE  ReadsAMission'
<1> USE DEF TypeOK, ReadsAMission
<1>1. UNCHANGED autoVars => ReadsAMission'
  BY DEF autoVars
<1>2. ASSUME NEW a \in Autos, NEW m \in Missions \cup {None}, AutoRequest(a, m)
      PROVE  ReadsAMission'
  BY <1>2 DEF AutoRequest
<1>3. ASSUME NEW a \in Autos, AutoChecked(a) PROVE ReadsAMission'
  BY <1>3 DEF AutoChecked, Answer
<1>4. UNCHANGED vars => UNCHANGED autoVars
  BY DEF vars, autoVars
<1> QED
  BY <1>1, <1>2, <1>3, <1>4, OtherSteps

\* With one request at a time, a switch to AUTO that is authorised for a saved mission
\* flies that mission's saved revision, if the link it was checked for is still the
\* drone's: although the check runs against a connection captured before the read.
THEOREM AutoTruthful == SequentialSpec => AutoFliesAskedPlan
<1>1. Init => ReadsAMission
  BY DEF Init, ReadsAMission
<1>2. SInv /\ ReadsAMission /\ [Next /\ OneAtATime']_vars => ReadsAMission'
  BY ReadsAMissionPreserved DEF SInv, IInv
<1>3. ASSUME SInv, ReadsAMission, Next,
             NEW a \in Autos, auto[a] = "reading", auto'[a] = "authorised", autoLink[a] = registered
      PROVE  Carries(asked[a])
  <2>1. asked[a] \in Missions /\ auto \in [Autos -> {"idle", "reading", "authorised"}]
    BY <1>3 DEF ReadsAMission, SInv, IInv, TypeOK
  <2>2. AutoChecked(a)
    <3>1. \A b \in Autos, m \in Missions \cup {None} : AutoRequest(b, m) => auto'[a] = auto[a]
      BY <1>3, <2>1 DEF AutoRequest
    <3>2. \A b \in Autos \ {a} : AutoChecked(b) => auto'[a] = auto[a]
      BY <1>3, <2>1 DEF AutoChecked, Answer
    <3>3. UNCHANGED autoVars => auto'[a] = auto[a]
      BY DEF autoVars
    <3> QED
      BY <1>3, <3>1, <3>2, <3>3, OtherSteps
  <2>3. uploaded[autoLink[a]] = asked[a]
    BY <1>3, <2>1, <2>2 DEF AutoChecked, Answer
  <2>4. autoLink[a] \in Links
    BY <1>3 DEF ReadsAMission
  <2> QED
    BY <1>3, <2>1, <2>3, <2>4, UploadAssumption DEF SInv, Bookkeeping, UploadedIsOnboard
<1>4. SInv /\ ReadsAMission /\ [Next /\ OneAtATime']_vars
        => [\A a \in Autos :
              auto[a] = "reading" /\ auto'[a] = "authorised" /\ autoLink[a] = registered
                => Carries(asked[a])]_vars
  BY <1>3
<1> QED
  BY SequentialInvariant, <1>1, <1>2, <1>4, PTL DEF SequentialSpec, AutoFliesAskedPlan
=============================================================================
