------------------------------ MODULE VesselFeed ------------------------------
(***************************************************************************)
(* The position of the vessel, from the NMEA datagrams of core/hf_feed.py  *)
(* to the home points of the connected drones (state_manager.py,           *)
(* home_point_updater).  Every datagram is ingested by a task of its own,  *)
(* suspended in Redis twice: it reads the last position and, if the move   *)
(* from there is possible, replaces it.  Positions are places on a line.   *)
(***************************************************************************)
EXTENDS Integers

CONSTANTS Places, MaxSpeed,  \* hf_feed_max_speed_ms
          Ttl,       \* POSITION_TTL_SECONDS
          Poll,      \* HOME_POLL_INTERVAL_S
          MaxBurst,  \* hf_feed_max_msgs_per_sec
          Ingests,   \* bound: ingest tasks at a time
          MaxDelay,  \* bound: seconds an ingest task spends in Redis
          HomeDrones, Nowhere

ASSUME FeedAssumption == /\ Places \subseteq Nat /\ MaxSpeed \in Nat \ {0} /\ Ttl \in Nat \ {0}
                         /\ Poll \in Nat /\ MaxBurst \in Nat \ {0} /\ MaxDelay \in Nat

VARIABLES anchored,  \* environment: where the vessel lies from now on, Nowhere while under way
          fix,       \* vessel:position: place, seconds since its ts, seconds until it expires
          ingests,   \* each ingest task
          burst,     \* datagrams taken in this second
          updaters,  \* each drone's home_point_updater: its place in the loop, the position it read
          home       \* each drone's home point

feedvars == <<anchored, fix, ingests, burst, updaters, home>>

NoFix == [pos |-> Nowhere, age |-> 0, left |-> 0]
NoIngest == [at |-> "idle", pos |-> Nowhere, age |-> 0]
Off == [at |-> "off", pos |-> Nowhere, wait |-> 0]
Asleep == [at |-> "sleeps", pos |-> Nowhere, wait |-> Poll]

FeedInit == /\ anchored = Nowhere /\ fix = NoFix /\ burst = 0
            /\ ingests = [t \in Ingests |-> NoIngest]
            /\ updaters = [d \in HomeDrones |-> Off]
            /\ home = [d \in HomeDrones |-> Nowhere]

-----------------------------------------------------------------------------
(* The feed.  A move is possible when there is no last position to compare with, *)
(* or none that is older, or when its speed is.                                  *)

Distance(p, q) == IF p < q THEN q - p ELSE p - q

Possible(t, last) ==
    \/ last = NoFix \/ last.age <= ingests[t].age
    \/ Distance(last.pos, ingests[t].pos) <= MaxSpeed * (last.age - ingests[t].age)

Anchors == /\ anchored = Nowhere /\ anchored' \in Places
           /\ UNCHANGED <<fix, ingests, burst, updaters, home>>

\* While the vessel is under way its receiver may report any place.
Datagram == \E t \in Ingests, p \in Places :
    /\ ingests[t] = NoIngest /\ burst < MaxBurst /\ anchored \in {Nowhere, p}
    /\ ingests' = [ingests EXCEPT ![t] = [at |-> "reads", pos |-> p, age |-> 0]]
    /\ burst' = burst + 1
    /\ UNCHANGED <<anchored, fix, updaters, home>>

\* Mutant: a rejected position restarts the clock of the last accepted one.
X_RejectedTouches(t) == \E last \in {fix, NoFix} :
    /\ ingests[t].at = "reads"
    /\ ingests' = [ingests EXCEPT ![t] = IF Possible(t, last) THEN [@ EXCEPT !.at = "stores"] ELSE NoIngest]
    /\ fix' = IF Possible(t, last) THEN fix ELSE [fix EXCEPT !.age = 0, !.left = Ttl]
    /\ UNCHANGED <<anchored, burst, updaters, home>>

\* A read that fails is taken for "no last position".
Reads(t) == \E last \in {fix, NoFix} :
    /\ ingests[t].at = "reads"
    /\ ingests' = [ingests EXCEPT ![t] = IF Possible(t, last) THEN [@ EXCEPT !.at = "stores"] ELSE NoIngest]
    /\ UNCHANGED <<anchored, fix, burst, updaters, home>>

StoresFix(t, ok) ==
    /\ ingests[t].at = "stores"
    /\ fix' = IF ok THEN [pos |-> ingests[t].pos, age |-> ingests[t].age, left |-> Ttl] ELSE fix
    /\ ingests' = [ingests EXCEPT ![t] = NoIngest]
    /\ UNCHANGED <<anchored, burst, updaters, home>>

SecondPasses ==
    /\ \A t \in Ingests : ingests[t].age < MaxDelay
    /\ ingests' = [t \in Ingests |-> IF ingests[t] = NoIngest THEN NoIngest
                                     ELSE [ingests[t] EXCEPT !.age = @ + 1]]
    /\ fix' = IF fix.left <= 1 THEN NoFix ELSE [fix EXCEPT !.age = @ + 1, !.left = @ - 1]
    /\ burst' = 0
    /\ updaters' = [d \in HomeDrones |-> IF updaters[d].wait = 0 THEN updaters[d]
                                         ELSE [updaters[d] EXCEPT !.wait = @ - 1]]
    /\ UNCHANGED <<anchored, home>>

-----------------------------------------------------------------------------
(* The home points.  An error, of Redis or of the link, is logged and the loop *)
(* goes on with its next interval; a cancelled updater may still be sending.   *)

Connected(d) == /\ updaters[d] = Off /\ updaters' = [updaters EXCEPT ![d] = Asleep]
                /\ UNCHANGED <<anchored, fix, ingests, burst, home>>

Disconnected(d) ==
    /\ updaters[d] # Off /\ updaters' = [updaters EXCEPT ![d] = Off]
    /\ \/ UNCHANGED home
       \/ updaters[d].at = "sends" /\ home' = [home EXCEPT ![d] = updaters[d].pos]
    /\ UNCHANGED <<anchored, fix, ingests, burst>>

Polls(d) == \E read \in {fix, NoFix} :
    /\ updaters[d].at = "sleeps" /\ updaters[d].wait = 0
    /\ updaters' = [updaters EXCEPT ![d] = IF read = NoFix THEN Asleep
                                           ELSE [at |-> "sends", pos |-> read.pos, wait |-> 0]]
    /\ UNCHANGED <<anchored, fix, ingests, burst, home>>

SendsHome(d, ok) ==
    /\ updaters[d].at = "sends" /\ updaters' = [updaters EXCEPT ![d] = Asleep]
    /\ home' = IF ok THEN [home EXCEPT ![d] = updaters[d].pos] ELSE home
    /\ UNCHANGED <<anchored, fix, ingests, burst>>

FeedNext == \/ Anchors \/ Datagram \/ SecondPasses
            \/ \E t \in Ingests : Reads(t) \/ \E ok \in BOOLEAN : StoresFix(t, ok)
            \/ \E d \in HomeDrones : \/ Connected(d) \/ Disconnected(d) \/ Polls(d)
                                     \/ \E ok \in BOOLEAN : SendsHome(d, ok)

\* The receiver goes on reporting, the event loop runs every task, and neither Redis
\* nor the link of a drone fails every time it is needed.
Finds(d) == Polls(d) /\ updaters'[d].at = "sends"
FeedFairness == /\ WF_feedvars(Datagram) /\ WF_feedvars(SecondPasses)
                /\ WF_feedvars(\E t \in Ingests : Reads(t))
                /\ SF_feedvars(\E t \in Ingests : StoresFix(t, TRUE))
                /\ \A d \in HomeDrones : SF_feedvars(Finds(d)) /\ SF_feedvars(SendsHome(d, TRUE))
FeedSpec == FeedInit /\ [][FeedNext]_feedvars /\ FeedFairness

-----------------------------------------------------------------------------
(* Properties *)

\* Every variable keeps its type.
FeedTypeOK ==
    LET Somewhere == Places \cup {Nowhere}
    IN /\ anchored \in Somewhere /\ burst \in 0..MaxBurst /\ home \in [HomeDrones -> Somewhere]
       /\ fix \in [pos : Somewhere, age : 0..(MaxDelay + Ttl), left : 0..Ttl]
       /\ ingests \in [Ingests -> [at : {"idle", "reads", "stores"}, pos : Somewhere, age : 0..MaxDelay]]
       /\ updaters \in [HomeDrones -> [at : {"off", "sleeps", "sends"}, pos : Somewhere, wait : 0..Poll]]

\* Once the vessel lies still, a drone that stays connected ends up with its home point
\* there for good: neither a false position that was accepted, nor an older one that a
\* slow ingest stored last, nor failing reads and sends keep it elsewhere
\* (hf_feed.ingest_nmea, state_manager.home_point_updater).
HomeFollowsVessel ==
    \A d \in HomeDrones : <>[](anchored # Nowhere /\ updaters[d] # Off) => <>[](home[d] = anchored)
=============================================================================
