---------------------------- MODULE FleetRegistry ----------------------------
(***************************************************************************)
(* The registry behind drone_master and drone_inventory: types, drones,    *)
(* vessels, payloads, configuration templates and the links of the         *)
(* inventory, with the missions that name a drone.  A request checks what  *)
(* it needs, and what it wrote becomes visible when its session commits    *)
(* (database.py, get_db); only inventory links have foreign keys.          *)
(***************************************************************************)
EXTENDS Integers, FiniteSets

CONSTANTS TypeIds, DroneIds, VesselIds, PayloadIds, ThreatIds, TemplateIds, MissionIds,
          Fleet,       \* [type, drone, vessel, payload, threat]: the rows of the installed fleet
          Slots,       \* requests under way at a time; a new one takes the first free slot
          NoRow,       \* NULL
          MaxCommits   \* bound: requests that commit

ASSUME FleetAssumption ==
    /\ MaxCommits \in Nat /\ IsFiniteSet(DroneIds) /\ Slots \subseteq Nat /\ IsFiniteSet(Slots)
    /\ Fleet \in [type : TypeIds, drone : DroneIds, vessel : VesselIds, payload : PayloadIds, threat : ThreatIds]

VARIABLES types, vessels, payloads, threats,  \* rows: "none" before, "active", "archived" or "deleted" after
          drones,     \* drone_instances
          templates,  \* drone_config_templates
          missions,      \* the drone_instance_id of a mission
          linked,      \* the pairs of drone_payload_, drone_threat_ and payload_threat_links
          asked,      \* each slot: the request, and what its checks have read
          commits,    \* requests committed
          crossed,    \* history: a request committed after another had since its checks
          unchecked   \* history: drones and missions written from what nobody checks

fleetrows == <<types, vessels, payloads, threats, drones, templates, missions, linked>>
fleetvars == <<fleetrows, asked, commits, crossed, unchecked>>

Life == {"none", "active", "archived", "deleted"}
SystemIds == 1..(MaxCommits + 3)
DroneRow == [life : Life, type : TypeIds \cup {NoRow}, vessel : VesselIds \cup {NoRow},
          payload : PayloadIds \cup {NoRow}, sysid : SystemIds]
Ops == {"idle", "create type", "delete type", "register", "retype", "renumber", "remove drone",
        "carry", "assign", "create vessel", "archive vessel", "create payload", "delete payload",
        "create threat", "delete threat", "link", "unlink", "create template", "update template", "archive template",
        "plan", "delete mission"}
Rows == TypeIds \cup DroneIds \cup VesselIds \cup PayloadIds \cup ThreatIds \cup TemplateIds
          \cup MissionIds
Request == [op : Ops, on : Rows \cup {NoRow}, to : Rows \cup {NoRow} \cup 1..2,
            saw : SUBSET (DroneIds \cup MissionIds), sysid : SystemIds, at : 0..MaxCommits]

\* The rows a link may join, and the pairs the three tables of links can hold.
Catalogued == {t \in TypeIds : types[t] = "active"} \cup {p \in PayloadIds : payloads[p] = "active"}
                \cup {h \in ThreatIds : threats[h] = "active"}
Linkable == TypeIds \X (PayloadIds \cup ThreatIds) \cup PayloadIds \X ThreatIds
Unlinked(row) == {l \in linked : row \notin {l[1], l[2]}}

Stored == {d \in DroneIds : drones[d].life \in {"active", "archived"}}
Taken == {drones[d].sysid : d \in Stored}

\* The system id 1 that the form proposes, or the first above every id in use.
FreeSystemId == IF 1 \in Taken THEN 1 + CHOOSE n \in Taken : \A m \in Taken : m <= n ELSE 1
NoDroneRow == [life |-> "none", type |-> NoRow, vessel |-> NoRow, payload |-> NoRow, sysid |-> 1]
Idle == [op |-> "idle", on |-> NoRow, to |-> NoRow, saw |-> {}, sysid |-> 1, at |-> 0]

\* The registry at the start: a row of every kind, bare, or with the drone at sea and
\* carrying the payload, a template, missions of the drone and all links.
FleetInit == \E stocked \in BOOLEAN :
    /\ types = [t \in TypeIds |-> IF t = Fleet.type THEN "active" ELSE "none"]
    /\ vessels = [v \in VesselIds |-> IF v = Fleet.vessel THEN "active" ELSE "none"]
    /\ payloads = [p \in PayloadIds |-> IF p = Fleet.payload THEN "active" ELSE "none"]
    /\ threats = [h \in ThreatIds |-> IF h = Fleet.threat THEN "active" ELSE "none"]
    /\ drones = [d \in DroneIds |->
                   IF d # Fleet.drone THEN NoDroneRow
                   ELSE [NoDroneRow EXCEPT !.life = "active", !.type = Fleet.type,
                                           !.vessel = IF stocked THEN Fleet.vessel ELSE NoRow,
                                           !.payload = IF stocked THEN Fleet.payload ELSE NoRow]]
    /\ templates = [k \in TemplateIds |-> IF stocked THEN [life |-> "active", type |-> Fleet.type]
                                         ELSE [life |-> "none", type |-> NoRow]]
    /\ missions = [m \in MissionIds |-> IF stocked THEN Fleet.drone ELSE NoRow]
    /\ linked = IF stocked THEN {l \in Linkable : {l[1], l[2]} \subseteq Catalogued} ELSE {}
    /\ asked = [s \in Slots |-> Idle] /\ commits = 0 /\ crossed = FALSE /\ unchecked = {}

-----------------------------------------------------------------------------
(* The checks of a request: get_by_id() of the rows it names, and what its writes *)
(* will go by.  Nobody checks the type an update gives to a drone, the drone of a *)
(* mission, or that the drone assigned to a vessel is not archived.               *)

Asks(s, op, on, to, saw) ==
    /\ asked[s] = Idle /\ \A x \in Slots : x < s => asked[x] # Idle
    /\ commits + Cardinality({x \in Slots : asked[x] # Idle}) < MaxCommits
    /\ asked' = [asked EXCEPT ![s] = [op |-> op, on |-> on, to |-> to, saw |-> saw,
                                      sysid |-> FreeSystemId, at |-> commits]]
    /\ UNCHANGED <<fleetrows, commits, crossed, unchecked>>

AsksOfType(s) == \E t \in TypeIds :
    \/ types[t] = "none" /\ Asks(s, "create type", t, NoRow, {})
    \/ types[t] = "active" /\ Asks(s, "delete type", t, NoRow, {d \in Stored : drones[d].type = t})

AsksOfDrone(s) == \E d \in DroneIds :
    \/ drones[d].life = "none" /\ \E t \in TypeIds : types[t] = "active" /\ Asks(s, "register", d, t, {})
    \/ /\ drones[d].life = "active"
       /\ \/ \E t \in TypeIds : Asks(s, "retype", d, t, {})
          \/ \E n \in 1..2 : Asks(s, "renumber", d, n, {})
          \/ Asks(s, "remove drone", d, NoRow, {m \in MissionIds : missions[m] = d})
          \/ \E p \in PayloadIds : payloads[p] = "active" /\ Asks(s, "carry", d, p, {})
    \/ /\ d \in Stored
       /\ \/ Asks(s, "assign", d, NoRow, {})
          \/ \E v \in VesselIds : vessels[v] = "active" /\ Asks(s, "assign", d, v, {})

\* Mutant: a vessel is archived under the drones that call it home.
X_AsksOfVessel(s) == \E v \in VesselIds :
    \/ vessels[v] = "none" /\ Asks(s, "create vessel", v, NoRow, {})
    \/ vessels[v] = "active" /\ Asks(s, "archive vessel", v, NoRow, {})

AsksOfVessel(s) == \E v \in VesselIds :
    \/ vessels[v] = "none" /\ Asks(s, "create vessel", v, NoRow, {})
    \/ /\ vessels[v] = "active" /\ \A d \in Stored : drones[d].vessel # v
       /\ Asks(s, "archive vessel", v, NoRow, {})

AsksOfPayload(s) == \E p \in PayloadIds :
    \/ payloads[p] = "none" /\ Asks(s, "create payload", p, NoRow, {})
    \/ payloads[p] = "active" /\ Asks(s, "delete payload", p, NoRow, {})

AsksOfThreat(s) == \E h \in ThreatIds :
    \/ threats[h] = "none" /\ Asks(s, "create threat", h, NoRow, {})
    \/ threats[h] = "active" /\ Asks(s, "delete threat", h, NoRow, {})

AsksOfLink(s) == \E l \in Linkable :
    \/ {l[1], l[2]} \subseteq Catalogued /\ l \notin linked /\ Asks(s, "link", l[1], l[2], {})
    \/ l \in linked /\ Asks(s, "unlink", l[1], l[2], {})

AsksOfTemplate(s) == \E k \in TemplateIds :
    \/ /\ templates[k].life # "archived"
       /\ \E t \in TypeIds : /\ types[t] = "active"
                           /\ Asks(s, IF templates[k].life = "none" THEN "create template"
                                      ELSE "update template", k, t, {})
    \/ templates[k].life = "active" /\ Asks(s, "archive template", k, NoRow, {})

\* A mission is created for a drone, or edited, which may give it another one; or deleted.
AsksForPlan(s) == \E m \in MissionIds :
    \/ \E d \in DroneIds : Asks(s, "plan", m, d, {})
    \/ missions[m] # NoRow /\ Asks(s, "delete mission", m, NoRow, {})

-----------------------------------------------------------------------------
(* The writes of a request and its commit.  One that finds its row gone, or that *)
(* breaks a unique or a foreign key, is rolled back.                             *)

Commits(s) == /\ commits' = commits + 1 /\ asked' = [asked EXCEPT ![s] = Idle]
              /\ crossed' = (crossed \/ asked[s].at # commits)

RollsBack(s) ==
    /\ \/ asked[s].op = "register" /\ drones[asked[s].on].life # "none"
       \/ /\ asked[s].op \in {"retype", "renumber", "remove drone", "carry", "assign"}
          /\ asked[s].on \notin Stored
       \/ asked[s].op = "create type" /\ types[asked[s].on] # "none"
       \/ asked[s].op = "create vessel" /\ vessels[asked[s].on] # "none"
       \/ asked[s].op = "create payload" /\ payloads[asked[s].on] # "none"
       \/ asked[s].op = "create threat" /\ threats[asked[s].on] # "none"
       \/ asked[s].op = "create template" /\ templates[asked[s].on].life # "none"
       \/ /\ asked[s].op \in {"update template", "archive template"}
          /\ templates[asked[s].on].life = "deleted"
       \/ /\ asked[s].op = "link"
          /\ {asked[s].on, asked[s].to} \subseteq Catalogued => <<asked[s].on, asked[s].to>> \in linked
    /\ asked' = [asked EXCEPT ![s] = Idle]
    /\ UNCHANGED <<fleetrows, commits, crossed, unchecked>>

\* DroneTypeService.archive deletes the drones it has read, their places in missions
\* and the templates of the type; the foreign keys delete its links.
WritesType(s) ==
    LET r == asked[s] IN
    /\ \/ /\ r.op = "create type" /\ types[r.on] = "none"
          /\ types' = [types EXCEPT ![r.on] = "active"]
          /\ UNCHANGED <<drones, templates, missions, linked>>
       \/ /\ r.op = "delete type"
          /\ types' = [types EXCEPT ![r.on] = "deleted"]
          /\ drones' = [d \in DroneIds |-> IF d \in r.saw THEN [drones[d] EXCEPT !.life = "deleted"]
                                         ELSE drones[d]]
          /\ missions' = [m \in MissionIds |-> IF missions[m] \in r.saw THEN NoRow ELSE missions[m]]
          /\ templates' = [k \in TemplateIds |-> IF templates[k].type = r.on
                                               THEN [templates[k] EXCEPT !.life = "deleted"]
                                               ELSE templates[k]]
          /\ linked' = Unlinked(r.on)
    /\ Commits(s)
    /\ UNCHANGED <<vessels, payloads, threats, unchecked>>

WritesDrone(s) ==
    LET r == asked[s]
        Set(d) == drones' = [drones EXCEPT ![r.on] = d]
    IN /\ \/ /\ r.op = "register" /\ drones[r.on].life = "none"
             /\ Set([NoDroneRow EXCEPT !.life = "active", !.type = r.to, !.sysid = r.sysid])
             /\ UNCHANGED <<missions, unchecked>>
          \/ /\ r.on \in Stored
             /\ \/ /\ \/ r.op = "retype" /\ Set([drones[r.on] EXCEPT !.type = r.to])
                      \/ r.op = "renumber" /\ Set([drones[r.on] EXCEPT !.sysid = r.to])
                   /\ unchecked' = unchecked \cup {r.on}
                   /\ UNCHANGED missions
                \/ /\ \/ r.op = "carry" /\ Set([drones[r.on] EXCEPT !.payload = r.to])
                      \/ r.op = "assign" /\ Set([drones[r.on] EXCEPT !.vessel = r.to])
                   /\ UNCHANGED <<missions, unchecked>>
                \/ /\ r.op = "remove drone" /\ Set([drones[r.on] EXCEPT !.life = "archived"])
                   /\ missions' = [m \in MissionIds |-> IF m \in r.saw THEN NoRow ELSE missions[m]]
                   /\ UNCHANGED unchecked
       /\ Commits(s)
       /\ UNCHANGED <<types, vessels, payloads, threats, templates, linked>>

WritesVessel(s) ==
    LET r == asked[s] IN
    /\ r.op \in {"create vessel", "archive vessel"}
    /\ r.op = "create vessel" => vessels[r.on] = "none"
    /\ vessels' = [vessels EXCEPT ![r.on] = IF r.op = "create vessel" THEN "active" ELSE "archived"]
    /\ Commits(s)
    /\ UNCHANGED <<types, payloads, threats, drones, templates, missions, linked, unchecked>>

\* PayloadTypeService.delete leaves the drones that carry the payload as they are.
WritesPayload(s) ==
    LET r == asked[s] IN
    /\ \/ /\ r.op = "create payload" /\ payloads[r.on] = "none"
          /\ payloads' = [payloads EXCEPT ![r.on] = "active"] /\ UNCHANGED linked
       \/ /\ r.op = "delete payload"
          /\ payloads' = [payloads EXCEPT ![r.on] = "deleted"] /\ linked' = Unlinked(r.on)
    /\ Commits(s)
    /\ UNCHANGED <<types, vessels, threats, drones, templates, missions, unchecked>>

WritesThreat(s) ==
    LET r == asked[s] IN
    /\ \/ /\ r.op = "create threat" /\ threats[r.on] = "none"
          /\ threats' = [threats EXCEPT ![r.on] = "active"] /\ UNCHANGED linked
       \/ /\ r.op = "delete threat"
          /\ threats' = [threats EXCEPT ![r.on] = "deleted"] /\ linked' = Unlinked(r.on)
    /\ Commits(s)
    /\ UNCHANGED <<types, vessels, payloads, drones, templates, missions, unchecked>>

WritesLink(s) ==
    LET l == <<asked[s].on, asked[s].to>> IN
    /\ \/ /\ asked[s].op = "link" /\ {l[1], l[2]} \subseteq Catalogued /\ l \notin linked
          /\ linked' = linked \cup {l}
       \/ asked[s].op = "unlink" /\ linked' = linked \ {l}
    /\ Commits(s)
    /\ UNCHANGED <<types, vessels, payloads, threats, drones, templates, missions, unchecked>>

WritesTemplate(s) ==
    LET r == asked[s] IN
    /\ \/ /\ \/ r.op = "create template" /\ templates[r.on].life = "none"
             \/ r.op = "update template" /\ templates[r.on].life # "deleted"
          /\ templates' = [templates EXCEPT ![r.on].life = IF @ = "none" THEN "active" ELSE @,
                                            ![r.on].type = r.to]
       \/ /\ r.op = "archive template" /\ templates[r.on].life # "deleted"
          /\ templates' = [templates EXCEPT ![r.on].life = "archived"]
    /\ Commits(s)
    /\ UNCHANGED <<types, vessels, payloads, threats, drones, missions, linked, unchecked>>

WritesPlan(s) ==
    LET r == asked[s] IN
    /\ r.op \in {"plan", "delete mission"}
    /\ missions' = [missions EXCEPT ![r.on] = r.to]
    /\ unchecked' = IF r.op = "plan" /\ drones[r.to].life # "active" THEN unchecked \cup {r.on} ELSE unchecked
    /\ Commits(s)
    /\ UNCHANGED <<types, vessels, payloads, threats, drones, templates, linked>>

FleetStep(s) == \/ AsksOfType(s) \/ AsksOfDrone(s) \/ AsksOfVessel(s) \/ AsksOfPayload(s)
                \/ AsksOfThreat(s) \/ AsksOfLink(s) \/ AsksOfTemplate(s) \/ AsksForPlan(s) \/ RollsBack(s)
                \/ WritesType(s) \/ WritesDrone(s) \/ WritesVessel(s) \/ WritesPayload(s)
                \/ WritesThreat(s) \/ WritesLink(s)
                \/ WritesTemplate(s) \/ WritesPlan(s)
FleetNext == \E s \in Slots : FleetStep(s)
FleetSpec == FleetInit /\ [][FleetNext]_fleetvars

-----------------------------------------------------------------------------
(* Properties *)

\* Every variable keeps its type.
FleetTypeOK ==
    /\ types \in [TypeIds -> Life] /\ vessels \in [VesselIds -> Life] /\ payloads \in [PayloadIds -> Life]
    /\ threats \in [ThreatIds -> Life]
    /\ drones \in [DroneIds -> DroneRow]
    /\ templates \in [TemplateIds -> [life : Life, type : TypeIds \cup {NoRow}]]
    /\ missions \in [MissionIds -> DroneIds \cup {NoRow}]
    /\ linked \subseteq Linkable
    /\ asked \in [Slots -> Request]
    /\ commits \in 0..MaxCommits /\ crossed \in BOOLEAN /\ unchecked \subseteq DroneIds \cup MissionIds

\* A link always has both its ends.  Unless two requests overlapped, whatever else the
\* registry names exists too: the home vessel of a drone, the type of a drone and of a
\* template, the drone of a mission, and no two drones share a system id; rows excepted
\* that were written from a value nobody checks (drone_master/service.py, vessel_service.py).
FleetReferences ==
    /\ \A l \in linked : {l[1], l[2]} \subseteq Catalogued
    /\ ~crossed =>
         /\ \A d \in Stored : drones[d].vessel # NoRow => vessels[drones[d].vessel] = "active"
         /\ \A d \in Stored \ unchecked : types[drones[d].type] = "active"
         /\ \A d, e \in Stored \ unchecked : d # e => drones[d].sysid # drones[e].sysid
         /\ \A k \in TemplateIds : templates[k].life \in {"active", "archived"}
                                   => types[templates[k].type] = "active"
         /\ \A m \in MissionIds \ unchecked : missions[m] # NoRow => drones[missions[m]].life = "active"
=============================================================================
