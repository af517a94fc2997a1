---------------------------- MODULE BackupProofs ----------------------------
(***************************************************************************)
(* Backup keeps its types, and the id sequence stays ahead of the rows,    *)
(* for any retention, interval, history depth, .sql file, number of open   *)
(* transactions and any bounds.                                            *)
(*                                                                         *)
(* A restore sets the sequence before it commits its rows.  As long as no  *)
(* other transaction had an id at that moment, the ids that are given from *)
(* then on exceed the rows it is about to commit, and those that an INSERT *)
(* takes are distinct.                                                     *)
(***************************************************************************)
EXTENDS Backup, WellFoundedInduction, FiniteSetTheorems, TLAPS

HasId(q) == request[q].pc # "idle"

Given == /\ \A i \in db["types"] : i <= nextId
         /\ \A q \in Requests : HasId(q) => request[q].id <= nextId

\* A transaction is the only one with its id.
Distinct ==
    /\ \A q \in Requests : request[q].pc = "insert" => request[q].id \notin db["types"]
    /\ \A q, o \in Requests : q # o /\ HasId(q) /\ HasId(o) => request[q].id # request[o].id

\* What a restore that has set the sequence is about to commit.
Covered == \A r \in AllRestorers : restorer[r].pc = "commit" =>
              \A i \in restorer[r].rows["types"] :
                 i <= nextId /\ \A q \in Requests : HasId(q) => request[q].id # i

IInv == TypeOK /\ (~overlapped => Given /\ Distinct /\ Covered)

-----------------------------------------------------------------------------
(* Numbers and stores of dumps *)

\* A nonempty set of bounded numbers has a highest one.
LEMMA HighestIs ==
    ASSUME NEW n \in Nat, NEW S, S \subseteq 0..n, S # {}
    PROVE  Highest(S) \in S /\ \A y \in S : y <= Highest(S)
<1> DEFINE T == {n - x : x \in S}
           R == OpToRel(<, Nat)
<1>1. PICK z \in S : TRUE
  OBVIOUS
<1>2. T \subseteq Nat /\ T # {}
  <2>1. \A x \in S : n - x \in Nat
    OBVIOUS
  <2> QED BY <2>1, <1>1
<1>3. IsWellFoundedOn(R, Nat)
  BY NatLessThanWellFounded
<1>4. \A x, y \in Nat : y < x => <<y, x>> \in R
  BY DEF OpToRel
<1> HIDE DEF T, R
<1>5. PICK k \in T : \A m \in T : ~ (<<m, k>> \in R)
  BY <1>2, <1>3, WFMin
<1> USE DEF T
<1>6. PICK x \in S : k = n - x
  BY <1>5
<1>7. \A y \in S : y <= x
  <2> TAKE y \in S
  <2>1. n - y \in T /\ n - y \in Nat /\ n - x \in Nat
    BY <1>2
  <2>2. ~(n - y < n - x)
    BY <2>1, <1>4, <1>5, <1>6
  <2>3. x \in Int /\ y \in Int
    OBVIOUS
  <2> QED BY <2>2, <2>3
<1> QED BY <1>7 DEF Highest

\* A store is a function from some stamps to contents.
LEMMA StoresAre == \A s : s \in Stores <=> /\ DOMAIN s \subseteq Stamps
                                           /\ s \in [DOMAIN s -> Contents]
  BY DEF Stores

LEMMA NothingIs == Nothing \in Contents
  BY DEF Nothing, Contents

LEMMA NoDumpsIs == NoDumps \in Stores /\ DOMAIN NoDumps = {}
<1>1. DOMAIN NoDumps = {} /\ NoDumps \in [{} -> Contents]
  BY DEF NoDumps
<1> QED BY <1>1, StoresAre

LEMMA OneDump ==
    ASSUME NEW s \in Stamps, NEW c \in Contents
    PROVE  [x \in {s} |-> c] \in Stores
<1>1. [x \in {s} |-> c] \in [{s} -> Contents] /\ DOMAIN [x \in {s} |-> c] = {s}
  OBVIOUS
<1> QED BY <1>1, StoresAre

LEMMA OverIs == ASSUME NEW new \in Stores, NEW store \in Stores PROVE Over(new, store) \in Stores
<1> DEFINE D == DOMAIN new \cup DOMAIN store
<1>1. /\ DOMAIN new \subseteq Stamps /\ new \in [DOMAIN new -> Contents]
      /\ DOMAIN store \subseteq Stamps /\ store \in [DOMAIN store -> Contents]
  BY StoresAre
<1>2. Over(new, store) = [s \in D |-> IF s \in DOMAIN new THEN new[s] ELSE store[s]]
  BY DEF Over
<1>3. Over(new, store) \in [D -> Contents] /\ DOMAIN Over(new, store) = D
  BY <1>1, <1>2
<1> QED BY <1>1, <1>3, StoresAre

LEMMA OnlyIs == ASSUME NEW store \in Stores, NEW S, S \subseteq DOMAIN store
                PROVE  Only(store, S) \in Stores
<1>1. DOMAIN store \subseteq Stamps /\ store \in [DOMAIN store -> Contents]
  BY StoresAre
<1>2. Only(store, S) \in [S -> Contents] /\ DOMAIN Only(store, S) = S
  BY <1>1 DEF Only
<1> QED BY <1>1, <1>2, StoresAre

LEMMA NewestIs == \A store, k : Newest(store, k) \subseteq DOMAIN store
  BY DEF Newest

LEMMA RotatedIs == ASSUME NEW store \in Stores PROVE Rotated(store) \in Stores
  BY OnlyIs, NewestIs DEF Rotated

LEMMA FetchedIs == TypeOK => Fetched \in Stores
<1> SUFFICES ASSUME TypeOK PROVE Fetched \in Stores
  OBVIOUS
<1>1. local \in Stores /\ minio \in Stores
  BY DEF TypeOK
<1>2. Only(local, Newest(local, HistoryDepth)) \in Stores
  BY <1>1, OnlyIs, NewestIs
<1> DEFINE N == Newest(minio, HistoryDepth)
           F == [s \in N |-> IF s \in DOMAIN local THEN local[s] ELSE minio[s]]
<1>3. F \in Stores
  <2>1. N \subseteq DOMAIN minio
    BY NewestIs
  <2>2. /\ DOMAIN minio \subseteq Stamps /\ minio \in [DOMAIN minio -> Contents]
        /\ local \in [DOMAIN local -> Contents]
    BY <1>1, StoresAre
  <2>3. F \in [N -> Contents] /\ DOMAIN F = N
    BY <2>1, <2>2
  <2> QED BY <2>1, <2>2, <2>3, StoresAre
<1> QED BY <1>2, <1>3 DEF Fetched

\* The newest dump of a store that has one.
LEMMA HighestDump ==
    ASSUME NEW store \in Stores, NEW S, S \subseteq DOMAIN store, S # {}
    PROVE  Highest(S) \in S /\ store[Highest(S)] \in Contents
<1>1. DOMAIN store \subseteq Stamps /\ store \in [DOMAIN store -> Contents]
  BY StoresAre
<1>2. Highest(S) \in S
  BY <1>1, HighestIs, BackupAssumption DEF Stamps
<1> QED BY <1>1, <1>2

-----------------------------------------------------------------------------
(* The initial state and the commits of the application *)

LEMMA IdleIs == /\ IdleDumper \in Dumper /\ IdleRestorer \in Restorer /\ Marking \in Restorer
                /\ IdleRequest \in Request
<1>1. IdleDumper \in Dumper
  BY NothingIs, BackupAssumption DEF IdleDumper, Dumper, Stamps
<1>2. IdleRestorer \in Restorer
  BY NothingIs, NoDumpsIs DEF IdleRestorer, Restorer, Tables
<1>3. Marking \in Restorer
  BY <1>2 DEF Marking, Restorer
<1>4. IdleRequest \in Request
  BY DEF Request
<1> QED BY <1>1, <1>2, <1>3, <1>4

LEMMA InitIInv == Init => IInv
<1> SUFFICES ASSUME Init PROVE IInv
  OBVIOUS
<1>1. TypeOK
  <2>1. db \in Contents /\ nextId \in 0..MaxId /\ request \in [Requests -> Request]
    BY NothingIs, IdleIs, BackupAssumption DEF Init
  <2>2. timer \in Stamps /\ now \in Stamps /\ events \in 0..MaxEvents
    BY BackupAssumption DEF Init, Stamps
  <2>3. local \in Stores /\ minio \in Stores
    BY NoDumpsIs DEF Init
  <2>4. dumper \in [Dumpers -> Dumper] /\ restorer \in [AllRestorers -> Restorer]
    BY IdleIs DEF Init
  <2> QED BY <2>1, <2>2, <2>3, <2>4 DEF Init, TypeOK
<1>2. Given /\ Distinct /\ Covered
  BY DEF Init, Given, Distinct, Covered, HasId, IdleRequest, IdleRestorer, Nothing, Tables
<1> QED BY <1>1, <1>2 DEF IInv

\* A step that leaves the rows, the sequence, the transactions and the restores alone.
LEMMA Elsewhere ==
    ASSUME IInv, TypeOK', UNCHANGED <<rows, restorer>>
    PROVE  IInv'
  BY DEF IInv, rows, Given, Distinct, Covered, HasId

LEMMA NoteCommitTypes ==
    ASSUME TypeOK, NEW changed \in SUBSET Tables, NEW seen \in SUBSET Tables,
           NoteCommit(changed, seen), db' \in Contents, nextId' = nextId,
           request' \in [Requests -> Request], overlapped' = overlapped, events' \in 0..MaxEvents
    PROVE  TypeOK' /\ UNCHANGED restorer
<1>1. timer' \in Stamps /\ dirty' \subseteq Tables /\ behind' \subseteq Tables
  BY DEF TypeOK, NoteCommit
<1> QED BY <1>1 DEF TypeOK, NoteCommit, files

LEMMA RequestIs ==
    ASSUME TypeOK, NEW q \in Requests
    PROVE  /\ request[q].id \in Int
           /\ request[q].pc # "idle" => /\ request[q].pc \in {"insert", "commit"}
                                        /\ request[q].id \in Ids /\ request[q].rows \in SUBSET Tables
<1>1. request[q] \in Request
  BY DEF TypeOK
<1>2. CASE request[q] = IdleRequest
  BY <1>2 DEF IdleRequest
<1>3. CASE request[q] \in [pc : {"insert", "commit"}, id : Ids, rows : SUBSET Tables]
  BY <1>3 DEF Ids
<1> QED BY <1>1, <1>2, <1>3 DEF Request

\* What the step of one transaction leaves of the others.
LEMMA RequestsAre ==
    ASSUME TypeOK, NEW q \in Requests, NEW new, new \in Request, request' = [request EXCEPT ![q] = new]
    PROVE  /\ request' \in [Requests -> Request] /\ request'[q] = new
           /\ \A o \in Requests : o # q => request'[o] = request[o]
  BY DEF TypeOK

LEMMA TakeIdIInv == ASSUME NEW q \in Requests, IInv, TakeId(q) PROVE IInv'
<1> DEFINE new == [pc |-> "insert", id |-> nextId + 1, rows |-> {}]
<1>1. nextId \in Nat /\ nextId + 1 \in 1..MaxId /\ nextId' = nextId + 1
  BY BackupAssumption DEF TakeId, IInv, TypeOK
<1>2. new \in Request /\ new.id = nextId + 1 /\ new.pc = "insert"
  BY <1>1 DEF Request, Ids
<1>3. /\ request' = [request EXCEPT ![q] = new] /\ events < MaxEvents /\ events' = events + 1
      /\ request[q].pc = "idle"
      /\ UNCHANGED <<db, overlapped, dirty, timer, waiting, now, minioUp, local, minio, marker, serving,
                     dumper, restorer, behind>>
  BY DEF TakeId, pending, files
<1> HIDE DEF new
<1>4. /\ request' \in [Requests -> Request] /\ request'[q] = new
      /\ \A o \in Requests : o # q => request'[o] = request[o]
  BY <1>2, <1>3, RequestsAre DEF IInv
<1>5. TypeOK'
  <2>1. events' \in 0..MaxEvents /\ nextId' \in 0..MaxId
    BY <1>1, <1>3, BackupAssumption DEF IInv, TypeOK
  <2> QED BY <1>3, <1>4, <2>1 DEF IInv, TypeOK
<1>6. ASSUME ~overlapped PROVE Given' /\ Distinct' /\ Covered'
  <2>0. /\ Given /\ Distinct /\ Covered /\ db["types"] \subseteq Int
        /\ \A r \in AllRestorers : restorer[r].rows["types"] \subseteq Int
        /\ \A o \in Requests : request[o].id \in Int
    BY <1>6, RequestIs DEF IInv, TypeOK, Contents, Tables, Ids, Restorer
  <2>1. Given'
    BY <2>0, <1>1, <1>2, <1>3, <1>4 DEF Given, HasId
  <2>2. Distinct'
    BY <2>0, <1>1, <1>2, <1>3, <1>4 DEF Given, Distinct, HasId
  <2>3. Covered'
    BY <2>0, <1>1, <1>2, <1>3, <1>4 DEF Covered, HasId
  <2> QED BY <2>1, <2>2, <2>3
<1> QED BY <1>3, <1>5, <1>6 DEF IInv

\* A transaction that goes on with the id it has, or ends.
LEMMA RequestIInv ==
    ASSUME NEW q \in Requests, IInv, NEW new, new \in Request, request[q].pc # "idle",
           request' = [request EXCEPT ![q] = new],
           new.pc = "idle" \/ (new.pc = "commit" /\ new.id = request[q].id),
           UNCHANGED <<db, nextId, overlapped, pending, fixed, files, marker, serving, dumper,
                       restorer, behind>>
    PROVE  IInv'
<1>1. /\ request' \in [Requests -> Request] /\ request'[q] = new
      /\ \A o \in Requests : o # q => request'[o] = request[o]
  BY RequestsAre DEF IInv
<1>2. TypeOK'
  BY <1>1 DEF IInv, TypeOK, pending, fixed, files
<1>3. /\ \A o \in Requests : HasId(o)' => HasId(o)
      /\ \A o \in Requests : HasId(o)' => request'[o].id = request[o].id
      /\ \A o \in Requests : request'[o].pc = "insert" => request[o].pc = "insert"
  BY <1>1 DEF HasId
<1>4. ASSUME ~overlapped PROVE Given' /\ Distinct' /\ Covered'
  <2>0. Given /\ Distinct /\ Covered /\ UNCHANGED <<db, nextId, restorer>>
    BY <1>4 DEF IInv
  <2>1. Given'
    <3>1. ASSUME NEW o \in Requests, HasId(o)' PROVE request'[o].id <= nextId'
      BY <3>1, <2>0, <1>3 DEF Given
    <3> QED BY <3>1, <2>0 DEF Given
  <2>2. Distinct'
    <3>1. ASSUME NEW o \in Requests, request'[o].pc = "insert" PROVE request'[o].id \notin db'["types"]
      <4>1. HasId(o)'
        BY <3>1 DEF HasId
      <4> QED BY <3>1, <4>1, <2>0, <1>3 DEF Distinct
    <3>2. ASSUME NEW o \in Requests, NEW u \in Requests, o # u, HasId(o)', HasId(u)'
          PROVE  request'[o].id # request'[u].id
      BY <3>2, <2>0, <1>3 DEF Distinct
    <3> QED BY <3>1, <3>2 DEF Distinct
  <2>3. Covered'
    <3> SUFFICES ASSUME NEW r \in AllRestorers, restorer[r].pc = "commit",
                        NEW i \in restorer[r].rows["types"]
                 PROVE  i <= nextId /\ \A o \in Requests : HasId(o)' => request'[o].id # i
      BY <2>0 DEF Covered
    <3> QED BY <2>0, <1>3 DEF Covered
  <2> QED BY <2>1, <2>2, <2>3
<1> QED BY <1>2, <1>4 DEF IInv

LEMMA InsertTypeIInv == ASSUME NEW q \in Requests, NEW linked \in BOOLEAN, IInv, InsertType(q, linked) PROVE IInv'
<1> DEFINE new == [request[q] EXCEPT !.pc = "commit", !.rows = IF linked THEN Tables ELSE {"types"}]
<1>1. request[q] \in Request /\ request[q].pc = "insert"
  BY DEF InsertType, IInv, TypeOK
<1>2. new \in Request /\ new.pc = "commit" /\ new.id = request[q].id
  <2>1. request[q] \in [pc : {"insert", "commit"}, id : Ids, rows : SUBSET Tables]
    BY <1>1 DEF Request, IdleRequest
  <2>2. (IF linked THEN Tables ELSE {"types"}) \in SUBSET Tables
    BY DEF Tables
  <2>3. new \in [pc : {"insert", "commit"}, id : Ids, rows : SUBSET Tables]
    BY <2>1, <2>2
  <2> QED BY <2>1, <2>3 DEF Request
<1>3. IdleRequest \in Request /\ IdleRequest.pc = "idle"
  BY IdleIs DEF IdleRequest
<1>4. request' = [request EXCEPT ![q] = new] \/ request' = [request EXCEPT ![q] = IdleRequest]
  BY DEF InsertType, Ended
<1> HIDE DEF new
<1> QED BY <1>1, <1>2, <1>3, <1>4, RequestIInv DEF InsertType

LEMMA RollbackCreateIInv == ASSUME NEW q \in Requests, IInv, RollbackCreate(q) PROVE IInv'
<1>1. IdleRequest \in Request /\ IdleRequest.pc = "idle"
  BY IdleIs DEF IdleRequest
<1> QED BY <1>1, RequestIInv DEF RollbackCreate, Ended

LEMMA CommitCreateIInv ==
    ASSUME NEW q \in Requests, NEW flushed \in BOOLEAN, IInv, CommitCreate(q, flushed)
    PROVE  IInv'
<1> DEFINE i == request[q].id
           changed == request[q].rows
           seen == IF flushed THEN {} ELSE changed
<1>1. request[q].pc = "commit" /\ i \in Ids /\ changed \in SUBSET Tables /\ seen \in SUBSET Tables
  BY RequestIs DEF CommitCreate, IInv
<1>2. /\ NoteCommit(changed, seen) /\ UNCHANGED <<nextId, overlapped, events>>
      /\ db' = [t \in Tables |-> IF t \in changed THEN db[t] \cup {i} ELSE db[t]]
      /\ request' = [request EXCEPT ![q] = IdleRequest]
  BY DEF CommitCreate, Ended
<1>3. db' \in Contents
  BY <1>1, <1>2 DEF IInv, TypeOK, Contents
<1>4. /\ request' \in [Requests -> Request] /\ request'[q] = IdleRequest
      /\ \A o \in Requests : o # q => request'[o] = request[o]
  BY <1>2, IdleIs, RequestsAre DEF IInv
<1>5. TypeOK' /\ UNCHANGED restorer
  <2>1. TypeOK /\ events' \in 0..MaxEvents
    BY <1>2 DEF IInv, TypeOK
  <2> HIDE DEF i, changed, seen
  <2> QED BY <1>1, <1>2, <1>3, <1>4, <2>1, NoteCommitTypes
<1>6. db'["types"] \subseteq db["types"] \cup {i}
  BY <1>2 DEF Tables
<1>7. \A o \in Requests : HasId(o)' => o # q /\ HasId(o) /\ request'[o] = request[o]
  BY <1>4 DEF HasId, IdleRequest
<1>8. ASSUME ~overlapped PROVE Given' /\ Distinct' /\ Covered'
  <2>0. Given /\ Distinct /\ Covered /\ HasId(q)
    BY <1>1, <1>8 DEF IInv, HasId
  <2>1. Given'
    BY <2>0, <1>2, <1>6, <1>7 DEF Given
  <2>2. Distinct'
    <3>1. ASSUME NEW o \in Requests, request'[o].pc = "insert" PROVE request'[o].id \notin db'["types"]
      <4>1. o # q /\ request'[o] = request[o] /\ HasId(o)
        BY <3>1, <1>4 DEF HasId, IdleRequest
      <4> QED BY <4>1, <3>1, <2>0, <1>6 DEF Distinct
    <3> QED BY <3>1, <2>0, <1>7 DEF Distinct
  <2>3. Covered'
    BY <2>0, <1>2, <1>5, <1>7 DEF Covered
  <2> QED BY <2>1, <2>2, <2>3
<1> QED BY <1>2, <1>5, <1>8 DEF IInv

\* A step that only takes rows away, and ends no transaction.
LEMMA RowsGone ==
    ASSUME IInv, TypeOK', db'["types"] \subseteq db["types"],
           UNCHANGED <<nextId, overlapped, request, restorer>>
    PROVE  IInv'
  BY DEF IInv, Given, Distinct, Covered, HasId

LEMMA DeleteIInv ==
    ASSUME NEW t \in Tables, NEW i \in Ids, NEW flushed \in BOOLEAN, IInv, Delete(i, t, flushed)
    PROVE  IInv'
<1> DEFINE gone == IF t = "types" THEN Tables ELSE {t}
           seen == IF flushed THEN {} ELSE {t}
           changed == {u \in gone : i \in db[u]}
<1>1. gone \in SUBSET Tables /\ seen \in SUBSET Tables /\ changed \in SUBSET Tables
  BY DEF Tables
<1>2. /\ events < MaxEvents /\ events' = events + 1 /\ NoteCommit(changed, seen)
      /\ UNCHANGED <<nextId, request, overlapped>>
      /\ db' = [u \in Tables |-> IF u \in gone THEN db[u] \ {i} ELSE db[u]]
  BY DEF Delete
<1> HIDE DEF gone, seen, changed
<1>3. /\ db' \in Contents /\ events' \in 0..MaxEvents /\ request' \in [Requests -> Request]
      /\ db'["types"] \subseteq db["types"]
  BY <1>1, <1>2, BackupAssumption DEF IInv, TypeOK, Contents, Tables
<1>4. TypeOK' /\ UNCHANGED restorer
  BY <1>1, <1>2, <1>3, NoteCommitTypes DEF IInv
<1> QED BY <1>2, <1>3, <1>4, RowsGone

-----------------------------------------------------------------------------
(* create_dump() *)

\* A step of a dump that leaves everything but the dump itself, the timer, the local
\* and the MinIO store and the history alone.
LEMMA DumpKeeps ==
    ASSUME IInv, UNCHANGED <<rows, fixed, marker, serving, restorer>>,
           dirty' \subseteq Tables, timer' \in Stamps, waiting' \in BOOLEAN,
           local' \in Stores, minio' \in Stores, behind' \subseteq Tables,
           dumper' \in [Dumpers -> Dumper]
    PROVE  IInv'
<1>1. TypeOK'
  BY DEF IInv, TypeOK, rows, fixed
<1> QED BY <1>1, Elsewhere DEF rows

LEMMA BeginDumpIInv == IInv /\ (BeginFullDump \/ TimerFires \/ BeginWriteDump) => IInv'
<1> SUFFICES ASSUME IInv, BeginFullDump \/ TimerFires \/ BeginWriteDump PROVE IInv'
  OBVIOUS
<1>1. TypeOK /\ now \in Stamps /\ local \in Stores /\ minio \in Stores /\ "scheduler" \in Dumpers
      /\ 0 \in Stamps /\ "write" \in Dumpers /\ dirty \in SUBSET Tables /\ behind \in SUBSET Tables
  BY BackupAssumption DEF IInv, TypeOK, Stamps, Dumpers
<1>2. CASE BeginFullDump
  <2>1. [pc |-> "read", stamp |-> now, toRead |-> Tables, data |-> Nothing, owes |-> behind] \in Dumper
    BY <1>1, NothingIs DEF Dumper
  <2>2. dumper' \in [Dumpers -> Dumper]
    BY <2>1, <1>1, <1>2 DEF BeginFullDump, TypeOK
  <2> QED BY <1>1, <1>2, <2>2, DumpKeeps DEF BeginFullDump, pending, files, TypeOK
<1>3. CASE TimerFires
  BY <1>1, <1>3, DumpKeeps DEF TimerFires, files, TypeOK
<1>4. CASE BeginWriteDump
  <2> DEFINE data == IF DOMAIN local = {} THEN Nothing ELSE local[Highest(DOMAIN local)]
             toRead == IF DOMAIN local = {} THEN Tables ELSE dirty
  <2>1. data \in Contents /\ toRead \in SUBSET Tables
    BY <1>1, NothingIs, HighestDump
  <2> HIDE DEF data, toRead
  <2>2. [pc |-> "read", stamp |-> now, toRead |-> toRead, data |-> data, owes |-> dirty] \in Dumper
    BY <2>1, <1>1 DEF Dumper
  <2>3. dumper' \in [Dumpers -> Dumper]
    <3>1. dumper' = IF dirty = {} THEN dumper
                    ELSE [dumper EXCEPT !["write"] = [pc |-> "read", stamp |-> now, toRead |-> toRead,
                                                      data |-> data, owes |-> dirty]]
      BY <1>4 DEF BeginWriteDump, data, toRead
    <3> QED BY <3>1, <2>2, <1>1 DEF TypeOK
  <2> QED BY <1>1, <1>4, <2>3, DumpKeeps DEF BeginWriteDump, files, TypeOK
<1> QED BY <1>2, <1>3, <1>4

LEMMA RestedIs == ASSUME TypeOK, NEW d \in Dumpers PROVE Rested(d) \in [Dumpers -> Dumper]
<1>1. dumper[d].stamp \in Stamps /\ 0 \in Stamps
  BY BackupAssumption DEF TypeOK, Dumper, Stamps
<1>2. [IdleDumper EXCEPT !.stamp = IF d = "scheduler" THEN dumper[d].stamp ELSE 0] \in Dumper
  BY <1>1, IdleIs DEF Dumper
<1> QED BY <1>2 DEF Rested, TypeOK

LEMMA DumpStepIInv == ASSUME NEW d \in Dumpers, IInv, DumpStep(d) PROVE IInv'
<1>1. /\ dumper[d] \in Dumper /\ local \in Stores /\ minio \in Stores /\ db \in Contents
      /\ dumper[d].stamp \in Stamps /\ dumper[d].data \in Contents /\ dumper[d].toRead \in SUBSET Tables
      /\ dumper[d].owes \in SUBSET Tables /\ behind \in SUBSET Tables
  BY DEF IInv, TypeOK, Dumper
<1>2. ASSUME NEW t \in Tables, ReadTable(d, t) PROVE IInv'
  <2>1. dumper' = [dumper EXCEPT ![d].data[t] = db[t], ![d].toRead = @ \ {t}]
    BY <1>2 DEF ReadTable
  <2>2. [dumper[d].data EXCEPT ![t] = db[t]] \in Contents /\ dumper[d].toRead \ {t} \in SUBSET Tables
    BY <1>1 DEF Contents
  <2>3. dumper' \in [Dumpers -> Dumper]
    <3>1. [dumper[d] EXCEPT !.data = [dumper[d].data EXCEPT ![t] = db[t]],
                            !.toRead = dumper[d].toRead \ {t}] \in Dumper
      BY <1>1, <2>2 DEF Dumper
    <3>2. dumper' = [dumper EXCEPT ![d] =
                       [dumper[d] EXCEPT !.data = [dumper[d].data EXCEPT ![t] = db[t]],
                                         !.toRead = dumper[d].toRead \ {t}]]
      BY <2>1
    <3> QED BY <3>1, <3>2 DEF IInv, TypeOK
  <2> QED BY <1>2, <2>3, DumpKeeps DEF ReadTable, pending, files, IInv, TypeOK
<1>3. CASE WriteDump(d)
  <2>1. Over([s \in {dumper[d].stamp} |-> dumper[d].data], local) \in Stores
    BY <1>1, OneDump, OverIs
  <2>2. dumper' \in [Dumpers -> Dumper]
    <3>1. [IdleDumper EXCEPT !.pc = "upload", !.stamp = dumper[d].stamp] \in Dumper
      BY <1>1, IdleIs DEF Dumper
    <3> QED BY <1>3, <3>1 DEF WriteDump, IInv, TypeOK
  <2>3. behind' \subseteq Tables
    BY <1>1, <1>3 DEF WriteDump
  <2> QED BY <1>3, <2>1, <2>2, <2>3, DumpKeeps DEF WriteDump, pending, IInv, TypeOK
<1>4. CASE UploadDump(d)
  <2> DEFINE own == {dumper[d].stamp} \cap DOMAIN local
  <2>1. minio' \in Stores
    <3>1. Only(local, own) \in Stores
      BY <1>1, OnlyIs
    <3> HIDE DEF own
    <3>2. Over(Only(local, own), minio) \in Stores
      BY <3>1, <1>1, OverIs
    <3>3. minio' = minio \/ minio' = Over(Only(local, own), minio)
      BY <1>4 DEF UploadDump, own
    <3> QED BY <3>2, <3>3, <1>1
  <2>2. dumper' \in [Dumpers -> Dumper]
    <3>1. [dumper[d] EXCEPT !.pc = "rotate"] \in Dumper
      BY <1>1 DEF Dumper
    <3>2. dumper' = Rested(d) \/ dumper' = [dumper EXCEPT ![d] = [dumper[d] EXCEPT !.pc = "rotate"]]
      BY <1>4 DEF UploadDump
    <3> QED BY <3>1, <3>2, RestedIs DEF IInv, TypeOK
  <2> QED BY <1>4, <2>1, <2>2, DumpKeeps DEF UploadDump, pending, IInv, TypeOK
<1>5. CASE RotateLocal(d)
  <2>1. Rotated(local) \in Stores
    BY <1>1, RotatedIs
  <2>2. [dumper[d] EXCEPT !.pc = "expire"] \in Dumper
    BY <1>1 DEF Dumper
  <2>3. dumper' \in [Dumpers -> Dumper]
    BY <1>5, <2>2 DEF RotateLocal, IInv, TypeOK
  <2> QED BY <1>5, <2>1, <2>3, DumpKeeps DEF RotateLocal, pending, IInv, TypeOK
<1>6. CASE RotateMinio(d)
  <2>1. minio' \in Stores /\ dumper' \in [Dumpers -> Dumper]
    BY <1>1, <1>6, RotatedIs, RestedIs DEF RotateMinio, IInv
  <2> QED BY <1>6, <2>1, DumpKeeps DEF RotateMinio, pending, IInv, TypeOK
<1> QED BY <1>2, <1>3, <1>4, <1>5, <1>6 DEF DumpStep

LEMMA DumpFailsIInv == ASSUME NEW d \in Dumpers, IInv, DumpFails(d) PROVE IInv'
<1>1. /\ dumper' \in [Dumpers -> Dumper] /\ events' \in 0..MaxEvents
      /\ behind' = behind \cup dumper[d].owes
      /\ UNCHANGED <<rows, pending, now, files, minioUp, marker, serving, restorer>>
  BY RestedIs, BackupAssumption DEF DumpFails, Fault, IInv, TypeOK
<1>2. behind' \subseteq Tables
  BY <1>1 DEF IInv, TypeOK, Dumper
<1>3. TypeOK'
  BY <1>1, <1>2 DEF IInv, TypeOK, rows, pending, files
<1> QED BY <1>1, <1>3, Elsewhere

-----------------------------------------------------------------------------
(* restore_latest_dump() *)

\* A step of a restore that leaves the rows of the database and the sequence alone.
LEMMA RestoreMoves ==
    ASSUME IInv, NEW r \in AllRestorers, NEW new \in Restorer, new.pc # "commit",
           restorer' = [restorer EXCEPT ![r] = new],
           UNCHANGED <<rows, pending, fixed, minio, dumper, behind>>,
           local' \in Stores, serving' \in BOOLEAN, marker' \in BOOLEAN
    PROVE  IInv'
<1>1. restorer' \in [AllRestorers -> Restorer]
  BY DEF IInv, TypeOK
<1>2. restorer'[r] = new /\ \A o \in AllRestorers : o # r => restorer'[o] = restorer[o]
  BY DEF IInv, TypeOK
<1>3. TypeOK'
  BY <1>1 DEF IInv, TypeOK, rows, pending, fixed
<1>4. Covered => Covered'
  BY <1>2 DEF Covered, HasId, rows
<1> QED BY <1>3, <1>4 DEF IInv, Given, Distinct, HasId, rows

LEMMA IdleIsSound == IdleRestorer.pc # "commit" /\ Marking.pc # "commit"
  BY DEF IdleRestorer, Marking

\* The restores that exist, with their types.
LEMMA RestorerIs ==
    ASSUME IInv, NEW r \in AllRestorers
    PROVE  /\ restorer[r] \in Restorer
           /\ restorer[r].dumps \in Stores /\ restorer[r].rows \in Contents
           /\ local \in Stores /\ db \in Contents /\ serving \in BOOLEAN /\ marker \in BOOLEAN
  BY DEF IInv, TypeOK, Restorer

LEMMA BeginRestoreIInv ==
    ASSUME NEW r \in AllRestorers, IInv, CheckForLoss(r) \/ StartRestore(r) PROVE IInv'
<1> DEFINE new == [restorer[r] EXCEPT !.pc = "fetch"]
<1>1. restorer[r] \in Restorer /\ restorer[r].pc = "idle"
  BY RestorerIs DEF CheckForLoss, StartRestore
<1>2. new \in Restorer /\ new.pc # "commit"
  BY <1>1 DEF Restorer
<1>3. restorer' = [restorer EXCEPT ![r] = new]
  BY DEF CheckForLoss, StartRestore
<1>4. local' \in Stores
  BY RestorerIs, FetchedIs, OverIs DEF CheckForLoss, StartRestore, files, IInv
<1> HIDE DEF new
<1> QED BY <1>2, <1>3, <1>4, RestoreMoves, RestorerIs DEF CheckForLoss, StartRestore, files

LEMMA FetchDumpsIInv == ASSUME NEW r \in AllRestorers, IInv, FetchDumps(r) PROVE IInv'
<1> DEFINE dumps == Over(Fetched, SqlFallback)
           new == [restorer[r] EXCEPT !.pc = "open", !.dumps = dumps]
<1>1. SqlFallback \in Stores
  <2>1. 0 \in Stamps /\ SqlRows \in Contents
    BY BackupAssumption DEF Stamps, Contents, Tables, Ids
  <2> QED BY <2>1, OneDump, NoDumpsIs DEF SqlFallback
<1>2. dumps \in Stores /\ local' \in Stores
  BY <1>1, FetchedIs, OverIs, RestorerIs DEF FetchDumps, IInv
<1>3. restorer[r] \in Restorer /\ restorer[r].pc = "fetch"
  BY RestorerIs DEF FetchDumps
<1>4. \/ restorer' = [restorer EXCEPT ![r] = IdleRestorer] /\ serving' \in BOOLEAN
      \/ restorer' = [restorer EXCEPT ![r] = new] /\ serving' \in BOOLEAN
  BY RestorerIs DEF FetchDumps, Returned
<1> HIDE DEF dumps
<1>5. new \in Restorer /\ new.pc # "commit"
  BY <1>2, <1>3 DEF Restorer
<1> HIDE DEF new
<1> QED BY <1>2, <1>4, <1>5, RestoreMoves, RestorerIs, IdleIs, IdleIsSound DEF FetchDumps

LEMMA OpenTransactionIInv == ASSUME NEW r \in AllRestorers, IInv, OpenTransaction(r) PROVE IInv'
<1> DEFINE kept == DOMAIN restorer[r].dumps \ (IF Wiped THEN {} ELSE {0})
           dumps == Only(restorer[r].dumps, kept)
           new == [restorer[r] EXCEPT !.pc = "count", !.dumps = dumps]
<1>1. restorer[r] \in Restorer /\ restorer[r].pc = "open"
  BY RestorerIs DEF OpenTransaction
<1>2. dumps \in Stores
  BY OnlyIs, RestorerIs
<1>3. restorer' = [restorer EXCEPT ![r] = new]
  BY DEF OpenTransaction
<1> HIDE DEF dumps
<1>4. new \in Restorer /\ new.pc # "commit"
  BY <1>1, <1>2 DEF Restorer
<1> HIDE DEF new
<1> QED BY <1>3, <1>4, RestoreMoves, RestorerIs DEF OpenTransaction, files

LEMMA CountTableIInv ==
    ASSUME NEW r \in AllRestorers, NEW t \in Tables, IInv, CountTable(r, t) PROVE IInv'
<1> DEFINE with == {s \in DOMAIN restorer[r].dumps : restorer[r].dumps[s][t] # {}}
           found == restorer[r].dumps[Highest(with)]
           filled == [restorer[r] EXCEPT !.pc = "insert",
                         !.rows = [restorer[r].rows EXCEPT ![t] = found[t]],
                         !.fromSql = restorer[r].fromSql \/ Highest(with) = 0]
           left == [restorer[r] EXCEPT !.pc = IF t = "types" THEN "count" ELSE "reset",
                                       !.table = "links"]
<1>1. restorer[r] \in Restorer /\ restorer[r].pc = "count" /\ restorer[r].rows \in Contents
  BY RestorerIs DEF CountTable
<1>2. left \in Restorer /\ left.pc # "commit"
  BY <1>1 DEF Restorer, Tables
<1>4. CASE db[t] = {} /\ with # {}
  <2>1. found \in Contents
    BY <1>4, HighestDump, RestorerIs
  <2>2. restorer' = [restorer EXCEPT ![r] = filled]
    BY <1>4 DEF CountTable
  <2> HIDE DEF found
  <2>3. [restorer[r].rows EXCEPT ![t] = found[t]] \in Contents
    BY <2>1, <1>1 DEF Contents
  <2>4. filled \in Restorer /\ filled.pc # "commit"
    BY <2>3, <1>1 DEF Restorer
  <2> HIDE DEF filled
  <2> QED BY <2>2, <2>4, RestoreMoves, RestorerIs DEF CountTable, files
<1>5. CASE ~(db[t] = {} /\ with # {})
  <2>1. restorer' = [restorer EXCEPT ![r] = left]
    BY <1>5 DEF CountTable
  <2> HIDE DEF left
  <2> QED BY <2>1, <1>2, RestoreMoves, RestorerIs DEF CountTable, files
<1> QED BY <1>4, <1>5

LEMMA InsertRowsIInv ==
    ASSUME NEW r \in AllRestorers, NEW t \in Tables, IInv, InsertRows(r, t) PROVE IInv'
<1> DEFINE done == [restorer[r] EXCEPT !.pc = IF t = "types" THEN "count" ELSE "reset",
                                       !.table = "links"]
<1>1. done \in Restorer /\ done.pc # "commit"
  BY RestorerIs DEF Restorer, Tables
<1>2. CASE restorer' = [restorer EXCEPT ![r] = IdleRestorer]
  BY <1>2, RestoreMoves, RestorerIs, IdleIs, IdleIsSound DEF InsertRows, files
<1>3. CASE restorer' = [restorer EXCEPT ![r] = done]
  <2> HIDE DEF done
  <2> QED BY <1>1, <1>3, RestoreMoves, RestorerIs DEF InsertRows, files
<1> QED BY <1>2, <1>3 DEF InsertRows

\* The sequence is set: no other transaction has an id, or the history says so.
LEMMA ResetSequencesIInv == ASSUME NEW r \in AllRestorers, IInv, ResetSequences(r) PROVE IInv'
<1> DEFINE new == restorer[r].rows["types"]
           S == db["types"] \cup new
<1>1. /\ restorer[r] \in Restorer /\ restorer[r].pc = "reset" /\ new \subseteq Ids /\ S \subseteq Ids
  BY RestorerIs DEF ResetSequences, Contents, Tables
<1>2. /\ nextId' = IF new = {} THEN nextId ELSE Highest(S)
      /\ overlapped' = IF new = {} THEN overlapped ELSE IdsHeld(r)
      /\ restorer' = [restorer EXCEPT ![r].pc = "commit"]
      /\ UNCHANGED <<db, request, pending, fixed, files, marker, serving, dumper, behind>>
  BY DEF ResetSequences
<1>3. new # {} => Highest(S) \in 0..MaxId /\ \A i \in S : i <= Highest(S)
  <2>1. MaxId \in Nat /\ S \subseteq 0..MaxId
    BY <1>1, BackupAssumption DEF Ids
  <2>2. new # {} => S # {}
    OBVIOUS
  <2> HIDE DEF S
  <2> QED BY <2>1, <2>2, HighestIs
<1>4. /\ restorer' \in [AllRestorers -> Restorer] /\ restorer'[r] = [restorer[r] EXCEPT !.pc = "commit"]
      /\ restorer'[r].rows = restorer[r].rows
      /\ \A o \in AllRestorers : o # r => restorer'[o] = restorer[o]
  BY <1>1, <1>2 DEF IInv, TypeOK, Restorer
<1>5. TypeOK'
  <2>1. nextId' \in 0..MaxId /\ overlapped' \in BOOLEAN
    BY <1>2, <1>3 DEF IInv, TypeOK, IdsHeld
  <2> QED BY <1>2, <1>4, <2>1 DEF IInv, TypeOK, pending, fixed, files
<1>6. CASE new = {}
  <2>1. Given /\ Distinct /\ Covered => Given' /\ Distinct' /\ Covered'
    BY <1>2, <1>4, <1>6 DEF Given, Distinct, Covered, HasId
  <2> QED BY <1>2, <1>5, <1>6, <2>1 DEF IInv
<1>7. CASE new # {} /\ IdsHeld(r)
  BY <1>2, <1>5, <1>7 DEF IInv
<1>8. CASE new # {} /\ ~IdsHeld(r)
  <2>1. nextId' = Highest(S) /\ \A i \in S : i <= nextId'
    BY <1>2, <1>3, <1>8
  <2>2. \A q \in Requests : ~HasId(q) /\ ~HasId(q)' /\ request'[q].pc # "insert"
    BY <1>2, <1>8 DEF IdsHeld, HasId
  <2>3. ASSUME NEW o \in AllRestorers, restorer'[o].pc = "commit" PROVE restorer'[o].rows["types"] \subseteq S
    <3>1. CASE o = r
      BY <3>1, <1>4
    <3>2. CASE o # r
      BY <3>2, <2>3, <1>4, <1>8 DEF IdsHeld, Inserted
    <3> QED BY <3>1, <3>2
  <2> HIDE DEF S
  <2>4. Given'
    <3>1. db'["types"] \subseteq S
      BY <1>2 DEF S
    <3> QED BY <3>1, <2>1, <2>2 DEF Given
  <2>5. Distinct'
    BY <2>2 DEF Distinct
  <2>6. Covered'
    BY <2>1, <2>2, <2>3 DEF Covered
  <2> QED BY <1>5, <2>4, <2>5, <2>6 DEF IInv
<1> QED BY <1>6, <1>7, <1>8

\* The commit: the sequence has reached the rows already.
LEMMA CommitRestoreIInv == ASSUME NEW r \in AllRestorers, IInv, CommitRestore(r) PROVE IInv'
<1> DEFINE new == restorer[r].rows
           next == IF restorer[r].fromSql THEN Marking ELSE IdleRestorer
<1>1. new \in Contents /\ db \in Contents /\ restorer[r].pc = "commit"
  BY RestorerIs DEF CommitRestore
<1>2. /\ db' = [t \in Tables |-> db[t] \cup new[t]]
      /\ behind' = behind \cup {t \in Tables : new[t] # {}}
      /\ restorer' = [restorer EXCEPT ![r] = next] /\ serving' \in BOOLEAN
      /\ UNCHANGED <<nextId, request, overlapped, pending, fixed, files, marker, dumper>>
  BY RestorerIs DEF CommitRestore, Returned
<1>3. next \in Restorer /\ next.pc # "commit"
  BY IdleIs, IdleIsSound
<1> HIDE DEF next
<1>4. /\ restorer' \in [AllRestorers -> Restorer] /\ restorer'[r] = next
      /\ \A o \in AllRestorers : o # r => restorer'[o] = restorer[o]
  BY <1>2, <1>3 DEF IInv, TypeOK
<1>5. TypeOK'
  <2>1. db' \in Contents
    BY <1>1, <1>2 DEF Contents
  <2> QED BY <1>2, <1>4, <2>1 DEF IInv, TypeOK, pending, fixed, files
<1>6. db'["types"] = db["types"] \cup new["types"]
  BY <1>2 DEF Tables
<1>7. ASSUME ~overlapped PROVE Given' /\ Distinct' /\ Covered'
  <2>0. Given /\ Distinct /\ Covered
    BY <1>7 DEF IInv
  <2>1. \A i \in new["types"] : i <= nextId /\ \A q \in Requests : HasId(q) => request[q].id # i
    BY <2>0, <1>1 DEF Covered
  <2>2. Given'
    BY <2>0, <2>1, <1>2, <1>6 DEF Given, HasId
  <2>3. Distinct'
    BY <2>0, <2>1, <1>2, <1>6 DEF Distinct, HasId
  <2>4. Covered'
    BY <2>0, <1>2, <1>3, <1>4 DEF Covered, HasId
  <2> QED BY <2>2, <2>3, <2>4
<1> QED BY <1>2, <1>5, <1>7 DEF IInv

LEMMA MarkAppliedIInv == ASSUME NEW r \in AllRestorers, IInv, MarkApplied(r) PROVE IInv'
  BY RestoreMoves, RestorerIs, IdleIs, IdleIsSound DEF MarkApplied, Returned, files

-----------------------------------------------------------------------------
(* The environment *)

LEMMA WorldIInv == IInv /\ (Tick \/ MinioDown \/ MinioBack) => IInv'
<1> SUFFICES ASSUME IInv, Tick \/ MinioDown \/ MinioBack PROVE IInv'
  OBVIOUS
<1>1. now' \in Stamps /\ minioUp' \in BOOLEAN /\ events' \in 0..MaxEvents
  <2>1. now \in Stamps /\ minioUp \in BOOLEAN /\ events \in 0..MaxEvents
    BY DEF IInv, TypeOK
  <2>2. CASE Tick
    BY <2>1, <2>2, BackupAssumption DEF Tick, Stamps
  <2>3. CASE MinioDown
    <3>1. events < MaxEvents /\ events' = events + 1 /\ now' = now /\ minioUp' = FALSE
      BY <2>3 DEF MinioDown, Fault
    <3>2. events' \in 0..MaxEvents
      BY <3>1, <2>1, BackupAssumption
    <3> QED BY <3>1, <3>2, <2>1
  <2>4. CASE MinioBack
    BY <2>1, <2>4 DEF MinioBack
  <2> QED BY <2>2, <2>3, <2>4
<1>2. UNCHANGED <<rows, pending, files, marker, serving, dumper, restorer, behind>>
  BY DEF Tick, MinioDown, MinioBack
<1>3. TypeOK'
  BY <1>1, <1>2 DEF IInv, TypeOK, rows, pending, files
<1> QED BY <1>2, <1>3, Elsewhere DEF rows

LEMMA LoseTablesIInv == ASSUME NEW t \in Tables, IInv, LoseTables(t) PROVE IInv'
<1>1. /\ db' = [u \in Tables |-> IF u = t \/ t = "types" THEN {} ELSE db[u]]
      /\ events' \in 0..MaxEvents /\ behind' = Tables
      /\ UNCHANGED <<nextId, request, overlapped, pending, now, files, minioUp, marker, serving,
                     dumper, restorer>>
  BY BackupAssumption DEF LoseTables, Fault, IInv, TypeOK
<1>2. db' \in Contents /\ db'["types"] \subseteq db["types"]
  BY <1>1 DEF IInv, TypeOK, Contents, Tables
<1>3. TypeOK'
  BY <1>1, <1>2 DEF IInv, TypeOK, pending, files
<1> QED BY <1>1, <1>2, <1>3, RowsGone

LEMMA CrashIInv ==
    ASSUME NEW volume \in {"none", "backend", "database"}, IInv, Crash(volume) PROVE IInv'
<1>1. /\ dumper' \in [Dumpers -> Dumper] /\ restorer' = [r \in AllRestorers |-> IdleRestorer]
      /\ restorer' \in [AllRestorers -> Restorer]
  BY IdleIs DEF Crash
<1>2. /\ local' \in Stores /\ marker' \in BOOLEAN /\ events' \in 0..MaxEvents /\ timer' \in Stamps
  BY NoDumpsIs, BackupAssumption DEF Crash, Fault, IInv, TypeOK, Stamps
<1>3. /\ \/ db' = db /\ nextId' = nextId /\ overlapped' = overlapped
         \/ db' = Nothing /\ nextId' = 0 /\ overlapped' = FALSE
      /\ request' = [q \in Requests |-> IdleRequest]
  BY DEF Crash, IInv, TypeOK
<1>4. /\ db' \in Contents /\ nextId' \in 0..MaxId /\ overlapped' \in BOOLEAN
      /\ request' \in [Requests -> Request]
  <2>1. request' \in [Requests -> Request]
    BY <1>3, IdleIs
  <2>2. db' \in Contents /\ nextId' \in 0..MaxId /\ overlapped' \in BOOLEAN
    <3>1. 0 \in 0..MaxId /\ TypeOK
      BY BackupAssumption DEF IInv
    <3> QED BY <1>3, <3>1, NothingIs DEF TypeOK
  <2> QED BY <2>1, <2>2
<1>5. TypeOK'
  BY <1>1, <1>2, <1>4 DEF IInv, TypeOK, Crash, Fault
<1>6. \A q \in Requests : ~HasId(q)' /\ request'[q].pc # "insert"
  BY <1>3 DEF HasId, IdleRequest
<1>7. Distinct' /\ Covered'
  BY <1>1, <1>6 DEF Distinct, Covered, IdleRestorer
<1>8. ~overlapped' => Given'
  <2>1. CASE db' = db /\ nextId' = nextId /\ overlapped' = overlapped
    BY <2>1, <1>6 DEF IInv, Given
  <2>2. CASE db' = Nothing
    BY <2>2, <1>6 DEF Given, Nothing, Tables
  <2> QED BY <2>1, <2>2, <1>3
<1> QED BY <1>5, <1>7, <1>8 DEF IInv

-----------------------------------------------------------------------------
LEMMA NextIInv == IInv /\ [Next]_bvars => IInv'
<1> SUFFICES ASSUME IInv, [Next]_bvars PROVE IInv'
  OBVIOUS
<1>1. ASSUME NEW q \in Requests, TakeId(q) \/ RequestStep(q) PROVE IInv'
  BY <1>1, TakeIdIInv, InsertTypeIInv, CommitCreateIInv, RollbackCreateIInv DEF RequestStep
<1>2. ASSUME NEW t \in Tables, NEW i \in Ids, NEW flushed \in BOOLEAN, Delete(i, t, flushed)
      PROVE  IInv'
  BY <1>2, DeleteIInv
<1>3. CASE BeginFullDump \/ TimerFires \/ BeginWriteDump
  BY <1>3, BeginDumpIInv
<1>4. ASSUME NEW d \in Dumpers, DumpStep(d) \/ DumpFails(d) PROVE IInv'
  BY <1>4, DumpStepIInv, DumpFailsIInv
<1>5. ASSUME NEW r \in AllRestorers, CheckForLoss(r) \/ StartRestore(r) \/ RestoreStep(r) PROVE IInv'
  BY <1>5, BeginRestoreIInv, FetchDumpsIInv, OpenTransactionIInv, CountTableIInv, InsertRowsIInv,
     ResetSequencesIInv, CommitRestoreIInv, MarkAppliedIInv DEF RestoreStep
<1>6. CASE Tick \/ MinioDown \/ MinioBack
  BY <1>6, WorldIInv
<1>7. ASSUME NEW t \in Tables, LoseTables(t) PROVE IInv'
  BY <1>7, LoseTablesIInv
<1>8. ASSUME NEW volume \in {"none", "backend", "database"}, Crash(volume) PROVE IInv'
  BY <1>8, CrashIInv
<1>9. CASE UNCHANGED bvars
  <2>1. TypeOK'
    BY <1>9 DEF IInv, TypeOK, bvars
  <2> QED BY <1>9, <2>1, Elsewhere DEF bvars, rows
<1> QED BY <1>1, <1>2, <1>3, <1>4, <1>5, <1>6, <1>7, <1>8, <1>9 DEF Next

THEOREM InvariantHolds == Spec => []IInv
<1> QED BY InitIInv, NextIInv, PTL DEF Spec

\* Every variable of the backup service keeps its type, the stores of dumps included.
THEOREM TypeCorrect == Spec => []TypeOK
<1>1. IInv => TypeOK
  BY DEF IInv
<1> QED BY <1>1, InvariantHolds, PTL

\* No id that the sequence gives, or has given to an INSERT that still runs, is taken by a
\* row, whatever dumps are restored and however requests and restores overlap: unless a
\* restore set the sequence while another transaction had an id (_reset_id_sequences,
\* backup.py:229).
THEOREM SequencesStayAhead == Spec => []SequencesAhead
<1>1. IInv => SequencesAhead
  BY DEF IInv, Given, Distinct, SequencesAhead
<1> QED BY <1>1, InvariantHolds, PTL

-----------------------------------------------------------------------------
(* The newest local dump is current                                        *)
(*                                                                         *)
(* The dump that a commit asks for carries what it does not read over from *)
(* the newest local one, and the scheduler's runs beside it: which of them *)
(* is the newest, and which tables each of them still owes, is what the    *)
(* invariant keeps.                                                        *)

Reading(d) == dumper[d].pc = "read"
Held(n) == \E s \in DOMAIN local : n <= s

\* The tables of which no dump is to hold the last change, and with those that the
\* scheduler's dump was begun for.
Marked == behind \cup dirty
Noted == Marked \cup dumper["scheduler"].owes

\* What the write-triggered dump was begun for, if it is going to be newer than n.
Coming(n) == IF Reading("write") /\ n <= dumper["write"].stamp THEN dumper["write"].owes ELSE {}

\* No dump is named after a second that has not come.
Stamped == /\ \A s \in DOMAIN local \cup DOMAIN minio : s <= now
           /\ \A d \in Dumpers : dumper[d].stamp <= now

\* A dump owes nothing once its file is written, or it has failed.
Owing == \A d \in Dumpers : ~Reading(d) => dumper[d].owes = {}

\* MinIO has no newer dump than the disk, once the disk has one.
Shipped == \A u \in DOMAIN minio : \/ Held(u)
                                   \/ /\ DOMAIN local = {}
                                      /\ \A d \in Dumpers : Reading(d) => u <= dumper[d].stamp

\* What MinIO may give back to an empty disk is not trusted for any table.
Unheld == DOMAIN local = {} /\ DOMAIN minio # {} => Tables \subseteq Noted \cup dumper["write"].owes

\* The write-triggered dump carries only what is still so.
WriteCurrent ==
    Reading("write") => \A t \in Tables \ (Noted \cup dumper["write"].toRead) :
                           dumper["write"].data[t] = db[t]

\* The scheduler's is current even for what it was begun for, unless it is not going to be
\* the newest, but for what a newer write-triggered dump is to hold.
FullCurrent ==
    Reading("scheduler") =>
       \/ Held(dumper["scheduler"].stamp)
       \/ \A t \in Tables \ (Marked \cup dumper["scheduler"].toRead \cup Coming(dumper["scheduler"].stamp)) :
             dumper["scheduler"].data[t] = db[t]

\* So is the newest dump, but for what the one being written is to hold.
NewestCurrent ==
    DOMAIN local # {} => \A t \in Tables \ (Noted \cup Coming(Highest(DOMAIN local))) :
                            local[Highest(DOMAIN local)][t] = db[t]

Dumped == Stamped /\ Owing /\ Shipped /\ Unheld /\ WriteCurrent /\ FullCurrent /\ NewestCurrent

\* A number of the set that none exceeds is the highest.
LEMMA HighestOnly ==
    ASSUME NEW n \in Nat, NEW S, S \subseteq 0..n, NEW h \in S, \A y \in S : y <= h
    PROVE  Highest(S) = h
<1>1. Highest(S) \in S /\ h <= Highest(S)
  BY HighestIs
<1> DEFINE k == Highest(S)
<1>2. k \in S /\ k <= h /\ h <= k
  BY <1>1
<1> HIDE DEF k
<1>3. k \in Int /\ h \in Int
  BY <1>2
<1>4. k = h
  BY <1>2, <1>3
<1> QED BY <1>4 DEF k

LEMMA NewestHas ==
    ASSUME NEW store \in Stores, DOMAIN store # {}, NEW k \in Nat, k > 0
    PROVE  Highest(DOMAIN store) \in Newest(store, k)
<1> DEFINE h == Highest(DOMAIN store)
<1>1. DOMAIN store \subseteq 0..MaxNow /\ MaxNow \in Nat
  BY StoresAre, BackupAssumption DEF Stamps
<1>2. h \in DOMAIN store /\ \A y \in DOMAIN store : y <= h
  BY <1>1, HighestIs
<1>3. {u \in DOMAIN store : u > h} = {}
  <2>1. ASSUME NEW u \in DOMAIN store, u > h PROVE FALSE
    <3>1. u <= h /\ u \in Int /\ h \in Int
      BY <1>1, <1>2
    <3> QED BY <3>1, <2>1
  <2> QED BY <2>1
<1>4. Cardinality({u \in DOMAIN store : u > h}) = 0
  BY <1>3, FS_EmptySet
<1> HIDE DEF h
<1>5. Cardinality({u \in DOMAIN store : u > h}) < k
  BY <1>4
<1>6. h \in Newest(store, k)
  BY <1>2, <1>5 DEF Newest
<1> QED BY <1>6 DEF h

\* Rotation leaves the newest dump, whatever it removes.
LEMMA RotatedKeeps ==
    ASSUME NEW store \in Stores
    PROVE  /\ DOMAIN Rotated(store) \subseteq DOMAIN store
           /\ \A s \in DOMAIN Rotated(store) : Rotated(store)[s] = store[s]
           /\ DOMAIN store # {} => /\ DOMAIN Rotated(store) # {}
                                   /\ Highest(DOMAIN Rotated(store)) = Highest(DOMAIN store)
                                   /\ Highest(DOMAIN store) \in DOMAIN Rotated(store)
<1> DEFINE n == Cardinality(DOMAIN store)
           excess == n - Retention
           dropped == IF excess >= 0 THEN excess ELSE n + excess
           k == IF dropped > 0 THEN n - dropped ELSE n
           kept == Newest(store, k)
<1>1. Rotated(store) = [s \in kept |-> store[s]]
  BY DEF Rotated, Only
<1>2. kept \subseteq DOMAIN store
  BY NewestIs
<1>3. DOMAIN Rotated(store) = kept /\ \A s \in kept : Rotated(store)[s] = store[s]
  BY <1>1
<1>4. ASSUME DOMAIN store # {} PROVE Highest(kept) = Highest(DOMAIN store) /\ Highest(DOMAIN store) \in kept
  <2>1. DOMAIN store \subseteq 0..MaxNow /\ MaxNow \in Nat
    BY StoresAre, BackupAssumption DEF Stamps
  <2>2. IsFiniteSet(0..MaxNow)
    BY <2>1, FS_Interval
  <2>3. IsFiniteSet(DOMAIN store)
    BY <2>1, <2>2, FS_Subset
  <2>4. n \in Nat /\ n # 0
    BY <2>3, <1>4, FS_CardinalityType, FS_EmptySet
  <2> HIDE DEF n
  <2>5. k \in Nat /\ k > 0
    BY <2>4, BackupAssumption
  <2> HIDE DEF k
  <2>6. Highest(DOMAIN store) \in kept
    BY <2>5, <1>4, NewestHas
  <2>7. \A y \in DOMAIN store : y <= Highest(DOMAIN store)
    BY <2>1, <1>4, HighestIs
  <2> HIDE DEF kept
  <2> QED BY <2>1, <2>6, <2>7, <1>2, HighestOnly
<1> HIDE DEF kept
<1> QED BY <1>2, <1>3, <1>4

\* Only keys of MinIO or of the disk are fetched, and the newest one of MinIO when the disk
\* has none.
LEMMA FetchedFrom ==
    ASSUME TypeOK
    PROVE  /\ DOMAIN Fetched \subseteq DOMAIN local \cup DOMAIN minio
           /\ DOMAIN local = {} /\ DOMAIN Fetched # {}
                => /\ DOMAIN minio # {} /\ DOMAIN Fetched \subseteq DOMAIN minio
                   /\ Highest(DOMAIN minio) \in DOMAIN Fetched
<1>1. local \in Stores /\ minio \in Stores
  BY DEF TypeOK
<1>2. CASE minioUp /\ DOMAIN minio # {}
  <2>1. DOMAIN Fetched = Newest(minio, HistoryDepth)
    BY <1>2 DEF Fetched
  <2>2. Highest(DOMAIN minio) \in Newest(minio, HistoryDepth)
    BY <1>1, <1>2, NewestHas, BackupAssumption
  <2> QED BY <2>1, <2>2, <1>2, NewestIs
<1>3. CASE ~(minioUp /\ DOMAIN minio # {})
  <2>1. DOMAIN Fetched = Newest(local, HistoryDepth)
    BY <1>3 DEF Fetched, Only
  <2> QED BY <2>1, NewestIs
<1> QED BY <1>2, <1>3

LEMMA DumpsAre ==
    ASSUME TypeOK
    PROVE  /\ local \in Stores /\ DOMAIN local \subseteq 0..MaxNow /\ MaxNow \in Nat
           /\ minio \in Stores /\ DOMAIN minio \subseteq 0..MaxNow /\ now \in 0..MaxNow
           /\ "write" \in Dumpers /\ "scheduler" \in Dumpers
           /\ \A d \in Dumpers : dumper[d] \in Dumper /\ dumper[d].stamp \in 0..MaxNow
           /\ \A d \in Dumpers : d = "write" \/ d = "scheduler"
<1>1. \A d \in Dumpers : dumper[d] \in Dumper
  BY DEF TypeOK
<1>2. \A d \in Dumpers : dumper[d].stamp \in Stamps
  BY <1>1 DEF Dumper
<1> QED BY <1>1, <1>2, StoresAre, BackupAssumption DEF TypeOK, Stamps, Dumpers

\* A step that leaves the dumps alone: what it changes is noted, or was not current.
LEMMA CommitKeeps ==
    ASSUME TypeOK, TypeOK', Dumped, UNCHANGED <<local, minio, dumper>>, now <= now',
           Marked \subseteq Marked', \A t \in Tables \ Marked' : db'[t] = db[t]
    PROVE  Dumped'
<1>1. /\ \A n : Held(n)' = Held(n) /\ Coming(n)' = Coming(n)
      /\ \A d : Reading(d)' = Reading(d)
  BY DEF Held, Coming, Reading
<1>2. /\ DOMAIN local \subseteq 0..MaxNow /\ DOMAIN minio \subseteq 0..MaxNow /\ MaxNow \in Nat
      /\ now \in 0..MaxNow /\ now' \in 0..MaxNow
      /\ \A d \in Dumpers : dumper[d].stamp \in 0..MaxNow
  BY DumpsAre DEF TypeOK, Stamps
<1>3. Noted \subseteq Noted' /\ Marked' \subseteq Noted'
  BY DEF Noted
<1>4. Stamped'
  <2>1. ASSUME NEW n \in 0..MaxNow, n <= now PROVE n <= now'
    BY <2>1, <1>2
  <2> QED BY <1>2, <2>1 DEF Dumped, Stamped
<1>5. Owing'
  BY <1>1 DEF Dumped, Owing
<1>6. Shipped'
  BY <1>1 DEF Dumped, Shipped
<1>7. Unheld'
  BY <1>3 DEF Dumped, Unheld
<1>8. WriteCurrent'
  <2> SUFFICES ASSUME Reading("write"), NEW t \in Tables, t \notin Noted', t \notin dumper["write"].toRead
               PROVE  dumper["write"].data[t] = db'[t]
    BY <1>1 DEF WriteCurrent
  <2>1. t \notin Noted /\ db'[t] = db[t]
    BY <1>3
  <2> QED BY <2>1 DEF Dumped, WriteCurrent
<1>9. FullCurrent'
  <2> DEFINE S == dumper["scheduler"].stamp
  <2> SUFFICES ASSUME Reading("scheduler"), ~Held(S),
                      NEW t \in Tables, t \notin Marked', t \notin dumper["scheduler"].toRead, t \notin Coming(S)
               PROVE  dumper["scheduler"].data[t] = db'[t]
    BY <1>1 DEF FullCurrent
  <2>1. t \notin Marked /\ db'[t] = db[t]
    OBVIOUS
  <2> QED BY <2>1 DEF Dumped, FullCurrent
<1>10. NewestCurrent'
  <2> DEFINE H == Highest(DOMAIN local)
  <2> SUFFICES ASSUME DOMAIN local # {}, NEW t \in Tables, t \notin Noted', t \notin Coming(H)
               PROVE  local[H][t] = db'[t]
    BY <1>1 DEF NewestCurrent
  <2>1. t \notin Noted /\ db'[t] = db[t]
    BY <1>3
  <2> QED BY <2>1 DEF Dumped, NewestCurrent
<1> QED BY <1>4, <1>5, <1>6, <1>7, <1>8, <1>9, <1>10 DEF Dumped

\* A step that leaves the newest dump where it is, and begins or ends no reading of a dump.
LEMMA StoresKeep ==
    ASSUME TypeOK, TypeOK', Dumped, UNCHANGED <<db, now, dirty, behind>>,
           DOMAIN minio' \subseteq DOMAIN minio \cup DOMAIN local,
           DOMAIN local' \subseteq DOMAIN minio \cup DOMAIN local,
           DOMAIN local # {} => /\ Highest(DOMAIN local) \in DOMAIN local'
                                /\ Highest(DOMAIN local') = Highest(DOMAIN local)
                                /\ local'[Highest(DOMAIN local)] = local[Highest(DOMAIN local)],
           DOMAIN local = {} => DOMAIN local' = {} /\ DOMAIN minio' \subseteq DOMAIN minio,
           \A d \in Dumpers : Reading(d)' = Reading(d),
           \A d \in Dumpers : Reading(d) => dumper'[d] = dumper[d],
           \A d \in Dumpers : dumper'[d].stamp \in {0, dumper[d].stamp},
           \A d \in Dumpers : dumper'[d].owes = dumper[d].owes
    PROVE  Dumped'
<1> DEFINE H == Highest(DOMAIN local)
<1>0. /\ DOMAIN local \subseteq 0..MaxNow /\ DOMAIN minio \subseteq 0..MaxNow /\ MaxNow \in Nat
      /\ DOMAIN local' \subseteq 0..MaxNow /\ now \in 0..MaxNow
      /\ "write" \in Dumpers /\ "scheduler" \in Dumpers
      /\ \A d \in Dumpers : dumper[d].stamp \in 0..MaxNow
  BY DumpsAre
<1>1. ASSUME DOMAIN local # {} PROVE H \in DOMAIN local /\ \A y \in DOMAIN local : y <= H
  BY <1>0, <1>1, HighestIs
<1>2. ASSUME NEW n \in 0..MaxNow, Held(n) PROVE Held(n)'
  <2>1. PICK s \in DOMAIN local : n <= s
    BY <1>2 DEF Held
  <2>2. s <= H /\ H \in DOMAIN local /\ H \in DOMAIN local'
    BY <1>1, <2>1
  <2>3. n <= H
    BY <2>1, <2>2, <1>0
  <2> QED BY <2>2, <2>3 DEF Held
<1> HIDE DEF H
<1>3. /\ Marked' = Marked /\ Noted' = Noted /\ dumper'["write"].owes = dumper["write"].owes
      /\ Reading("write")' = Reading("write") /\ Reading("scheduler")' = Reading("scheduler")
  BY <1>0 DEF Marked, Noted
<1>4. \A n : Coming(n)' = Coming(n)
  BY <1>0, <1>3 DEF Coming
<1>5. Stamped'
  <2>1. \A d \in Dumpers : dumper'[d].stamp <= now
    BY <1>0 DEF Dumped, Stamped
  <2> QED BY <2>1 DEF Dumped, Stamped
<1>6. Owing'
  BY DEF Dumped, Owing
<1>7. Shipped'
  <2> SUFFICES ASSUME NEW u \in DOMAIN minio'
               PROVE  \/ Held(u)'
                      \/ DOMAIN local' = {} /\ \A d \in Dumpers : Reading(d)' => u <= dumper'[d].stamp
    BY DEF Shipped
  <2>1. CASE Held(u)
    <3>1. u \in 0..MaxNow
      BY <1>0
    <3> QED BY <3>1, <2>1, <1>2
  <2>2. CASE ~Held(u)
    <3>1. u \in DOMAIN minio
      <4>1. u \in DOMAIN local => Held(u)
        BY <1>0 DEF Held
      <4> QED BY <4>1, <2>2
    <3>2. DOMAIN local = {} /\ \A d \in Dumpers : Reading(d) => u <= dumper[d].stamp
      BY <3>1, <2>2 DEF Dumped, Shipped
    <3> QED BY <3>2
  <2> QED BY <2>1, <2>2
<1>8. Unheld'
  <2>1. DOMAIN local' = {} => DOMAIN local = {}
    BY DEF H
  <2> QED BY <2>1, <1>3 DEF Dumped, Unheld
<1>9. WriteCurrent'
  BY <1>0, <1>3 DEF Dumped, WriteCurrent
<1>10. FullCurrent'
  <2>1. ASSUME Reading("scheduler") PROVE dumper'["scheduler"] = dumper["scheduler"]
    BY <2>1, <1>0
  <2>2. Reading("scheduler") /\ Held(dumper["scheduler"].stamp) => Held(dumper["scheduler"].stamp)'
    BY <1>0, <1>2, <2>1 DEF Held
  <2> QED BY <2>1, <2>2, <1>3, <1>4 DEF Dumped, FullCurrent
<1>11. NewestCurrent'
  <2>1. DOMAIN local' # {} => DOMAIN local # {} /\ Highest(DOMAIN local') = H /\ local'[H] = local[H]
    BY DEF H
  <2>2. DOMAIN local # {} => \A t \in Tables \ (Noted \cup Coming(H)) : local[H][t] = db[t]
    BY DEF Dumped, NewestCurrent, H
  <2> QED BY <2>1, <2>2, <1>3, <1>4 DEF NewestCurrent
<1> QED BY <1>5, <1>6, <1>7, <1>8, <1>9, <1>10, <1>11 DEF Dumped

-----------------------------------------------------------------------------
(* The dumps *)

LEMMA BeginFullDumped == ASSUME TypeOK, TypeOK', Dumped, BeginFullDump PROVE Dumped'
<1> DEFINE new == [pc |-> "read", stamp |-> now, toRead |-> Tables, data |-> Nothing, owes |-> behind]
<1>0. /\ DOMAIN local \subseteq 0..MaxNow /\ DOMAIN minio \subseteq 0..MaxNow /\ MaxNow \in Nat
      /\ "write" \in Dumpers /\ "scheduler" \in Dumpers /\ now \in 0..MaxNow
      /\ \A d \in Dumpers : d = "write" \/ d = "scheduler"
  BY DumpsAre
<1>1. /\ dumper' = [dumper EXCEPT !["scheduler"] = new] /\ ~Reading("scheduler") /\ behind' = {}
      /\ UNCHANGED <<db, now, dirty, local, minio>>
  BY DEF BeginFullDump, rows, pending, fixed, files, Reading
<1>2. /\ dumper'["write"] = dumper["write"] /\ dumper'["scheduler"] = new
      /\ Reading("write")' = Reading("write")
  BY <1>0, <1>1 DEF TypeOK, Reading
<1>3. new.pc = "read" /\ new.stamp = now /\ new.toRead = Tables /\ new.owes = behind
  OBVIOUS
<1> HIDE DEF new
<1>4. dumper["scheduler"].owes = {}
  BY <1>0, <1>1 DEF Dumped, Owing
<1>5. Noted' = Noted /\ \A n : Coming(n)' = Coming(n) /\ Held(n)' = Held(n)
  BY <1>1, <1>2, <1>3, <1>4 DEF Noted, Marked, Coming, Held
<1>6. Stamped'
  BY <1>0, <1>1, <1>2, <1>3 DEF Dumped, Stamped
<1>7. Owing'
  BY <1>0, <1>2, <1>3 DEF Dumped, Owing, Reading
<1>8. Shipped'
  <2> SUFFICES ASSUME NEW u \in DOMAIN minio, ~Held(u)
               PROVE  DOMAIN local = {} /\ \A d \in Dumpers : Reading(d)' => u <= dumper'[d].stamp
    BY <1>1, <1>5 DEF Shipped
  <2>1. DOMAIN local = {} /\ \A d \in Dumpers : Reading(d) => u <= dumper[d].stamp
    BY DEF Dumped, Shipped
  <2>2. u <= now
    BY DEF Dumped, Stamped
  <2> QED BY <2>1, <2>2, <1>0, <1>2, <1>3
<1>9. Unheld' /\ WriteCurrent'
  BY <1>1, <1>2, <1>5 DEF Dumped, Unheld, WriteCurrent
<1>10. FullCurrent'
  BY <1>2, <1>3 DEF FullCurrent
<1>11. NewestCurrent'
  BY <1>1, <1>5 DEF Dumped, NewestCurrent
<1> QED BY <1>6, <1>7, <1>8, <1>9, <1>10, <1>11 DEF Dumped

LEMMA BeginWriteDumped == ASSUME TypeOK, TypeOK', Dumped, BeginWriteDump PROVE Dumped'
<1> DEFINE data == IF DOMAIN local = {} THEN Nothing ELSE local[Highest(DOMAIN local)]
           toRead == IF DOMAIN local = {} THEN Tables ELSE dirty
           new == [pc |-> "read", stamp |-> now, toRead |-> toRead, data |-> data, owes |-> dirty]
<1>0. /\ DOMAIN local \subseteq 0..MaxNow /\ DOMAIN minio \subseteq 0..MaxNow /\ MaxNow \in Nat
      /\ "write" \in Dumpers /\ "scheduler" \in Dumpers /\ now \in 0..MaxNow
      /\ \A d \in Dumpers : d = "write" \/ d = "scheduler"
      /\ \A d \in Dumpers : dumper[d].stamp \in 0..MaxNow
  BY DumpsAre
<1>1. /\ dirty' = {} /\ ~Reading("write")
      /\ dumper' = IF dirty = {} THEN dumper ELSE [dumper EXCEPT !["write"] = new]
      /\ UNCHANGED <<db, now, behind, local, minio>>
  BY DEF BeginWriteDump, rows, fixed, files, Reading
<1>2. CASE dirty = {}
  <2>1. Marked' = Marked
    BY <1>1, <1>2 DEF Marked
  <2>2. now <= now'
    BY <1>0, <1>1
  <2> QED BY <2>1, <2>2, <1>1, <1>2, CommitKeeps
<1>3. CASE dirty # {}
  <2>1. /\ dumper'["scheduler"] = dumper["scheduler"] /\ dumper'["write"] = new
        /\ Reading("scheduler")' = Reading("scheduler") /\ Marked' = behind
    BY <1>0, <1>1, <1>3 DEF TypeOK, Reading, Marked
  <2>2. new.stamp = now /\ new.toRead = toRead /\ new.data = data /\ new.pc = "read" /\ new.owes = dirty
    OBVIOUS
  <2>3. /\ Noted = Noted' \cup dirty /\ Marked = Marked' \cup dirty
        /\ dumper["write"].owes = {} /\ \A n : Coming(n) = {} /\ Held(n)' = Held(n)
    BY <1>0, <1>1, <2>1 DEF Noted, Marked, Coming, Held, Dumped, Owing
  <2>4. \A t \in Tables \ (Noted' \cup toRead) : data[t] = db[t]
    <3>1. CASE DOMAIN local = {}
      BY <3>1
    <3>2. CASE DOMAIN local # {}
      BY <3>2, <2>3 DEF Dumped, NewestCurrent
    <3> QED BY <3>1, <3>2
  <2> HIDE DEF new, toRead, data
  <2>5. Reading("write")'
    BY <2>1, <2>2 DEF Reading
  <2>6. \A n : n <= now => Coming(n)' = dirty
    BY <2>1, <2>2, <2>5 DEF Coming
  <2>7. Stamped'
    BY <1>0, <1>1, <2>1, <2>2 DEF Dumped, Stamped
  <2>8. Owing'
    BY <1>0, <2>1, <2>5 DEF Dumped, Owing
  <2>9. Shipped'
    <3> SUFFICES ASSUME NEW u \in DOMAIN minio, ~Held(u)
                 PROVE  DOMAIN local = {} /\ \A d \in Dumpers : Reading(d)' => u <= dumper'[d].stamp
      BY <1>1, <2>3 DEF Shipped
    <3>1. DOMAIN local = {} /\ \A d \in Dumpers : Reading(d) => u <= dumper[d].stamp
      BY DEF Dumped, Shipped
    <3>2. u <= now
      BY DEF Dumped, Stamped
    <3> QED BY <3>1, <3>2, <1>0, <2>1, <2>2
  <2>10. Unheld'
    BY <1>1, <2>1, <2>2, <2>3 DEF Dumped, Unheld
  <2>11. WriteCurrent'
    BY <1>1, <2>1, <2>2, <2>4 DEF WriteCurrent
  <2>12. FullCurrent'
    <3>1. dumper["scheduler"].stamp <= now
      BY <1>0 DEF Dumped, Stamped
    <3>2. Coming(dumper["scheduler"].stamp)' = dirty
      BY <3>1, <2>1, <2>6
    <3> QED BY <3>2, <1>1, <2>1, <2>3 DEF Dumped, FullCurrent
  <2>13. NewestCurrent'
    <3>1. DOMAIN local # {} => Highest(DOMAIN local) <= now
      BY <1>0, HighestIs DEF Dumped, Stamped
    <3>2. DOMAIN local # {} => Coming(Highest(DOMAIN local))' = dirty
      BY <3>1, <1>1, <2>6
    <3> QED BY <3>2, <1>1, <2>3 DEF Dumped, NewestCurrent
  <2> QED BY <2>7, <2>8, <2>9, <2>10, <2>11, <2>12, <2>13 DEF Dumped
<1> QED BY <1>2, <1>3

LEMMA ReadTableDumped ==
    ASSUME TypeOK, TypeOK', Dumped, NEW d \in Dumpers, NEW t \in Tables, ReadTable(d, t)
    PROVE  Dumped'
<1> DEFINE new == [dumper[d] EXCEPT !.data = [dumper[d].data EXCEPT ![t] = db[t]],
                                    !.toRead = dumper[d].toRead \ {t}]
<1>0. /\ "write" \in Dumpers /\ "scheduler" \in Dumpers /\ dumper[d] \in Dumper
      /\ dumper[d].data \in Contents
  BY DumpsAre DEF Dumper
<1>1. /\ dumper' = [dumper EXCEPT ![d] = new] /\ dumper[d].pc = "read"
      /\ UNCHANGED <<db, now, dirty, behind, local, minio>>
  BY DEF ReadTable, rows, pending, fixed, files
<1>2. /\ new.pc = "read" /\ new.stamp = dumper[d].stamp /\ new.toRead = dumper[d].toRead \ {t}
      /\ new.owes = dumper[d].owes
      /\ \A u \in Tables : new.data[u] = IF u = t THEN db[t] ELSE dumper[d].data[u]
  BY <1>0, <1>1 DEF Dumper, Contents
<1> HIDE DEF new
<1>3. /\ dumper'[d] = new /\ \A o \in Dumpers : o # d => dumper'[o] = dumper[o]
  BY <1>1 DEF TypeOK
<1>4. /\ \A o \in Dumpers : Reading(o)' = Reading(o)
      /\ \A o \in Dumpers : dumper'[o].stamp = dumper[o].stamp
      /\ \A o \in Dumpers : dumper'[o].owes = dumper[o].owes
  BY <1>1, <1>2, <1>3 DEF Reading
<1>5. /\ Marked' = Marked /\ Noted' = Noted
      /\ \A n : Held(n)' = Held(n) /\ Coming(n)' = Coming(n)
  BY <1>0, <1>1, <1>4 DEF Marked, Noted, Held, Coming
<1>6. Stamped' /\ Owing' /\ Shipped' /\ Unheld' /\ NewestCurrent'
  <2>1. Stamped'
    BY <1>1, <1>4 DEF Dumped, Stamped
  <2>2. Owing'
    BY <1>4 DEF Dumped, Owing
  <2>3. Shipped'
    BY <1>1, <1>4, <1>5 DEF Dumped, Shipped
  <2>4. Unheld'
    BY <1>0, <1>1, <1>4, <1>5 DEF Dumped, Unheld
  <2>5. NewestCurrent'
    BY <1>1, <1>5 DEF Dumped, NewestCurrent
  <2> QED BY <2>1, <2>2, <2>3, <2>4, <2>5
<1>7. WriteCurrent'
  <2> SUFFICES ASSUME Reading("write"), NEW u \in Tables, u \notin Noted, u \notin dumper'["write"].toRead
               PROVE  dumper'["write"].data[u] = db[u]
    BY <1>0, <1>1, <1>4, <1>5 DEF WriteCurrent
  <2>1. u \notin dumper["write"].toRead => dumper["write"].data[u] = db[u]
    BY DEF Dumped, WriteCurrent
  <2> QED BY <2>1, <1>0, <1>2, <1>3
<1>8. FullCurrent'
  <2> DEFINE S == dumper["scheduler"].stamp
  <2>1. dumper'["scheduler"].stamp = S /\ Held(S)' = Held(S) /\ Coming(S)' = Coming(S)
    BY <1>0, <1>4, <1>5
  <2> SUFFICES ASSUME Reading("scheduler"), ~Held(S), NEW u \in Tables, u \notin Marked,
                      u \notin Coming(S), u \notin dumper'["scheduler"].toRead
               PROVE  dumper'["scheduler"].data[u] = db[u]
    BY <2>1, <1>0, <1>1, <1>4, <1>5 DEF FullCurrent
  <2>2. u \notin dumper["scheduler"].toRead => dumper["scheduler"].data[u] = db[u]
    BY DEF Dumped, FullCurrent
  <2> QED BY <2>2, <1>0, <1>2, <1>3
<1> QED BY <1>6, <1>7, <1>8 DEF Dumped

\* The dump that is written: of a second that has a dump, older than the newest, or the newest.
LEMMA WriteDumped ==
    ASSUME TypeOK, TypeOK', Dumped, NEW d \in Dumpers, WriteDump(d) PROVE Dumped'
<1> DEFINE n == dumper[d].stamp
           H == Highest(DOMAIN local)
           newest == \A s \in DOMAIN local : s < n
           healed == d = "write" \/ (newest /\ dumper["write"].pc # "read")
           new == [IdleDumper EXCEPT !.pc = "upload", !.stamp = n]
<1>0. /\ DOMAIN local \subseteq 0..MaxNow /\ DOMAIN minio \subseteq 0..MaxNow /\ MaxNow \in Nat
      /\ "write" \in Dumpers /\ "scheduler" \in Dumpers /\ n \in 0..MaxNow
      /\ \A o \in Dumpers : dumper[o].stamp \in 0..MaxNow
      /\ \A o \in Dumpers : o = "write" \/ o = "scheduler"
  BY DumpsAre
<1>1. /\ dumper[d].pc = "read" /\ dumper[d].toRead = {}
      /\ local' = Over([s \in {n} |-> dumper[d].data], local)
      /\ behind' = IF n \in DOMAIN local THEN Tables
                   ELSE IF healed THEN behind ELSE behind \cup dumper[d].owes
      /\ dumper' = [dumper EXCEPT ![d] = new]
      /\ UNCHANGED <<db, now, dirty, minio>>
  BY DEF WriteDump, rows, pending, fixed
<1>2. /\ DOMAIN local' = DOMAIN local \cup {n} /\ local'[n] = dumper[d].data
      /\ \A s \in DOMAIN local : s # n => local'[s] = local[s]
  BY <1>1 DEF Over
<1>3. /\ dumper'[d] = new /\ \A o \in Dumpers : o # d => dumper'[o] = dumper[o]
      /\ new.pc = "upload" /\ new.stamp = n /\ new.owes = {}
  BY <1>1 DEF TypeOK, IdleDumper
<1> HIDE DEF new
<1>4. /\ ~Reading(d)' /\ Reading(d) /\ \A o \in Dumpers : o # d => Reading(o)' = Reading(o)
      /\ \A o \in Dumpers : dumper'[o].stamp = dumper[o].stamp
  BY <1>0, <1>1, <1>3 DEF Reading
<1>5. \A m : Held(m) \/ m <= n => Held(m)'
  BY <1>2 DEF Held
<1>6. ASSUME n \notin DOMAIN local
      PROVE  /\ d = "write" => Marked' = Marked /\ Noted' = Noted
             /\ d = "scheduler" /\ ~healed => Marked \subseteq Marked' /\ Noted' = Noted
             /\ d = "scheduler" /\ healed => Noted' = Marked /\ Marked' = Marked
  <2>1. CASE d = "write"
    BY <2>1, <1>0, <1>1, <1>3, <1>6 DEF Marked, Noted
  <2>2. CASE d = "scheduler" /\ ~healed
    <3>1. dumper'["scheduler"].owes = {} /\ behind' = behind \cup dumper["scheduler"].owes /\ dirty' = dirty
      BY <2>2, <1>1, <1>3, <1>6
    <3> QED BY <3>1, <2>2 DEF Marked, Noted
  <2>3. CASE d = "scheduler" /\ healed
    <3>1. dumper'["scheduler"].owes = {} /\ behind' = behind /\ dirty' = dirty
      BY <2>3, <1>1, <1>3, <1>6
    <3> QED BY <3>1, <2>3 DEF Marked, Noted
  <2> QED BY <2>1, <2>2, <2>3, <1>0
<1>7. n \in DOMAIN local => Tables \subseteq Marked' /\ Tables \subseteq Noted'
  BY <1>1 DEF Marked, Noted
<1>8. d = "scheduler" => dumper'["write"] = dumper["write"] /\ Reading("write")' = Reading("write")
  BY <1>0, <1>3, <1>4
<1> HIDE DEF n, H, healed, newest
<1>10. Stamped'
  BY <1>0, <1>1, <1>2, <1>4 DEF Dumped, Stamped, n
<1>11. Owing'
  BY <1>3, <1>4 DEF Dumped, Owing
<1>12. Shipped'
  <2> SUFFICES ASSUME NEW u \in DOMAIN minio PROVE Held(u)'
    BY <1>1 DEF Shipped
  <2>1. Held(u) \/ u <= n
    BY <1>4 DEF Dumped, Shipped, n
  <2> QED BY <2>1, <1>5
<1>13. Unheld'
  BY <1>2 DEF Unheld
<1>14. WriteCurrent'
  <2> SUFFICES ASSUME Reading("write")', NEW t \in Tables, t \notin Noted', t \notin dumper'["write"].toRead
               PROVE  dumper'["write"].data[t] = db[t]
    BY <1>1 DEF WriteCurrent
  <2>1. d = "scheduler" /\ d # "write" /\ Reading("write") /\ dumper'["write"] = dumper["write"]
    BY <1>0, <1>3, <1>4
  <2>2. n \notin DOMAIN local /\ ~healed
    BY <2>1, <1>7 DEF healed, Reading
  <2>3. t \notin Noted /\ t \notin dumper["write"].toRead
    BY <2>1, <2>2, <1>6
  <2> QED BY <2>1, <2>3 DEF Dumped, WriteCurrent
<1>15. FullCurrent'
  <2> DEFINE S == dumper["scheduler"].stamp
  <2> SUFFICES ASSUME Reading("scheduler")', ~Held(dumper["scheduler"].stamp)', NEW t \in Tables,
                      t \notin Marked', t \notin dumper'["scheduler"].toRead
               PROVE  dumper'["scheduler"].data[t] = db[t]
    BY <1>1 DEF FullCurrent
  <2>1. d = "write" /\ Reading("scheduler") /\ dumper'["scheduler"] = dumper["scheduler"]
    BY <1>0, <1>3, <1>4
  <2>2. n \notin DOMAIN local /\ t \notin Marked /\ t \notin dumper["scheduler"].toRead
    BY <2>1, <1>6, <1>7
  <2>3. ~Held(S) /\ ~(S <= n)
    <3>1. \A m : Held(m) \/ m <= n => \E s \in DOMAIN local' : m <= s
      BY <1>5 DEF Held
    <3>2. ~ \E s \in DOMAIN local' : S <= s
      BY <2>1 DEF Held
    <3> QED BY <3>1, <3>2
  <2>4. Coming(S) = {}
    BY <2>1, <2>3 DEF Coming, n
  <2> QED BY <2>1, <2>2, <2>3, <2>4 DEF Dumped, FullCurrent
<1>16. NewestCurrent'
  <2> DEFINE H2 == Highest(DOMAIN local')
  <2> SUFFICES ASSUME NEW t \in Tables, t \notin Noted', t \notin Coming(Highest(DOMAIN local))'
               PROVE  local'[H2][t] = db[t]
    BY <1>1 DEF NewestCurrent
  <2>1. n \notin DOMAIN local
    BY <1>7
  <2>2. \/ DOMAIN local # {} /\ n < H
        \/ \A s \in DOMAIN local : s < n
    <3>1. DOMAIN local # {} => H \in DOMAIN local /\ \A s \in DOMAIN local : s <= H
      BY <1>0, HighestIs DEF H
    <3>2. CASE DOMAIN local # {} /\ n < H
      BY <3>2
    <3>3. CASE ~(DOMAIN local # {} /\ n < H)
      <4> SUFFICES ASSUME NEW s \in DOMAIN local PROVE s < n
        OBVIOUS
      <4>1. s <= H /\ ~(n < H) /\ H \in 0..MaxNow /\ s \in 0..MaxNow /\ s # n
        BY <3>1, <3>3, <2>1, <1>0
      <4> QED BY <4>1, <1>0
    <3> QED BY <3>2, <3>3
  <2>3. CASE DOMAIN local # {} /\ n < H
    <3>1. H \in DOMAIN local /\ \A s \in DOMAIN local : s <= H
      BY <2>3, <1>0, HighestIs DEF H
    <3>2. H2 = H
      <4>1. DOMAIN local' \subseteq 0..MaxNow /\ H \in DOMAIN local'
        BY <1>0, <1>2, <3>1
      <4>2. \A s \in DOMAIN local' : s <= H
        BY <1>0, <1>2, <2>3, <3>1
      <4> QED BY <4>1, <4>2, <1>0, HighestOnly
    <3>3. local'[H] = local[H]
      BY <1>2, <2>1, <3>1
    <3>4. ~healed \/ d = "write"
      <4>1. H \in 0..MaxNow /\ ~(H < n)
        BY <3>1, <2>3, <1>0
      <4> QED BY <4>1, <3>1 DEF healed, newest
    <3>5. t \notin Noted
      BY <3>4, <2>1, <1>0, <1>6
    <3>6. t \notin Coming(H)
      <4>1. CASE d = "write"
        <5>1. ~(H <= dumper["write"].stamp)
          <6>1. H \in 0..MaxNow /\ n = dumper["write"].stamp
            BY <4>1, <3>1, <1>0 DEF n
          <6> QED BY <6>1, <2>3, <1>0
        <5> QED BY <5>1 DEF Coming
      <4>2. CASE d = "scheduler"
        <5>1. Coming(Highest(DOMAIN local))' = Coming(H)
          BY <4>2, <3>2, <1>8 DEF Coming
        <5> QED BY <5>1
      <4> QED BY <4>1, <4>2, <1>0
    <3> QED BY <3>2, <3>3, <3>5, <3>6, <2>3 DEF Dumped, NewestCurrent, H
  <2>4. CASE \A s \in DOMAIN local : s < n
    <3>1. H2 = n
      <4>1. DOMAIN local' \subseteq 0..MaxNow /\ n \in DOMAIN local' /\ n <= n
        BY <1>0, <1>2
      <4>2. \A s \in DOMAIN local' : s <= n
        BY <4>1, <1>0, <1>2, <2>4
      <4> QED BY <4>1, <4>2, <1>0, HighestOnly
    <3>2. dumper[d].data[t] = db[t]
      <4>1. CASE d = "write"
        <5>1. t \notin Noted
          BY <4>1, <2>1, <1>6
        <5> QED BY <4>1, <5>1, <1>1, <1>4 DEF Dumped, WriteCurrent
      <4>2. CASE d = "scheduler"
        <5>1. ~Held(n)
          <6> SUFFICES ASSUME NEW s \in DOMAIN local, n <= s PROVE FALSE
            BY DEF Held
          <6>1. s < n /\ s \in 0..MaxNow
            BY <2>4, <1>0
          <6> QED BY <6>1, <1>0
        <5>2. t \notin Marked
          BY <4>2, <2>1, <1>6 DEF Noted
        <5>3. t \notin Coming(n)
          <6>1. Coming(Highest(DOMAIN local))' = Coming(n)
            BY <4>2, <3>1, <1>8 DEF Coming
          <6> QED BY <6>1
        <5> QED BY <4>2, <5>1, <5>2, <5>3, <1>1, <1>4 DEF Dumped, FullCurrent, n
      <4> QED BY <4>1, <4>2, <1>0
    <3> QED BY <3>1, <3>2, <1>2
  <2> QED BY <2>2, <2>3, <2>4
<1> QED BY <1>10, <1>11, <1>12, <1>13, <1>14, <1>15, <1>16 DEF Dumped

\* A dump that is over, or goes on, without reading.
LEMMA DumperRests ==
    ASSUME TypeOK, NEW d \in Dumpers, ~Reading(d), dumper[d].owes = {}, NEW pc, pc # "read",
           dumper' = Rested(d) \/ dumper' = [dumper EXCEPT ![d].pc = pc]
    PROVE  /\ \A o \in Dumpers : Reading(o)' = Reading(o)
           /\ \A o \in Dumpers : Reading(o) => dumper'[o] = dumper[o]
           /\ \A o \in Dumpers : dumper'[o].stamp \in {0, dumper[o].stamp}
           /\ \A o \in Dumpers : dumper'[o].owes = dumper[o].owes
<1>0. dumper[d] \in Dumper
  BY DEF TypeOK
<1>1. \A o \in Dumpers : o # d => dumper'[o] = dumper[o]
  BY DEF TypeOK, Rested
<1>2. /\ dumper'[d].pc # "read" /\ dumper'[d].owes = {}
      /\ dumper'[d].stamp \in {0, dumper[d].stamp}
  <2>1. CASE dumper' = Rested(d)
    BY <2>1, <1>0 DEF Rested, TypeOK, IdleDumper
  <2>2. CASE dumper' = [dumper EXCEPT ![d].pc = pc]
    BY <2>2, <1>0 DEF TypeOK, Dumper
  <2> QED BY <2>1, <2>2
<1> QED BY <1>1, <1>2 DEF Reading

LEMMA ShipDumped ==
    ASSUME TypeOK, TypeOK', Dumped, NEW d \in Dumpers,
           UploadDump(d) \/ RotateLocal(d) \/ RotateMinio(d)
    PROVE  Dumped'
<1> DEFINE own == {dumper[d].stamp} \cap DOMAIN local
<1>0. local \in Stores /\ minio \in Stores
  BY DumpsAre
<1>1. ~Reading(d) /\ dumper[d].owes = {} /\ UNCHANGED <<db, now, dirty, behind>>
  BY DEF UploadDump, RotateLocal, RotateMinio, rows, pending, fixed, Reading, Dumped, Owing
<1>2. /\ \A o \in Dumpers : Reading(o)' = Reading(o)
      /\ \A o \in Dumpers : Reading(o) => dumper'[o] = dumper[o]
      /\ \A o \in Dumpers : dumper'[o].stamp \in {0, dumper[o].stamp}
      /\ \A o \in Dumpers : dumper'[o].owes = dumper[o].owes
  <2>1. \/ dumper' = Rested(d) \/ dumper' = [dumper EXCEPT ![d].pc = "rotate"]
        \/ dumper' = [dumper EXCEPT ![d].pc = "expire"]
    BY DEF UploadDump, RotateLocal, RotateMinio
  <2> QED BY <2>1, <1>1, DumperRests
<1>3. CASE UploadDump(d)
  <2>1. local' = local /\ (minio' = minio \/ minio' = Over(Only(local, own), minio))
    BY <1>3 DEF UploadDump
  <2>2. DOMAIN Over(Only(local, own), minio) = own \cup DOMAIN minio
    BY DEF Over, Only
  <2>3. own \subseteq DOMAIN local
    OBVIOUS
  <2> HIDE DEF own
  <2>4. DOMAIN minio' \subseteq DOMAIN minio \cup DOMAIN local
    BY <2>1, <2>2, <2>3
  <2>5. DOMAIN local = {} => DOMAIN local' = {} /\ DOMAIN minio' \subseteq DOMAIN minio
    BY <2>1, <2>2, <2>3
  <2>6. DOMAIN local # {} => Highest(DOMAIN local) \in DOMAIN local'
    BY <1>0, <2>1, HighestDump
  <2> QED BY <1>1, <1>2, <2>1, <2>4, <2>5, <2>6, StoresKeep
<1>4. CASE RotateLocal(d)
  <2>1. local' = Rotated(local) /\ minio' = minio
    BY <1>4 DEF RotateLocal
  <2>2. /\ DOMAIN local' \subseteq DOMAIN local
        /\ DOMAIN local # {} => /\ Highest(DOMAIN local) \in DOMAIN local'
                                /\ Highest(DOMAIN local') = Highest(DOMAIN local)
                                /\ local'[Highest(DOMAIN local)] = local[Highest(DOMAIN local)]
    BY <1>0, <2>1, RotatedKeeps
  <2>3. DOMAIN local = {} => DOMAIN local' = {} /\ DOMAIN minio' \subseteq DOMAIN minio
    BY <2>1, <2>2
  <2>4. /\ DOMAIN minio' \subseteq DOMAIN minio \cup DOMAIN local
        /\ DOMAIN local' \subseteq DOMAIN minio \cup DOMAIN local
    BY <2>1, <2>2
  <2> QED BY <1>1, <1>2, <2>2, <2>3, <2>4, StoresKeep
<1>5. CASE RotateMinio(d)
  <2>1. local' = local /\ DOMAIN minio' \subseteq DOMAIN minio
    <3>1. DOMAIN Rotated(minio) \subseteq DOMAIN minio
      BY <1>0, RotatedKeeps
    <3> QED BY <3>1, <1>5 DEF RotateMinio
  <2>2. DOMAIN local # {} => Highest(DOMAIN local) \in DOMAIN local'
    BY <1>0, <2>1, HighestDump
  <2> QED BY <1>1, <1>2, <2>1, <2>2, StoresKeep
<1> QED BY <1>3, <1>4, <1>5

\* The tables of a dump that fails are marked as those of which no dump holds the last change.
LEMMA FailDumped ==
    ASSUME TypeOK, TypeOK', Dumped, NEW d \in Dumpers, DumpFails(d) PROVE Dumped'
<1>0. /\ DOMAIN local \subseteq 0..MaxNow /\ DOMAIN minio \subseteq 0..MaxNow /\ MaxNow \in Nat
      /\ now \in 0..MaxNow /\ "write" \in Dumpers /\ "scheduler" \in Dumpers
      /\ \A o \in Dumpers : dumper[o].stamp \in 0..MaxNow
      /\ \A o \in Dumpers : o = "write" \/ o = "scheduler"
  BY DumpsAre
<1>1. /\ behind' = behind \cup dumper[d].owes /\ dumper' = Rested(d)
      /\ UNCHANGED <<db, now, dirty, local, minio>>
  BY DEF DumpFails, Fault, rows, pending, files
<1>2. /\ dumper'[d].pc = "idle" /\ dumper'[d].owes = {} /\ dumper'[d].stamp \in {0, dumper[d].stamp}
      /\ \A o \in Dumpers : o # d => dumper'[o] = dumper[o]
  BY <1>1 DEF Rested, TypeOK, IdleDumper
<1>3. /\ ~Reading(d)' /\ \A o \in Dumpers : Reading(o)' => o # d /\ Reading(o)
      /\ \A o \in Dumpers : o # d => Reading(o)' = Reading(o)
  BY <1>2 DEF Reading
<1>4. /\ Marked' = Marked \cup dumper[d].owes /\ \A n : Held(n)' = Held(n)
      /\ d = "scheduler" => Noted' = Noted
      /\ d = "write" => Noted' = Noted \cup dumper["write"].owes
  BY <1>0, <1>1, <1>2 DEF Marked, Noted, Held
<1>5. Stamped'
  <2>1. \A o \in Dumpers : dumper'[o].stamp <= now
    BY <1>0, <1>2 DEF Dumped, Stamped
  <2> QED BY <2>1, <1>1 DEF Dumped, Stamped
<1>6. Owing'
  BY <1>2, <1>3 DEF Dumped, Owing
<1>7. Shipped'
  <2>1. ASSUME NEW o \in Dumpers, Reading(o)' PROVE Reading(o) /\ dumper'[o] = dumper[o]
    BY <2>1, <1>2, <1>3
  <2> QED BY <2>1, <1>1, <1>4 DEF Dumped, Shipped
<1>8. Unheld'
  <2>1. Noted \cup dumper["write"].owes \subseteq Noted' \cup dumper'["write"].owes
    <3>1. CASE d = "write"
      BY <3>1, <1>4
    <3>2. CASE d = "scheduler"
      BY <3>2, <1>0, <1>2, <1>4
    <3> QED BY <3>1, <3>2, <1>0
  <2> QED BY <2>1, <1>1 DEF Dumped, Unheld
<1>9. WriteCurrent'
  <2>1. ASSUME Reading("write")' PROVE d = "scheduler" /\ Reading("write") /\ dumper'["write"] = dumper["write"]
    BY <2>1, <1>0, <1>2, <1>3
  <2> QED BY <2>1, <1>1, <1>4 DEF Dumped, WriteCurrent
<1>10. FullCurrent'
  <2>1. ASSUME Reading("scheduler")'
        PROVE  d = "write" /\ Reading("scheduler") /\ dumper'["scheduler"] = dumper["scheduler"]
    BY <2>1, <1>0, <1>2, <1>3
  <2> SUFFICES ASSUME Reading("scheduler")', ~Held(dumper["scheduler"].stamp), NEW t \in Tables, t \notin Marked',
                      t \notin dumper["scheduler"].toRead, t \notin Coming(dumper["scheduler"].stamp)'
               PROVE  dumper["scheduler"].data[t] = db[t]
    BY <2>1, <1>1, <1>2, <1>4 DEF FullCurrent, Coming
  <2>2. t \notin Marked /\ t \notin Coming(dumper["scheduler"].stamp)
    <3>1. dumper'["scheduler"] = dumper["scheduler"]
      BY <2>1
    <3>2. ASSUME t \in Coming(dumper["scheduler"].stamp) PROVE FALSE
      <4>1. t \in dumper["write"].owes /\ d = "write"
        BY <3>2, <2>1 DEF Coming
      <4> QED BY <4>1, <1>4
    <3> QED BY <3>2, <1>4
  <2> QED BY <2>1, <2>2 DEF Dumped, FullCurrent
<1>11. NewestCurrent'
  <2> DEFINE H == Highest(DOMAIN local)
  <2>1. ASSUME NEW t \in Tables, t \notin Noted', t \notin Coming(H)' PROVE t \notin Noted /\ t \notin Coming(H)
    <3>1. t \notin Noted
      BY <2>1, <1>0, <1>4
    <3>2. CASE d = "write"
      BY <3>1, <3>2, <2>1, <1>4 DEF Coming
    <3>3. CASE d = "scheduler"
      <4>1. dumper'["write"] = dumper["write"] /\ Reading("write")' = Reading("write")
        BY <3>3, <1>0, <1>2, <1>3
      <4> QED BY <3>1, <4>1, <2>1, <1>1 DEF Coming
    <3> QED BY <3>1, <3>2, <3>3, <1>0
  <2> QED BY <2>1, <1>1 DEF Dumped, NewestCurrent
<1> QED BY <1>5, <1>6, <1>7, <1>8, <1>9, <1>10, <1>11 DEF Dumped

-----------------------------------------------------------------------------
(* The restores, the crash, and the other steps *)

\* What a check or a restore fetches to the disk: nothing newer than what is there, or, to
\* an empty disk, what is trusted for no table or is about to be replaced.
LEMMA FetchDumped ==
    ASSUME TypeOK, TypeOK', Dumped, local' = Over(local, Fetched),
           UNCHANGED <<db, now, dirty, behind, minio, dumper>>
    PROVE  Dumped'
<1> DEFINE H == Highest(DOMAIN local)
           M == Highest(DOMAIN minio)
<1>0. /\ DOMAIN local \subseteq 0..MaxNow /\ DOMAIN minio \subseteq 0..MaxNow /\ MaxNow \in Nat
      /\ "write" \in Dumpers /\ DOMAIN Fetched \subseteq DOMAIN local \cup DOMAIN minio
      /\ \A d \in Dumpers : dumper[d].stamp \in 0..MaxNow
  BY DumpsAre, FetchedFrom
<1>1. /\ DOMAIN local' = DOMAIN local \cup DOMAIN Fetched
      /\ \A s \in DOMAIN local : local'[s] = local[s]
  BY DEF Over
<1>2. \A d \in Dumpers : Reading(d)' = Reading(d)
  BY DEF Reading
<1>3. CASE DOMAIN local # {}
  <2>1. H \in DOMAIN local /\ \A s \in DOMAIN local : s <= H
    BY <1>0, <1>3, HighestIs
  <2> HIDE DEF H
  <2>2. ASSUME NEW s \in DOMAIN local' PROVE s <= H
    <3>1. CASE s \in DOMAIN local
      BY <3>1, <2>1
    <3>2. CASE s \in DOMAIN minio
      <4>1. PICK u \in DOMAIN local : s <= u
        BY <3>2, <1>3 DEF Dumped, Shipped, Held
      <4>2. u <= H /\ s \in 0..MaxNow /\ u \in 0..MaxNow /\ H \in 0..MaxNow
        BY <4>1, <3>2, <2>1, <1>0
      <4> QED BY <4>1, <4>2, <1>0
    <3> QED BY <3>1, <3>2, <1>0, <1>1
  <2>3. Highest(DOMAIN local') = H /\ H \in DOMAIN local'
    <3>1. DOMAIN local' \subseteq 0..MaxNow /\ H \in DOMAIN local'
      BY <1>0, <1>1, <2>1
    <3> QED BY <3>1, <2>2, <1>0, HighestOnly
  <2>4. local'[H] = local[H]
    BY <1>1, <2>1
  <2>5. H = Highest(DOMAIN local)
    BY DEF H
  <2>6. DOMAIN local' \subseteq DOMAIN minio \cup DOMAIN local
    BY <1>0, <1>1
  <2> QED BY <1>2, <1>3, <2>3, <2>4, <2>5, <2>6, StoresKeep
<1>4. CASE DOMAIN local = {} /\ DOMAIN Fetched = {}
  <2>1. DOMAIN local' = {}
    BY <1>1, <1>4
  <2> QED BY <1>2, <1>4, <2>1, StoresKeep
<1>5. CASE DOMAIN local = {} /\ DOMAIN Fetched # {}
  <2>1. DOMAIN minio # {} /\ DOMAIN local' \subseteq DOMAIN minio /\ M \in DOMAIN local'
    BY <1>1, <1>5, FetchedFrom
  <2>2. M \in DOMAIN minio /\ \A u \in DOMAIN minio : u <= M
    BY <2>1, <1>0, HighestIs
  <2> HIDE DEF M
  <2>3. Highest(DOMAIN local') = M
    BY <2>1, <2>2, <1>0, HighestOnly
  <2>4. Tables \subseteq Noted \cup dumper["write"].owes
    BY <2>1, <1>5 DEF Dumped, Unheld
  <2>5. dumper["write"].owes \subseteq Coming(M)
    <3>1. ~Reading("write") => dumper["write"].owes = {}
      BY <1>0 DEF Dumped, Owing
    <3>2. Reading("write") => M <= dumper["write"].stamp
      BY <2>2, <1>0, <1>5 DEF Dumped, Shipped, Held
    <3> QED BY <3>1, <3>2 DEF Coming
  <2>6. Stamped'
    BY <2>1 DEF Dumped, Stamped
  <2>7. Owing'
    BY <1>2 DEF Dumped, Owing
  <2>8. Shipped'
    BY <2>1, <2>2 DEF Shipped, Held
  <2>9. Unheld'
    BY <2>1 DEF Unheld
  <2>10. Marked' = Marked /\ Noted' = Noted /\ Reading("write")' = Reading("write")
    BY <1>2 DEF Marked, Noted, Reading
  <2>11. WriteCurrent'
    BY <1>0, <2>10 DEF Dumped, WriteCurrent
  <2>12. FullCurrent'
    <3>1. ~Held(dumper["scheduler"].stamp)
      BY <1>5 DEF Held
    <3>2. Coming(dumper["scheduler"].stamp)' = Coming(dumper["scheduler"].stamp)
      BY <2>10 DEF Coming
    <3>3. Reading("scheduler")' = Reading("scheduler")
      BY DEF Reading
    <3> QED BY <3>1, <3>2, <3>3, <2>10 DEF Dumped, FullCurrent
  <2>13. NewestCurrent'
    <3>1. Coming(Highest(DOMAIN local))' = Coming(M)
      BY <2>3, <2>10 DEF Coming
    <3>2. Tables \subseteq Noted' \cup Coming(Highest(DOMAIN local))'
      BY <3>1, <2>4, <2>5, <2>10
    <3> QED BY <3>2 DEF NewestCurrent
  <2> QED BY <2>6, <2>7, <2>8, <2>9, <2>11, <2>12, <2>13 DEF Dumped
<1> QED BY <1>3, <1>4, <1>5

\* A crash ends every dump, and no table is trusted.
LEMMA CrashDumped ==
    ASSUME TypeOK, TypeOK', Dumped, NEW volume \in {"none", "backend", "database"}, Crash(volume)
    PROVE  Dumped'
<1>0. now \in 0..MaxNow /\ MaxNow \in Nat
  BY DumpsAre
<1>1. /\ UNCHANGED <<now, minio>> /\ Tables \subseteq Noted'
      /\ \A d \in Dumpers : ~Reading(d)' /\ dumper'[d].stamp = 0 /\ dumper'[d].owes = {}
      /\ DOMAIN local' = {} \/ local' = local
  BY NoDumpsIs DEF Crash, Fault, Noted, Marked, Reading, IdleDumper
<1>2. "write" \in Dumpers /\ "scheduler" \in Dumpers
  BY DEF Dumpers
<1>3. Stamped'
  BY <1>0, <1>1 DEF Dumped, Stamped
<1>4. Shipped'
  <2>1. CASE DOMAIN local' = {}
    BY <1>1, <2>1 DEF Shipped
  <2>2. CASE local' = local
    BY <1>1, <2>2 DEF Dumped, Shipped, Held
  <2> QED BY <1>1, <2>1, <2>2
<1>5. Owing' /\ Unheld' /\ WriteCurrent' /\ FullCurrent' /\ NewestCurrent'
  BY <1>1, <1>2 DEF Owing, Unheld, WriteCurrent, FullCurrent, NewestCurrent
<1> QED BY <1>3, <1>4, <1>5 DEF Dumped

\* What a commit changes it notes, or the history says so.
LEMMA ChangesNoted ==
    ASSUME NEW changed \in SUBSET Tables, NEW seen \in SUBSET Tables, NoteCommit(changed, seen),
           NEW i \in Ids,
           \/ db' = [t \in Tables |-> IF t \in changed THEN db[t] \cup {i} ELSE db[t]]
           \/ \E gone \in SUBSET Tables :
                 /\ db' = [u \in Tables |-> IF u \in gone THEN db[u] \ {i} ELSE db[u]]
                 /\ changed = {u \in gone : i \in db[u]}
    PROVE  /\ UNCHANGED <<local, minio, dumper, now>> /\ Marked \subseteq Marked'
           /\ \A t \in Tables \ Marked' : db'[t] = db[t]
<1>1. /\ UNCHANGED <<local, minio, dumper>> /\ Marked' = Marked \cup changed \cup seen
      /\ now' = now
  BY DEF NoteCommit, files, Marked
<1>2. \A t \in Tables \ changed : db'[t] = db[t]
  <2>1. ASSUME NEW gone \in SUBSET Tables,
               db' = [u \in Tables |-> IF u \in gone THEN db[u] \ {i} ELSE db[u]],
               changed = {u \in gone : i \in db[u]},
               NEW t \in Tables \ changed
        PROVE  db'[t] = db[t]
    BY <2>1
  <2> QED BY <2>1
<1> QED BY <1>1, <1>2

LEMMA CommitDumped ==
    ASSUME TypeOK, TypeOK', Dumped,
           \/ \E q \in Requests : TakeId(q) \/ RequestStep(q)
           \/ \E t \in Tables, i \in Ids, flushed \in BOOLEAN : Delete(i, t, flushed)
    PROVE  Dumped'
<1>0. now <= now
  BY DumpsAre
<1>1. ASSUME NEW q \in Requests, NEW flushed \in BOOLEAN, CommitCreate(q, flushed) PROVE Dumped'
  <2> DEFINE i == request[q].id
             changed == request[q].rows
             seen == IF flushed THEN {} ELSE changed
  <2>1. changed \in SUBSET Tables /\ seen \in SUBSET Tables /\ i \in Ids
    BY <1>1, RequestIs DEF CommitCreate
  <2>2. /\ NoteCommit(changed, seen)
        /\ db' = [t \in Tables |-> IF t \in changed THEN db[t] \cup {i} ELSE db[t]]
    BY <1>1 DEF CommitCreate
  <2> HIDE DEF i, changed, seen
  <2>3. /\ UNCHANGED <<local, minio, dumper, now>> /\ Marked \subseteq Marked'
        /\ \A t \in Tables \ Marked' : db'[t] = db[t]
    BY <2>1, <2>2, ChangesNoted
  <2> QED BY <2>3, <1>0, CommitKeeps
<1>2. ASSUME NEW t \in Tables, NEW i \in Ids, NEW flushed \in BOOLEAN, Delete(i, t, flushed)
      PROVE  Dumped'
  <2> DEFINE gone == IF t = "types" THEN Tables ELSE {t}
             seen == IF flushed THEN {} ELSE {t}
             changed == {u \in gone : i \in db[u]}
  <2>1. gone \in SUBSET Tables /\ changed \in SUBSET Tables /\ seen \in SUBSET Tables
    OBVIOUS
  <2>2. /\ NoteCommit(changed, seen)
        /\ db' = [u \in Tables |-> IF u \in gone THEN db[u] \ {i} ELSE db[u]]
        /\ changed = {u \in gone : i \in db[u]}
    BY <1>2 DEF Delete
  <2> HIDE DEF gone, changed, seen
  <2>3. /\ UNCHANGED <<local, minio, dumper, now>> /\ Marked \subseteq Marked'
        /\ \A u \in Tables \ Marked' : db'[u] = db[u]
    BY <2>1, <2>2, ChangesNoted
  <2> QED BY <2>3, <1>0, CommitKeeps
<1>3. ASSUME NEW q \in Requests,
             TakeId(q) \/ RollbackCreate(q) \/ \E linked \in BOOLEAN : InsertType(q, linked)
      PROVE  Dumped'
  <2>1. UNCHANGED <<db, local, minio, dumper, now, dirty, behind>>
    BY <1>3 DEF TakeId, RollbackCreate, InsertType, pending, fixed, files
  <2> QED BY <2>1, <1>0, CommitKeeps DEF Marked
<1> QED BY <1>1, <1>2, <1>3 DEF RequestStep

LEMMA RestoreDumped ==
    ASSUME TypeOK, TypeOK', Dumped, NEW r \in AllRestorers,
           CheckForLoss(r) \/ StartRestore(r) \/ RestoreStep(r)
    PROVE  Dumped'
<1>0. now <= now
  BY DumpsAre
<1>1. CASE CheckForLoss(r)
  BY <1>1, FetchDumped DEF CheckForLoss, rows, pending, fixed
<1>2. CASE FetchDumps(r)
  <2>1. UNCHANGED <<db, now, dirty, behind, minio, dumper>>
    BY <1>2 DEF FetchDumps, rows, pending, fixed
  <2>2. local' = local \/ local' = Over(local, Fetched)
    BY <1>2 DEF FetchDumps
  <2>3. CASE local' = local
    BY <2>1, <2>3, <1>0, CommitKeeps DEF Marked
  <2> QED BY <2>1, <2>2, <2>3, FetchDumped
<1>3. CASE CommitRestore(r)
  <2> DEFINE restored == {t \in Tables : restorer[r].rows[t] # {}}
  <2>1. /\ UNCHANGED <<local, minio, dumper, now, dirty>>
        /\ behind' = behind \cup restored
        /\ db' = [t \in Tables |-> db[t] \cup restorer[r].rows[t]]
    BY <1>3 DEF CommitRestore, pending, fixed, files
  <2>2. Marked \subseteq Marked' /\ restored \subseteq Marked'
    BY <2>1 DEF Marked
  <2>3. \A t \in Tables \ Marked' : db'[t] = db[t]
    BY <2>1, <2>2
  <2> QED BY <2>1, <2>2, <2>3, <1>0, CommitKeeps
<1>4. CASE \/ StartRestore(r) \/ OpenTransaction(r) \/ ResetSequences(r) \/ MarkApplied(r)
           \/ \E t \in Tables : CountTable(r, t) \/ InsertRows(r, t)
  <2>1. UNCHANGED <<db, local, minio, dumper, now, dirty, behind>>
    BY <1>4 DEF StartRestore, OpenTransaction, ResetSequences, MarkApplied, CountTable, InsertRows, rows, pending,
                fixed, files
  <2> QED BY <2>1, <1>0, CommitKeeps DEF Marked
<1> QED BY <1>1, <1>2, <1>3, <1>4 DEF RestoreStep

LEMMA WorldDumped ==
    ASSUME TypeOK, TypeOK', Dumped,
           \/ TimerFires \/ Tick \/ MinioDown \/ MinioBack \/ UNCHANGED bvars
           \/ \E t \in Tables : LoseTables(t)
    PROVE  Dumped'
<1>0. now \in 0..MaxNow
  BY DumpsAre
<1>1. CASE \/ TimerFires \/ Tick \/ MinioDown \/ MinioBack \/ UNCHANGED bvars
  <2>1. UNCHANGED <<db, local, minio, dumper, dirty, behind>> /\ now <= now'
    BY <1>0, <1>1 DEF TimerFires, Tick, MinioDown, MinioBack, Fault, bvars, rows, pending, fixed, files
  <2> QED BY <2>1, CommitKeeps DEF Marked
<1>2. ASSUME NEW t \in Tables, LoseTables(t) PROVE Dumped'
  <2>1. UNCHANGED <<local, minio, dumper, now, dirty>> /\ behind' = Tables
    BY <1>2 DEF LoseTables, Fault, pending, files
  <2>2. Marked \subseteq Marked' /\ Tables \subseteq Marked'
    BY <2>1 DEF Marked, TypeOK
  <2>3. now <= now'
    BY <1>0, <2>1
  <2> QED BY <2>1, <2>2, <2>3, CommitKeeps
<1> QED BY <1>1, <1>2

LEMMA NextDumped == IInv /\ IInv' /\ Dumped /\ [Next]_bvars => Dumped'
<1> SUFFICES ASSUME TypeOK, TypeOK', Dumped, [Next]_bvars PROVE Dumped'
  BY DEF IInv
<1>1. ASSUME NEW d \in Dumpers, DumpStep(d) \/ DumpFails(d) PROVE Dumped'
  BY <1>1, ReadTableDumped, WriteDumped, ShipDumped, FailDumped DEF DumpStep
<1>2. ASSUME NEW r \in AllRestorers, CheckForLoss(r) \/ StartRestore(r) \/ RestoreStep(r)
      PROVE  Dumped'
  BY <1>2, RestoreDumped
<1>3. ASSUME NEW volume \in {"none", "backend", "database"}, Crash(volume) PROVE Dumped'
  BY <1>3, CrashDumped
<1>4. CASE BeginFullDump \/ BeginWriteDump
  BY <1>4, BeginFullDumped, BeginWriteDumped
<1>5. CASE \/ \E q \in Requests : TakeId(q) \/ RequestStep(q)
           \/ \E t \in Tables, i \in Ids, flushed \in BOOLEAN : Delete(i, t, flushed)
  BY <1>5, CommitDumped
<1>6. CASE \/ TimerFires \/ Tick \/ MinioDown \/ MinioBack \/ UNCHANGED bvars
           \/ \E t \in Tables : LoseTables(t)
  BY <1>6, WorldDumped
<1> QED BY <1>1, <1>2, <1>3, <1>4, <1>5, <1>6 DEF Next

LEMMA InitDumped == Init => Dumped
<1> SUFFICES ASSUME Init PROVE Dumped
  OBVIOUS
<1>1. DOMAIN local = {} /\ DOMAIN minio = {} /\ now = 1
  BY NoDumpsIs DEF Init
<1>2. \A d \in Dumpers : ~Reading(d) /\ dumper[d].stamp = 0 /\ dumper[d].owes = {}
  BY DEF Init, Reading, IdleDumper
<1>3. "write" \in Dumpers /\ "scheduler" \in Dumpers
  BY DEF Dumpers
<1>4. Stamped /\ Owing
  BY <1>1, <1>2 DEF Stamped, Owing
<1>5. Shipped /\ Unheld /\ NewestCurrent
  BY <1>1 DEF Shipped, Unheld, NewestCurrent
<1> QED BY <1>2, <1>3, <1>4, <1>5 DEF Dumped, WriteCurrent, FullCurrent

\* Once the write-triggered dump has ended, the newest local dump holds what the database
\* holds, but for the tables whose change the hooks missed or whose dump failed, until a full
\* dump has read them: however the scheduler's dumps overlap it, whichever of the two fails,
\* whatever the rotation removes and whatever a restore brings back to the disk (create_dump,
\* _rotate_old_dumps and _fetch_recent_dumps, backup.py).
THEOREM NewestStaysCurrent == Spec => []NewestDumpIsCurrent
<1>1. Dumped => NewestDumpIsCurrent
  <2> SUFFICES ASSUME NewestCurrent, dirty = {}, ~Reading("write"), DOMAIN local # {}, NEW t \in Tables,
                      t \notin behind, t \notin dumper["scheduler"].owes
               PROVE  local[Highest(DOMAIN local)][t] = db[t]
    BY DEF Dumped, NewestDumpIsCurrent, Reading
  <2> QED BY DEF NewestCurrent, Noted, Marked, Coming
<1>2. Spec => [](IInv /\ Dumped)
  BY InitIInv, InitDumped, NextIInv, NextDumped, PTL DEF Spec
<1> QED BY <1>1, <1>2, PTL
=============================================================================
