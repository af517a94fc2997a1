---------------------------- MODULE StationProofs ----------------------------
(***************************************************************************)
(* The parts of the station.  The data recorder and the accounts with      *)
(* their audit trail are proved about on their own; the types of the       *)
(* serial bridge, the vessel's feed, the stream and the camera follow, and *)
(* MCStation, which runs one of the parts, keeps the invariants of all,    *)
(* those of FleetProofs included: everything for every value of the        *)
(* constants.                                                              *)
(***************************************************************************)
EXTENDS MCStation, FleetProofs, FiniteSetTheorems, SequenceTheorems,
        WellFoundedInduction, TLAPS

-----------------------------------------------------------------------------
(***************************************************************************)
(* DataRecorder keeps its types and loses no reading, whatever the bounds, *)
(* the drones and the readings.  The invariant below adds to the two       *)
(* properties what the code relies on: a frame is at most as old as the    *)
(* last recorded one, and a batch exists only while a flush is under way.  *)
(***************************************************************************)

Buffers == {rowsOf, batch.frames, pending}

\* What is buffered or stored was recorded, and is not newer than the last reading.
Ordered == /\ \A d \in DOMAIN last : last[d].at <= records
           /\ \A fs \in Buffers : \A d \in DOMAIN fs :
                 /\ fs[d].at <= records
                 /\ d \in DOMAIN last => fs[d].at <= last[d].at
           /\ \A d \in DOMAIN pending : d \in DOMAIN last => pending[d] = last[d]

Counted == /\ stored \in Nat /\ dropped \in Nat
           /\ flusher \notin {"write", "finish"} => batch = EmptyBatch
           /\ flusher = "finish" => stage = "final"

RecorderIInv == RecorderTypeOK /\ RecorderLosesNothing /\ Ordered /\ Counted

-----------------------------------------------------------------------------
(* Functions from drones to frames *)

\* What is a table of frames: any function from some drones to frames.
LEMMA FramesAre == \A fs : fs \in Frames <=> /\ DOMAIN fs \subseteq RecDrones
                                             /\ fs \in [DOMAIN fs -> Frame]
  BY DEF Frames

\* The empty table.
LEMMA NoFrameIsFrames == NoFrame \in Frames /\ DOMAIN NoFrame = {}
<1>1. DOMAIN NoFrame = {} /\ NoFrame \in [{} -> Frame]
  BY DEF NoFrame
<1> QED BY <1>1, FramesAre

\* Writing one table over another: the newer entry wins.
LEMMA UpsertedIs ==
    ASSUME NEW new \in Frames, NEW old \in Frames
    PROVE  /\ Upserted(new, old) \in Frames
           /\ DOMAIN Upserted(new, old) = DOMAIN new \cup DOMAIN old
           /\ \A d \in DOMAIN new : Upserted(new, old)[d] = new[d]
           /\ \A d \in DOMAIN old : d \notin DOMAIN new => Upserted(new, old)[d] = old[d]
<1> DEFINE u == Upserted(new, old)
           D == DOMAIN new \cup DOMAIN old
<1>1. u = [d \in D |-> IF d \in DOMAIN new THEN new[d] ELSE old[d]]
  BY DEF Upserted
<1>2. /\ DOMAIN new \subseteq RecDrones /\ new \in [DOMAIN new -> Frame]
      /\ DOMAIN old \subseteq RecDrones /\ old \in [DOMAIN old -> Frame]
  BY FramesAre
<1>3. u \in [D -> Frame] /\ DOMAIN u = D
  BY <1>1, <1>2
<1>4. u \in Frames
  BY <1>2, <1>3, FramesAre
<1> QED BY <1>1, <1>3, <1>4

\* The table of one frame.
LEMMA OneFrame ==
    ASSUME NEW d \in RecDrones, NEW f \in Frame
    PROVE  /\ [x \in {d} |-> f] \in Frames /\ DOMAIN [x \in {d} |-> f] = {d}
           /\ [x \in {d} |-> f][d] = f
<1>1. [x \in {d} |-> f] \in [{d} -> Frame] /\ DOMAIN [x \in {d} |-> f] = {d}
  OBVIOUS
<1> QED BY <1>1, FramesAre

-----------------------------------------------------------------------------
(* The initial state and the steps *)

LEMMA InitRecorderIInv == RecorderInit => RecorderIInv
<1> SUFFICES ASSUME RecorderInit PROVE RecorderIInv
  OBVIOUS
<1>1. RecorderTypeOK
  BY NoFrameIsFrames, RecorderAssumption
     DEF RecorderInit, RecorderTypeOK, Stages, EmptyBatch
<1>2. RecorderLosesNothing
  BY NoFrameIsFrames DEF RecorderInit, RecorderLosesNothing, EmptyBatch
<1>3. Ordered /\ Counted
  BY NoFrameIsFrames DEF RecorderInit, Ordered, Counted, EmptyBatch, Buffers
<1> QED BY <1>1, <1>2, <1>3 DEF RecorderIInv

\* A step that leaves tables, buffers, batch and counters of lost rows alone.
LEMMA StageStep ==
    ASSUME RecorderIInv, RecorderTypeOK',
           UNCHANGED <<memory, batch, tables, missed, dropped, records>>,
           flusher' = flusher \/ (flusher' = "sleep" /\ flusher # "write"),
           stage # "final"
    PROVE  RecorderIInv'
<1>1. RecorderLosesNothing'
  BY DEF RecorderIInv, RecorderLosesNothing, memory, tables
<1>2. Ordered'
  BY DEF RecorderIInv, Ordered, memory, tables, Buffers
<1>3. Counted'
  BY DEF RecorderIInv, Counted, memory, tables, EmptyBatch
<1> QED BY <1>1, <1>2, <1>3 DEF RecorderIInv

LEMMA BootsIInv == RecorderIInv /\ Boots => RecorderIInv'
<1> SUFFICES ASSUME RecorderIInv, Boots PROVE RecorderIInv'
  OBVIOUS
<1>1. RecorderTypeOK'
  BY DEF RecorderIInv, RecorderTypeOK, Boots, memory, tables, counters, Stages
<1> QED BY <1>1, StageStep DEF Boots, counters

LEMMA StartsUpIInv == RecorderIInv /\ StartsUp => RecorderIInv'
<1> SUFFICES ASSUME RecorderIInv, StartsUp PROVE RecorderIInv'
  OBVIOUS
<1>1. flusher \notin {"sleep", "write"}
  BY DEF RecorderIInv, RecorderTypeOK, StartsUp
<1>2. stage' \in Stages /\ secondary' \in 0..7
  BY DEF StartsUp, Stages
<1>3. RecorderTypeOK'
  BY <1>1, <1>2 DEF RecorderIInv, RecorderTypeOK, StartsUp, memory, tables, counters
<1> QED BY <1>3, StageStep DEF StartsUp, counters

LEMMA ServiceStartsIInv ==
    ASSUME NEW ok \in BOOLEAN, RecorderIInv, ServiceStarts(ok) PROVE RecorderIInv'
<1>1. /\ secondary' \in 0..7
      /\ flusher' = flusher \/ (flusher' = "sleep" /\ flusher # "write" /\ secondary' > 3)
      /\ flusher \in {"sleep", "write"} => secondary' > 3
  BY DEF RecorderIInv, RecorderTypeOK, ServiceStarts, Services
<1>2. RecorderTypeOK'
  BY <1>1 DEF RecorderIInv, RecorderTypeOK, ServiceStarts, memory, tables, counters
<1> QED BY <1>1, <1>2, StageStep DEF ServiceStarts, counters

LEMMA ShutsDownIInv == RecorderIInv /\ ShutsDown => RecorderIInv'
<1> SUFFICES ASSUME RecorderIInv, ShutsDown PROVE RecorderIInv'
  OBVIOUS
<1>1. RecorderTypeOK'
  BY DEF RecorderIInv, RecorderTypeOK, ShutsDown, memory, tables, counters, Stages
<1> QED BY <1>1, StageStep DEF ShutsDown, counters

\* A reading that is recorded is the newest of all.
LEMMA RecordIInv ==
    ASSUME NEW d \in RecDrones, NEW r \in Readings, RecorderIInv, Record(d, r) PROVE RecorderIInv'
<1> DEFINE f == [at |-> records + 1, reading |-> r]
           new == [x \in {d} |-> f]
<1>1. /\ last' = Upserted(new, last) /\ pending' = Upserted(new, pending)
      /\ records' = records + 1 /\ records \in Nat /\ records < MaxRecords
      /\ missed' = missed \ {d}
      /\ UNCHANGED <<stage, secondary, flusher, batch, rowsOf, stored, ends>>
  BY RecorderAssumption DEF Record, RecorderIInv, RecorderTypeOK, tables
<1>2. f \in Frame /\ f.at = records + 1
  BY <1>1, RecorderAssumption DEF Frame
<1>3. new \in Frames /\ DOMAIN new = {d} /\ new[d] = f
  BY <1>2, OneFrame
<1>4. last \in Frames /\ pending \in Frames
  BY DEF RecorderIInv, RecorderTypeOK
<1> HIDE DEF f, new
<1>5. /\ last' \in Frames /\ DOMAIN last' = DOMAIN last \cup {d} /\ last'[d] = f
      /\ \A x \in DOMAIN last : x # d => last'[x] = last[x]
  <2>1. /\ Upserted(new, last) \in Frames /\ DOMAIN Upserted(new, last) = {d} \cup DOMAIN last
        /\ \A x \in {d} : Upserted(new, last)[x] = new[x]
        /\ \A x \in DOMAIN last : x \notin {d} => Upserted(new, last)[x] = last[x]
    <3>1. /\ Upserted(new, last) \in Frames
          /\ DOMAIN Upserted(new, last) = DOMAIN new \cup DOMAIN last
          /\ \A x \in DOMAIN new : Upserted(new, last)[x] = new[x]
          /\ \A x \in DOMAIN last : x \notin DOMAIN new => Upserted(new, last)[x] = last[x]
      BY <1>3, <1>4, UpsertedIs
    <3> QED BY <3>1, <1>3
  <2> QED BY <2>1, <1>1, <1>3
<1>6. /\ pending' \in Frames /\ DOMAIN pending' = DOMAIN pending \cup {d} /\ pending'[d] = f
      /\ \A x \in DOMAIN pending : x # d => pending'[x] = pending[x]
  <2>1. /\ Upserted(new, pending) \in Frames
        /\ DOMAIN Upserted(new, pending) = DOMAIN new \cup DOMAIN pending
        /\ \A x \in DOMAIN new : Upserted(new, pending)[x] = new[x]
        /\ \A x \in DOMAIN pending : x \notin DOMAIN new => Upserted(new, pending)[x] = pending[x]
    BY <1>3, <1>4, UpsertedIs
  <2>2. pending' = Upserted(new, pending)
    BY <1>1
  <2> QED BY <2>1, <2>2, <1>3
<1>7. /\ history' \in 0..MaxHistory /\ dropped' \in Nat
      /\ \/ history' = history + 1 /\ dropped' = dropped
         \/ history' = history /\ dropped' = dropped + 1
  BY RecorderAssumption DEF Record, RecorderIInv, RecorderTypeOK, Counted
<1>8. RecorderTypeOK'
  BY <1>1, <1>5, <1>6, <1>7, RecorderAssumption DEF RecorderIInv, RecorderTypeOK
<1>9. /\ rowsOf \in Frames /\ batch.frames \in Frames
      /\ \A fs \in Frames : \A x \in DOMAIN fs : fs[x].at \in Int
  <2>1. \A fs \in Frames : \A x \in DOMAIN fs : fs[x].at \in Int
    BY FramesAre DEF Frame
  <2> QED BY <2>1 DEF RecorderIInv, RecorderTypeOK
<1>10. Ordered'
  <2>1. \A x \in DOMAIN last' : last'[x].at <= records'
    BY <1>1, <1>2, <1>4, <1>5, <1>9 DEF RecorderIInv, Ordered
  <2>2. ASSUME NEW x \in DOMAIN pending'
        PROVE  /\ pending'[x].at <= records'
               /\ x \in DOMAIN last' => pending'[x] = last'[x] /\ pending'[x].at <= last'[x].at
    BY <1>1, <1>2, <1>4, <1>5, <1>6, <1>9 DEF RecorderIInv, Ordered, Buffers
  <2>3. ASSUME NEW fs \in {rowsOf, batch.frames}, NEW x \in DOMAIN fs
        PROVE  fs[x].at <= records' /\ (x \in DOMAIN last' => fs[x].at <= last'[x].at)
    BY <1>1, <1>2, <1>4, <1>5, <1>9 DEF RecorderIInv, Ordered, Buffers
  <2> QED BY <1>1, <2>1, <2>2, <2>3 DEF Ordered, Buffers
<1>11. RecorderLosesNothing'
  <2>1. ASSUME NEW x \in DOMAIN last'
        PROVE  \/ x \in missed'
               \/ \E fs \in Buffers' : x \in DOMAIN fs /\ fs[x] = last'[x]
    <3>1. CASE x = d
      BY <3>1, <1>5, <1>6 DEF Buffers
    <3>2. CASE x # d
      <4>1. x \in DOMAIN last /\ last'[x] = last[x]
        BY <3>2, <1>5
      <4>2. CASE x \in missed
        BY <4>2, <3>2, <1>1
      <4>3. CASE \E fs \in {rowsOf, batch.frames} : x \in DOMAIN fs /\ fs[x] = last[x]
        BY <4>1, <4>3, <1>1 DEF Buffers
      <4>4. CASE x \in DOMAIN pending /\ pending[x] = last[x]
        BY <4>1, <4>4, <3>2, <1>6 DEF Buffers
      <4> QED BY <4>1, <4>2, <4>3, <4>4 DEF RecorderIInv, RecorderLosesNothing
    <3> QED BY <3>1, <3>2
  <2>2. ASSUME NEW x \in DOMAIN pending', NEW fs \in {rowsOf, batch.frames}, x \in DOMAIN fs
        PROVE  fs[x].at < pending'[x].at
    <3>1. CASE x = d
      BY <3>1, <2>2, <1>1, <1>2, <1>6, <1>9 DEF RecorderIInv, Ordered, Buffers
    <3>2. CASE x # d
      BY <3>2, <2>2, <1>6 DEF RecorderIInv, RecorderLosesNothing
    <3> QED BY <3>1, <3>2
  <2>3. stored' + dropped' + history' + batch'.history = records'
    <3>1. /\ records \in Int /\ stored \in Nat /\ dropped \in Nat /\ history \in Int /\ batch.history \in Int
          /\ stored + dropped + history + batch.history = records
      BY RecorderAssumption DEF RecorderIInv, RecorderLosesNothing, RecorderTypeOK, Counted
    <3>2. stored' = stored /\ batch'.history = batch.history /\ records' = records + 1
      BY <1>1
    <3> QED BY <3>1, <3>2, <1>7
  <2> QED BY <1>1, <2>1, <2>2, <2>3 DEF RecorderIInv, RecorderLosesNothing, Buffers
<1>12. Counted'
  BY <1>1, <1>7 DEF RecorderIInv, Counted, EmptyBatch
<1> QED BY <1>8, <1>10, <1>11, <1>12 DEF RecorderIInv

\* The end of a transaction keeps the types of what it writes.
BatchTypes == /\ batch'.frames \in Frames /\ batch'.history \in 0..MaxHistory
              /\ rowsOf' \in Frames /\ missed' \subseteq RecDrones

LEMMA BatchKeepsTypes ==
    ASSUME NEW ok \in BOOLEAN, RecorderTypeOK, BatchEnds(ok) PROVE BatchTypes
<1>1. batch'.frames \in Frames /\ batch'.history \in 0..MaxHistory
  BY NoFrameIsFrames, RecorderAssumption DEF BatchEnds, EmptyBatch
<1>2. batch.frames \in Frames /\ rowsOf \in Frames /\ DOMAIN batch.frames \subseteq RecDrones
  BY FramesAre DEF RecorderTypeOK
<1>3. rowsOf' \in Frames
  <2>1. Upserted(batch.frames, rowsOf) \in Frames
    BY <1>2, UpsertedIs
  <2> QED BY <2>1, <1>2 DEF BatchEnds, tables
<1>4. missed' \subseteq RecDrones
  BY <1>2 DEF BatchEnds, RecorderTypeOK
<1> QED BY <1>1, <1>3, <1>4 DEF BatchTypes

\* The end of a transaction: the batch is in the tables, or counted as lost.
LEMMA BatchEndsIInv ==
    ASSUME NEW ok \in BOOLEAN, RecorderIInv, BatchEnds(ok), RecorderTypeOK',
           UNCHANGED <<pending, history, records>>, last' = last \/ DOMAIN last' = {},
           flusher' \in {"off", "sleep"}
    PROVE  RecorderIInv'
<1>1. /\ batch' = EmptyBatch /\ UNCHANGED <<pending, history, records>>
      /\ \A x \in DOMAIN last' : x \in DOMAIN last /\ last'[x] = last[x]
      /\ DOMAIN batch'.frames = {} /\ batch'.history = 0
  BY NoFrameIsFrames DEF BatchEnds, memory, EmptyBatch
<1>2. /\ rowsOf \in Frames /\ batch.frames \in Frames /\ pending \in Frames /\ last \in Frames
      /\ \A fs \in Frames : \A x \in DOMAIN fs : fs[x].at \in Int
  <2>1. \A fs \in Frames : \A x \in DOMAIN fs : fs[x].at \in Int
    BY FramesAre DEF Frame
  <2> QED BY <2>1 DEF RecorderIInv, RecorderTypeOK
<1>3. CASE ok
  <2>1. /\ rowsOf' = Upserted(batch.frames, rowsOf) /\ stored' = stored + batch.history
        /\ missed' = missed /\ dropped' = dropped
    BY <1>3 DEF BatchEnds
  <2>2. /\ DOMAIN rowsOf' = DOMAIN batch.frames \cup DOMAIN rowsOf
        /\ \A x \in DOMAIN batch.frames : rowsOf'[x] = batch.frames[x]
        /\ \A x \in DOMAIN rowsOf : x \notin DOMAIN batch.frames => rowsOf'[x] = rowsOf[x]
    <3>1. /\ DOMAIN Upserted(batch.frames, rowsOf) = DOMAIN batch.frames \cup DOMAIN rowsOf
          /\ \A x \in DOMAIN batch.frames : Upserted(batch.frames, rowsOf)[x] = batch.frames[x]
          /\ \A x \in DOMAIN rowsOf : x \notin DOMAIN batch.frames
                                       => Upserted(batch.frames, rowsOf)[x] = rowsOf[x]
      BY <1>2, UpsertedIs
    <3> QED BY <3>1, <2>1
  <2>3. Ordered'
    <3>1. ASSUME NEW x \in DOMAIN rowsOf'
          PROVE  rowsOf'[x].at <= records /\ (x \in DOMAIN last => rowsOf'[x].at <= last[x].at)
      BY <2>2, <3>1 DEF RecorderIInv, Ordered, Buffers
    <3> QED BY <1>1, <3>1 DEF RecorderIInv, Ordered, Buffers
  <2>4. ASSUME NEW x \in DOMAIN last
        PROVE  \/ x \in missed
               \/ \E fs \in {rowsOf', pending} : x \in DOMAIN fs /\ fs[x] = last[x]
    <3>1. CASE x \in missed \/ (x \in DOMAIN pending /\ pending[x] = last[x])
      BY <3>1
    <3>2. CASE x \in DOMAIN batch.frames /\ batch.frames[x] = last[x]
      BY <3>2, <2>2
    <3>3. CASE x \in DOMAIN rowsOf /\ rowsOf[x] = last[x] /\ x \notin DOMAIN batch.frames
      BY <3>3, <2>2
    <3>4. CASE x \in DOMAIN rowsOf /\ rowsOf[x] = last[x] /\ x \in DOMAIN batch.frames
      <4>1. /\ rowsOf[x].at < batch.frames[x].at /\ batch.frames[x].at <= last[x].at
        BY <3>4 DEF RecorderIInv, RecorderLosesNothing, Ordered, Buffers
      <4>2. batch.frames[x].at \in Int /\ rowsOf[x].at \in Int /\ last[x].at = rowsOf[x].at
        BY <3>4, <1>2
      <4> QED BY <4>1, <4>2
    <3> QED BY <3>1, <3>2, <3>3, <3>4 DEF RecorderIInv, RecorderLosesNothing
  <2>5. ASSUME NEW x \in DOMAIN pending, x \in DOMAIN rowsOf' PROVE rowsOf'[x].at < pending[x].at
    BY <2>2, <2>5 DEF RecorderIInv, RecorderLosesNothing
  <2>6. stored' \in Nat /\ stored' + dropped' + history' + batch'.history = records'
    <3>1. /\ stored \in Nat /\ dropped \in Nat /\ history \in Nat /\ batch.history \in Nat
          /\ stored + dropped + history + batch.history = records
      BY RecorderAssumption DEF RecorderIInv, RecorderLosesNothing, RecorderTypeOK, Counted
    <3>2. /\ stored' = stored + batch.history /\ dropped' = dropped /\ history' = history
          /\ batch'.history = 0 /\ records' = records
      BY <2>1, <1>1
    <3> QED BY <3>1, <3>2
  <2>7. RecorderLosesNothing'
    BY <1>1, <2>1, <2>4, <2>5, <2>6 DEF RecorderIInv, RecorderLosesNothing
  <2>8. Counted'
    BY <1>1, <2>1, <2>6 DEF RecorderIInv, Counted
  <2> QED BY <2>3, <2>7, <2>8 DEF RecorderIInv
<1>4. CASE ~ok
  <2>1. /\ missed' = missed \cup {x \in DOMAIN batch.frames : x \notin DOMAIN pending}
        /\ dropped' = dropped + batch.history /\ rowsOf' = rowsOf /\ stored' = stored
    BY <1>4 DEF BatchEnds, tables
  <2>2. Ordered'
    BY <1>1, <2>1 DEF RecorderIInv, Ordered, Buffers
  <2>3. ASSUME NEW x \in DOMAIN last
        PROVE  \/ x \in missed'
               \/ \E fs \in {rowsOf, pending} : x \in DOMAIN fs /\ fs[x] = last[x]
    BY <2>1 DEF RecorderIInv, RecorderLosesNothing, Ordered
  <2>4. dropped' \in Nat /\ stored' + dropped' + history' + batch'.history = records'
    <3>1. /\ stored \in Nat /\ dropped \in Nat /\ history \in Nat /\ batch.history \in Nat
          /\ stored + dropped + history + batch.history = records
      BY RecorderAssumption DEF RecorderIInv, RecorderLosesNothing, RecorderTypeOK, Counted
    <3>2. /\ dropped' = dropped + batch.history /\ stored' = stored /\ history' = history
          /\ batch'.history = 0 /\ records' = records
      BY <2>1, <1>1
    <3> QED BY <3>1, <3>2
  <2>5. RecorderLosesNothing'
    BY <1>1, <2>1, <2>3, <2>4 DEF RecorderIInv, RecorderLosesNothing
  <2>6. Counted'
    BY <1>1, <2>1, <2>4 DEF RecorderIInv, Counted
  <2> QED BY <2>2, <2>5, <2>6 DEF RecorderIInv
<1> QED BY <1>3, <1>4

LEMMA FlushTakesIInv == RecorderIInv /\ FlushTakes => RecorderIInv'
<1> SUFFICES ASSUME RecorderIInv, FlushTakes PROVE RecorderIInv'
  OBVIOUS
<1>1. /\ batch' = [frames |-> pending, history |-> history] /\ pending' = NoFrame /\ history' = 0
      /\ flusher \in {"sleep", "off"} /\ flusher' \in {"write", "finish"}
      /\ flusher' = "finish" => stage = "final"
      /\ flusher' = "write" => flusher = "sleep"
      /\ UNCHANGED <<stage, secondary, last, rowsOf, stored, missed, dropped, records, ends>>
  BY DEF FlushTakes, tables, counters
<1>2. batch = EmptyBatch /\ DOMAIN pending' = {} /\ pending' \in Frames
  BY <1>1, NoFrameIsFrames DEF RecorderIInv, Counted
<1>3. batch'.frames = pending /\ batch'.history = history /\ DOMAIN batch.frames = {}
  BY <1>1, <1>2, NoFrameIsFrames DEF EmptyBatch
<1>4. RecorderTypeOK'
  BY <1>1, <1>2, <1>3, RecorderAssumption DEF RecorderIInv, RecorderTypeOK
<1>5. Ordered'
  BY <1>1, <1>2, <1>3 DEF RecorderIInv, Ordered, Buffers
<1>6. stored' + dropped' + history' + batch'.history = records'
  <2>1. /\ stored \in Nat /\ dropped \in Nat /\ history \in Int
        /\ stored + dropped + history + 0 = records
    BY <1>2, RecorderAssumption DEF RecorderIInv, RecorderLosesNothing, RecorderTypeOK, Counted, EmptyBatch
  <2>2. /\ stored' = stored /\ dropped' = dropped /\ history' = 0
        /\ batch'.history = history /\ records' = records
    BY <1>1, <1>3
  <2> QED BY <2>1, <2>2
<1>7. RecorderLosesNothing'
  BY <1>1, <1>2, <1>3, <1>6 DEF RecorderIInv, RecorderLosesNothing
<1>8. Counted'
  BY <1>1 DEF RecorderIInv, Counted
<1> QED BY <1>4, <1>5, <1>7, <1>8 DEF RecorderIInv

LEMMA FlushEndsIInv ==
    ASSUME NEW ok \in BOOLEAN, RecorderIInv, FlushEnds(ok) PROVE RecorderIInv'
<1>1. RecorderTypeOK'
  <2>1. /\ flusher = "write" /\ flusher' = "sleep"
        /\ UNCHANGED <<stage, secondary, last, pending, history, records, ends>>
    BY DEF FlushEnds, memory, counters
  <2>2. BatchTypes
    BY BatchKeepsTypes DEF FlushEnds, RecorderIInv
  <2> QED BY <2>1, <2>2 DEF RecorderIInv, RecorderTypeOK, BatchTypes
<1> QED BY <1>1, BatchEndsIInv DEF FlushEnds, memory, counters

LEMMA StopsRecorderIInv ==
    ASSUME NEW ok \in BOOLEAN, RecorderIInv, StopsRecorder(ok) PROVE RecorderIInv'
<1>1. RecorderTypeOK'
  <2>1. /\ stage' = "final" /\ flusher' = "off"
        /\ UNCHANGED <<secondary, last, pending, history, records, ends>>
    BY DEF StopsRecorder, memory, counters
  <2>2. BatchTypes
    BY BatchKeepsTypes DEF StopsRecorder, RecorderIInv
  <2> QED BY <2>1, <2>2 DEF RecorderIInv, RecorderTypeOK, BatchTypes, Stages
<1> QED BY <1>1, BatchEndsIInv DEF StopsRecorder, memory, counters

\* The listeners are forgotten with _last; what is still buffered stays.
LEMMA RecordedIInv ==
    ASSUME NEW ok \in BOOLEAN, RecorderIInv, Recorded(ok) PROVE RecorderIInv'
<1>1. /\ stage' = "closing" /\ flusher' = "off" /\ BatchEnds(ok) /\ last' = NoFrame
      /\ DOMAIN last' = {}
      /\ UNCHANGED <<secondary, pending, history, records, ends>>
  BY NoFrameIsFrames DEF Recorded, counters
<1>2. RecorderTypeOK'
  <2>1. BatchTypes
    BY <1>1, BatchKeepsTypes DEF RecorderIInv
  <2> QED BY <1>1, <2>1, NoFrameIsFrames DEF RecorderIInv, RecorderTypeOK, BatchTypes, Stages
<1> QED BY <1>1, <1>2, BatchEndsIInv

LEMMA ProcessEndsIInv == RecorderIInv /\ ProcessEnds => RecorderIInv'
<1> SUFFICES ASSUME RecorderIInv, ProcessEnds PROVE RecorderIInv'
  OBVIOUS
<1>1. /\ stage' = "down" /\ secondary' = 0 /\ ends < MaxEnds /\ ends' = ends + 1
      /\ last' = NoFrame /\ pending' = NoFrame /\ history' = 0
      /\ flusher' = "off" /\ batch' = EmptyBatch /\ missed' = {}
      /\ dropped' = dropped + history + batch.history
      /\ UNCHANGED <<rowsOf, stored, records>>
      /\ DOMAIN NoFrame = {} /\ batch'.frames = NoFrame /\ batch'.history = 0
  BY NoFrameIsFrames DEF ProcessEnds, tables, EmptyBatch
<1>2. RecorderTypeOK'
  BY <1>1, NoFrameIsFrames, RecorderAssumption DEF RecorderIInv, RecorderTypeOK, Stages
<1>3. Ordered'
  BY <1>1 DEF RecorderIInv, Ordered, Buffers
<1>4. dropped' \in Nat /\ stored' + dropped' + history' + batch'.history = records'
  <2>1. /\ stored \in Nat /\ dropped \in Nat /\ history \in Nat /\ batch.history \in Nat
        /\ stored + dropped + history + batch.history = records
    BY RecorderAssumption DEF RecorderIInv, RecorderLosesNothing, RecorderTypeOK, Counted
  <2>2. /\ dropped' = dropped + history + batch.history /\ stored' = stored /\ history' = 0
        /\ batch'.history = 0 /\ records' = records
    BY <1>1
  <2> QED BY <2>1, <2>2
<1>5. RecorderLosesNothing'
  BY <1>1, <1>4 DEF RecorderLosesNothing
<1>6. Counted'
  BY <1>1, <1>4 DEF RecorderIInv, Counted
<1> QED BY <1>2, <1>3, <1>5, <1>6 DEF RecorderIInv

-----------------------------------------------------------------------------
LEMMA NextRecorderIInv == RecorderIInv /\ [RecorderNext]_recvars => RecorderIInv'
<1> SUFFICES ASSUME RecorderIInv, [RecorderNext]_recvars PROVE RecorderIInv'
  OBVIOUS
<1>1. CASE Boots \/ StartsUp \/ ShutsDown \/ FlushTakes \/ ProcessEnds
  BY <1>1, BootsIInv, StartsUpIInv, ShutsDownIInv, FlushTakesIInv, ProcessEndsIInv
<1>2. ASSUME NEW ok \in BOOLEAN,
             ServiceStarts(ok) \/ FlushEnds(ok) \/ StopsRecorder(ok) \/ Recorded(ok)
      PROVE  RecorderIInv'
  BY <1>2, ServiceStartsIInv, FlushEndsIInv, StopsRecorderIInv, RecordedIInv
<1>3. ASSUME NEW d \in RecDrones, NEW r \in Readings, Record(d, r) PROVE RecorderIInv'
  BY <1>3, RecordIInv
<1>4. CASE UNCHANGED recvars
  <2>1. RecorderTypeOK'
    BY <1>4 DEF RecorderIInv, RecorderTypeOK, recvars
  <2>2. RecorderLosesNothing'
    BY <1>4 DEF RecorderIInv, RecorderLosesNothing, recvars
  <2>3. Ordered' /\ Counted'
    BY <1>4 DEF RecorderIInv, Ordered, Counted, recvars, Buffers, EmptyBatch
  <2> QED BY <2>1, <2>2, <2>3 DEF RecorderIInv
<1> QED BY <1>1, <1>2, <1>3, <1>4 DEF RecorderNext

THEOREM RecorderInvariant == RecorderSpec => []RecorderIInv
<1> QED BY InitRecorderIInv, NextRecorderIInv, PTL DEF RecorderSpec

\* Every variable of the recorder keeps its type, the history its cap, and the flush
\* loop runs only after the services before it have started (main.py, lifespan).
THEOREM RecorderTypeCorrect == RecorderSpec => []RecorderTypeOK
<1>1. RecorderIInv => RecorderTypeOK
  BY DEF RecorderIInv
<1> QED BY <1>1, RecorderInvariant, PTL

\* The last reading of every drone is stored, on its way or reported lost, no row
\* overtakes what is on the way, and each history row is counted once (_flush, record).
THEOREM LosesNothing == RecorderSpec => []RecorderLosesNothing
<1>1. RecorderIInv => RecorderLosesNothing
  BY DEF RecorderIInv
<1> QED BY <1>1, RecorderInvariant, PTL

-----------------------------------------------------------------------------
(***************************************************************************)
(* The audit trail of Accounts is a chain, for any number of requests,     *)
(* users and failures: verify_audit_chain() of security.py accepts it.     *)
(*                                                                         *)
(* The invariant says what the advisory lock is for: only its holder is    *)
(* between reading the last row and appending to it, so what it has read   *)
(* is still the last row when it appends; and each session passes through  *)
(* its states once, so that no record is written twice.                    *)
(***************************************************************************)

Row == [hash : Nat, prev : Nat, by : Sessions]
Active == {"due", "locked", "read"}

TrailTyped == call \in [Calls -> Call] /\ writer \in [Sessions -> Writer] /\ trail \in Seq(Row)

\* Where a session is with its record follows from where its call is.
Once == \A c \in Calls :
    /\ call[c].pc \in {"off", "checked"} => writer[<<c, "call">>].pc = "off"
    /\ writer[<<c, "call">>].pc \in Active => call[c].pc = "flushed"
    /\ writer[<<c, "call">>].pc # "off" => Logs(call[c].op)
    /\ call[c].pc \in {"off", "checked", "flushed", "logged"} => writer[<<c, "middleware">>].pc = "off"

\* The holder of the lock alone has read the last row.
Exclusive == \A x \in Sessions :
    /\ writer[x].pc \in {"locked", "read"} => auditor = x
    /\ writer[x].pc = "read" => writer[x].prev = Len(trail)

Chained ==
    /\ \A i \in 1..Len(trail) : /\ trail[i].hash = i /\ trail[i].prev = i - 1
                                /\ writer[trail[i].by].pc = "over"
    /\ \A i, j \in 1..Len(trail) : trail[i].by = trail[j].by => i = j

TrailIInv == TrailTyped /\ Once /\ Exclusive /\ Chained

-----------------------------------------------------------------------------
LEMMA SessionsAre == \A c \in Calls : <<c, "call">> \in Sessions /\ <<c, "middleware">> \in Sessions
  BY DEF Sessions

LEMMA InitTrailIInv == AccountsInit => TrailIInv
<1> SUFFICES ASSUME AccountsInit PROVE TrailIInv
  OBVIOUS
<1>1. TrailTyped
  BY DEF AccountsInit, TrailTyped, Call, Writer, Sessions, Row
<1>2. Once
  BY SessionsAre DEF AccountsInit, Once, Active
<1>3. Exclusive /\ Chained
  BY DEF AccountsInit, Exclusive, Chained
<1> QED BY <1>1, <1>2, <1>3 DEF TrailIInv

\* A handler that passes its checks.
LEMMA BeginsIInv ==
    ASSUME NEW c \in Calls, NEW op \in Operations, NEW u \in Users, NEW q \in Asked \cup {Nobody},
           TrailIInv, Begins(c, op, u, q)
    PROVE  TrailIInv'
<1>1. /\ call[c].pc = "off" /\ UNCHANGED <<writer, trail, auditor>>
      /\ call' = [call EXCEPT ![c] = [call[c] EXCEPT !.pc = "checked", !.op = op, !.who = u, !.req = q]]
  BY DEF Begins
<1>2. TrailTyped'
  BY ZenonT(120), <1>1 DEF TrailIInv, TrailTyped, Call, Operations
<1>3. call'[c].pc = "checked" /\ \A d \in Calls : d # c => call'[d] = call[d]
  BY <1>1 DEF TrailIInv, TrailTyped, Call
<1>4. /\ writer[<<c, "call">>].pc = "off" /\ writer[<<c, "middleware">>].pc = "off"
  BY <1>1 DEF TrailIInv, Once
<1>5. Once'
  BY ZenonT(120), <1>1, <1>3, <1>4 DEF TrailIInv, Once, Active
<1>6. Exclusive' /\ Chained'
  BY <1>1 DEF TrailIInv, Exclusive, Chained
<1> QED BY <1>2, <1>5, <1>6 DEF TrailIInv

LEMMA HandlersIInv ==
    ASSUME NEW c \in Calls, TrailIInv,
           \/ Submits(c) \/ Registers(c) \/ Accepts(c) \/ Rejects(c) \/ Resends(c) \/ SetsPassword(c)
    PROVE  TrailIInv'
<1>1. PICK op \in Operations, u \in Users, q \in Asked \cup {Nobody} : Begins(c, op, u, q)
  BY AccountsAssumption
     DEF Submits, Registers, Accepts, Rejects, Resends, SetsPassword, Operations
<1> QED BY <1>1, BeginsIInv

\* Records that are written stay in the trail as they are.
LEMMA ChainedKept ==
    ASSUME TrailTyped, Chained, UNCHANGED trail,
           \A x \in Sessions : writer[x].pc = "over" => writer'[x].pc = "over"
    PROVE  Chained'
<1>1. \A i \in 1..Len(trail) : trail[i].by \in Sessions
  <2>1. \A i \in 1..Len(trail) : trail[i] \in Row
    BY DEF TrailTyped
  <2> QED BY <2>1 DEF Row
<1> QED BY <1>1 DEF Chained

LEMMA FlushesIInv == ASSUME NEW c \in Calls, TrailIInv, Flushes(c) PROVE TrailIInv'
<1> DEFINE x == <<c, "call">>
<1>1. call[c] \in Call /\ x \in Sessions /\ call[c].pc = "checked" /\ writer[x].pc = "off"
  BY SessionsAre DEF TrailIInv, TrailTyped, Flushes, Once
<1>2. /\ UNCHANGED <<trail, auditor>>
      /\ \/ call' = [call EXCEPT ![c].pc = "refused"] /\ UNCHANGED writer
         \/ /\ call' = [call EXCEPT ![c].pc = "flushed", ![c].dirty = ~CommitsFirst(call[c].op)]
            /\ IF Logs(call[c].op) THEN writer' = [writer EXCEPT ![x].pc = "due"] ELSE UNCHANGED writer
  BY DEF Flushes
<1>3. /\ call' \in [Calls -> Call]
      /\ call'[c].op = call[c].op /\ call'[c].pc \in {"flushed", "refused"}
      /\ \A d \in Calls : d # c => call'[d] = call[d]
  <2>1. CASE call' = [call EXCEPT ![c].pc = "refused"]
    BY <2>1, <1>1 DEF TrailIInv, TrailTyped, Call
  <2>2. CASE call' = [call EXCEPT ![c].pc = "flushed", ![c].dirty = ~CommitsFirst(call[c].op)]
    BY <2>2, <1>1 DEF TrailIInv, TrailTyped, Call, CommitsFirst
  <2> QED BY <1>2, <2>1, <2>2
<1>4. /\ writer' \in [Sessions -> Writer]
      /\ \A y \in Sessions : y # x => writer'[y] = writer[y]
      /\ \/ writer'[x].pc = "off"
         \/ writer'[x].pc = "due" /\ call'[c].pc = "flushed" /\ Logs(call[c].op)
  <2>1. CASE UNCHANGED writer
    BY <2>1, <1>1 DEF TrailIInv, TrailTyped
  <2>2. CASE /\ call' = [call EXCEPT ![c].pc = "flushed", ![c].dirty = ~CommitsFirst(call[c].op)]
             /\ Logs(call[c].op) /\ writer' = [writer EXCEPT ![x].pc = "due"]
    BY ZenonT(120), <2>2, <1>1 DEF TrailIInv, TrailTyped, Call, Writer
  <2> QED BY <1>2, <2>1, <2>2
<1>5. TrailTyped'
  BY <1>2, <1>3, <1>4 DEF TrailIInv, TrailTyped
<1>6. Once'
  <2> SUFFICES ASSUME NEW d \in Calls
               PROVE  /\ call'[d].pc \in {"off", "checked"} => writer'[<<d, "call">>].pc = "off"
                      /\ writer'[<<d, "call">>].pc \in Active => call'[d].pc = "flushed"
                      /\ writer'[<<d, "call">>].pc # "off" => Logs(call'[d].op)
                      /\ call'[d].pc \in {"off", "checked", "flushed", "logged"}
                           => writer'[<<d, "middleware">>].pc = "off"
    BY DEF Once
  <2>1. CASE d = c
    BY <2>1, <1>1, <1>3, <1>4, SessionsAre DEF TrailIInv, Once, Active
  <2>2. CASE d # c
    BY <2>2, <1>3, <1>4, SessionsAre DEF TrailIInv, Once, Active
  <2> QED BY <2>1, <2>2
<1>7. Exclusive'
  BY <1>1, <1>2, <1>4 DEF TrailIInv, Exclusive
<1>8. Chained'
  BY <1>1, <1>2, <1>4, ChainedKept DEF TrailIInv
<1> QED BY <1>5, <1>6, <1>7, <1>8 DEF TrailIInv

LEMMA RepliesIInv == ASSUME NEW c \in Calls, TrailIInv, Replies(c) PROVE TrailIInv'
<1> DEFINE x == <<c, "middleware">>
<1>1. /\ call[c] \in Call /\ x \in Sessions /\ call[c].pc \in {"flushed", "logged"}
      /\ writer[x].pc = "off" /\ writer[<<c, "call">>].pc \notin Active
      /\ UNCHANGED <<trail, auditor>>
  BY SessionsAre DEF TrailIInv, TrailTyped, Replies, Once, Active
<1>2. /\ call' \in [Calls -> Call] /\ call'[c].pc = "replied" /\ call'[c].op = call[c].op
      /\ \A d \in Calls : d # c => call'[d] = call[d]
  <2>1. call' = [call EXCEPT ![c].pc = "replied",
                             ![c].mail = call[c].op \in {"accept", "resend", "reset"}]
    BY DEF Replies
  <2>2. (call[c].op \in {"accept", "resend", "reset"}) \in BOOLEAN
    OBVIOUS
  <2> QED BY <2>1, <2>2, <1>1 DEF TrailIInv, TrailTyped, Call
<1>3. /\ writer' \in [Sessions -> Writer] /\ writer'[x].pc = "due"
      /\ \A y \in Sessions : y # x => writer'[y] = writer[y]
  BY <1>1 DEF TrailIInv, TrailTyped, Replies, Writer
<1>4. TrailTyped'
  BY <1>1, <1>2, <1>3 DEF TrailIInv, TrailTyped
<1>5. Once'
  <2> SUFFICES ASSUME NEW d \in Calls
               PROVE  /\ call'[d].pc \in {"off", "checked"} => writer'[<<d, "call">>].pc = "off"
                      /\ writer'[<<d, "call">>].pc \in Active => call'[d].pc = "flushed"
                      /\ writer'[<<d, "call">>].pc # "off" => Logs(call'[d].op)
                      /\ call'[d].pc \in {"off", "checked", "flushed", "logged"}
                           => writer'[<<d, "middleware">>].pc = "off"
    BY DEF Once
  <2>1. CASE d = c
    BY <2>1, <1>1, <1>2, <1>3, SessionsAre DEF TrailIInv, Once, Active
  <2>2. CASE d # c
    BY <2>2, <1>2, <1>3, SessionsAre DEF TrailIInv, Once, Active
  <2> QED BY <2>1, <2>2
<1>6. Exclusive'
  BY <1>1, <1>3 DEF TrailIInv, Exclusive
<1>7. Chained'
  BY <1>1, <1>3, ChainedKept DEF TrailIInv
<1> QED BY <1>4, <1>5, <1>6, <1>7 DEF TrailIInv

\* get_db() commits, or a mail is read: nothing of the trail is touched.
LEMMA EndsIInv == ASSUME NEW c \in Calls, TrailIInv, Closes(c) \/ MailArrives(c) PROVE TrailIInv'
<1>1. /\ UNCHANGED <<trail, auditor, writer>> /\ call[c] \in Call
      /\ \/ call[c].pc = "replied" /\ call' = [call EXCEPT ![c].pc = "over", ![c].dirty = FALSE]
         \/ call' = [call EXCEPT ![c].mail = FALSE]
  BY DEF Closes, MailArrives, TrailIInv, TrailTyped
<1>2. /\ call' \in [Calls -> Call] /\ call'[c].op = call[c].op
      /\ call'[c].pc = call[c].pc \/ (call[c].pc = "replied" /\ call'[c].pc = "over")
      /\ \A d \in Calls : d # c => call'[d] = call[d]
  <2>1. CASE call[c].pc = "replied" /\ call' = [call EXCEPT ![c].pc = "over", ![c].dirty = FALSE]
    BY <2>1, <1>1 DEF TrailIInv, TrailTyped, Call
  <2>2. CASE call' = [call EXCEPT ![c].mail = FALSE]
    BY <2>2, <1>1 DEF TrailIInv, TrailTyped, Call
  <2> QED BY <1>1, <2>1, <2>2
<1>3. TrailTyped'
  BY <1>1, <1>2 DEF TrailIInv, TrailTyped
<1>4. Once'
  BY ZenonT(120), <1>1, <1>2 DEF TrailIInv, Once, Active
<1>5. Exclusive' /\ Chained'
  BY <1>1, ChainedKept DEF TrailIInv, Exclusive
<1> QED BY <1>3, <1>4, <1>5 DEF TrailIInv

-----------------------------------------------------------------------------
(* The audit record of a session *)

\* A session that holds or waits for the lock goes on with its record.
LEMMA MovesOn ==
    ASSUME NEW x \in Sessions, Once, writer[x].pc \in Active, UNCHANGED call,
           writer'[x].pc \in Active, \A y \in Sessions : y # x => writer'[y] = writer[y]
    PROVE  Once'
<1> SUFFICES ASSUME NEW d \in Calls
             PROVE  /\ call'[d].pc \in {"off", "checked"} => writer'[<<d, "call">>].pc = "off"
                    /\ writer'[<<d, "call">>].pc \in Active => call'[d].pc = "flushed"
                    /\ writer'[<<d, "call">>].pc # "off" => Logs(call'[d].op)
                    /\ call'[d].pc \in {"off", "checked", "flushed", "logged"}
                         => writer'[<<d, "middleware">>].pc = "off"
  BY DEF Once
<1>1. CASE x = <<d, "call">> \/ x = <<d, "middleware">>
  BY <1>1, SessionsAre DEF Once, Active
<1>2. CASE x # <<d, "call">> /\ x # <<d, "middleware">>
  BY <1>2, SessionsAre DEF Once, Active
<1> QED BY <1>1, <1>2

LEMMA TakesLockIInv == ASSUME NEW x \in Sessions, TrailIInv, TakesLock(x) PROVE TrailIInv'
<1>1. /\ writer[x] \in Writer /\ writer[x].pc = "due" /\ auditor = Nobody /\ auditor' = x
      /\ writer' = [writer EXCEPT ![x].pc = "locked"] /\ UNCHANGED <<call, trail>>
  BY DEF TrailIInv, TrailTyped, TakesLock
<1>2. /\ writer' \in [Sessions -> Writer] /\ writer'[x].pc = "locked"
      /\ \A y \in Sessions : y # x => writer'[y] = writer[y]
  BY <1>1 DEF TrailIInv, TrailTyped, Writer
<1>3. TrailTyped'
  BY <1>1, <1>2 DEF TrailIInv, TrailTyped
<1>4. Once'
  BY <1>1, <1>2, MovesOn DEF TrailIInv, Active
<1>5. Exclusive'
  BY <1>1, <1>2, AccountsAssumption DEF TrailIInv, Exclusive, Sessions
<1>6. Chained'
  BY <1>1, <1>2, ChainedKept DEF TrailIInv
<1> QED BY <1>3, <1>4, <1>5, <1>6 DEF TrailIInv

LEMMA ReadsLastIInv == ASSUME NEW x \in Sessions, TrailIInv, ReadsLast(x) PROVE TrailIInv'
<1>1. /\ writer[x] \in Writer /\ writer[x].pc = "locked" /\ UNCHANGED <<call, trail, auditor>>
      /\ writer' = [writer EXCEPT ![x] = [pc |-> "read",
                      prev |-> IF trail = <<>> THEN Genesis ELSE trail[Len(trail)].hash]]
  BY DEF TrailIInv, TrailTyped, ReadsLast
<1>2. (IF trail = <<>> THEN Genesis ELSE trail[Len(trail)].hash) = Len(trail)
  <2>1. trail \in Seq(Row) /\ Len(trail) \in Nat
    BY DEF TrailIInv, TrailTyped
  <2>2. CASE trail = <<>>
    BY <2>2 DEF Genesis
  <2>3. CASE trail # <<>>
    <3>1. Len(trail) \in 1..Len(trail)
      BY <2>1, <2>3
    <3> QED BY <2>3, <3>1 DEF TrailIInv, Chained
  <2> QED BY <2>2, <2>3
<1>3. /\ writer' \in [Sessions -> Writer] /\ writer'[x].pc = "read" /\ writer'[x].prev = Len(trail)
      /\ \A y \in Sessions : y # x => writer'[y] = writer[y]
  BY <1>1, <1>2 DEF TrailIInv, TrailTyped, Writer
<1>4. TrailTyped'
  BY <1>1, <1>3 DEF TrailIInv, TrailTyped
<1>5. Once'
  BY <1>1, <1>3, MovesOn DEF TrailIInv, Active
<1>6. Exclusive'
  BY <1>1, <1>3 DEF TrailIInv, Exclusive
<1>7. Chained'
  BY <1>1, <1>3, ChainedKept DEF TrailIInv
<1> QED BY <1>4, <1>5, <1>6, <1>7 DEF TrailIInv

\* A session whose record is over, with the call it belongs to.
LEMMA RecordOver ==
    ASSUME NEW x \in Sessions, TrailIInv, writer[x].pc \in Active,
           writer' = [writer EXCEPT ![x].pc = "over"],
           call' \in [Calls -> Call],
           \A d \in Calls : call'[d].op = call[d].op,
           \A d \in Calls : call'[d].pc = IF x = <<d, "call">> THEN "logged" ELSE call[d].pc
    PROVE  /\ writer' \in [Sessions -> Writer] /\ writer'[x].pc = "over"
           /\ \A y \in Sessions : y # x => writer'[y] = writer[y]
           /\ Once'
<1>1. writer[x] \in Writer
  BY DEF TrailIInv, TrailTyped
<1>2. /\ writer' \in [Sessions -> Writer] /\ writer'[x].pc = "over"
      /\ \A y \in Sessions : y # x => writer'[y] = writer[y]
  BY <1>1 DEF TrailIInv, TrailTyped, Writer
<1>3. Once'
  <2> SUFFICES ASSUME NEW d \in Calls
               PROVE  /\ call'[d].pc \in {"off", "checked"} => writer'[<<d, "call">>].pc = "off"
                      /\ writer'[<<d, "call">>].pc \in Active => call'[d].pc = "flushed"
                      /\ writer'[<<d, "call">>].pc # "off" => Logs(call'[d].op)
                      /\ call'[d].pc \in {"off", "checked", "flushed", "logged"}
                           => writer'[<<d, "middleware">>].pc = "off"
    BY DEF Once
  <2>1. CASE x = <<d, "call">>
    BY <2>1, <1>2, SessionsAre DEF TrailIInv, Once, Active
  <2>2. CASE x = <<d, "middleware">>
    BY <2>2, <1>2, SessionsAre DEF TrailIInv, Once, Active
  <2>3. CASE x # <<d, "call">> /\ x # <<d, "middleware">>
    BY <2>3, <1>2, SessionsAre DEF TrailIInv, Once, Active
  <2> QED BY <2>1, <2>2, <2>3
<1> QED BY <1>2, <1>3

LEMMA AppendsIInv == ASSUME NEW x \in Sessions, TrailIInv, Appends(x) PROVE TrailIInv'
<1> DEFINE r == [hash |-> Len(trail) + 1, prev |-> writer[x].prev, by |-> x]
<1>1. /\ writer[x].pc = "read" /\ trail' = Append(trail, r) /\ auditor' = Nobody
      /\ writer' = [writer EXCEPT ![x].pc = "over"]
  BY DEF Appends
<1>2. /\ call' \in [Calls -> Call]
      /\ \A d \in Calls : /\ call'[d].op = call[d].op
                          /\ call'[d].pc = IF x = <<d, "call">> THEN "logged" ELSE call[d].pc
  <2>1. CASE x[2] = "call"
    <3>1. PICK c \in Calls : x = <<c, "call">>
      BY <2>1 DEF Sessions
    <3>2. call' = [call EXCEPT ![c].pc = "logged", ![c].dirty = FALSE] /\ call[c] \in Call
      BY <2>1, <3>1 DEF Appends, TrailIInv, TrailTyped
    <3>3. call' \in [Calls -> Call]
      BY <3>2 DEF TrailIInv, TrailTyped, Call
    <3>4. /\ call'[c].op = call[c].op /\ call'[c].pc = "logged"
          /\ \A d \in Calls : d # c => call'[d] = call[d]
      BY <3>2 DEF TrailIInv, TrailTyped, Call
    <3> QED BY <3>1, <3>3, <3>4
  <2>2. CASE x[2] # "call"
    BY <2>2 DEF Appends, TrailIInv, TrailTyped
  <2> QED BY <2>1, <2>2
<1>3. /\ writer' \in [Sessions -> Writer] /\ writer'[x].pc = "over" /\ Once'
      /\ \A y \in Sessions : y # x => writer'[y] = writer[y]
  BY <1>1, <1>2, RecordOver DEF Active
<1>4. trail \in Seq(Row) /\ Len(trail) \in Nat /\ writer[x].prev = Len(trail) /\ r \in Row
  BY <1>1 DEF TrailIInv, TrailTyped, Exclusive, Row, Writer
<1>5. /\ trail' \in Seq(Row) /\ Len(trail') = Len(trail) + 1 /\ trail'[Len(trail) + 1] = r
      /\ \A i \in 1..Len(trail) : trail'[i] = trail[i]
  BY <1>1, <1>4
<1>6. TrailTyped'
  BY <1>2, <1>3, <1>5 DEF TrailTyped
<1>7. Exclusive'
  BY <1>1, <1>3 DEF TrailIInv, Exclusive
<1>8. Chained'
  <2>1. \A i \in 1..Len(trail) : trail[i].by \in Sessions /\ trail[i].by # x
    <3>1. \A i \in 1..Len(trail) : trail[i] \in Row
      BY <1>4
    <3>2. \A i \in 1..Len(trail) : writer[trail[i].by].pc # "read"
      BY DEF TrailIInv, Chained
    <3> QED BY <3>1, <3>2, <1>1 DEF Row
  <2>2. ASSUME NEW i \in 1..Len(trail')
        PROVE  trail'[i].hash = i /\ trail'[i].prev = i - 1 /\ writer'[trail'[i].by].pc = "over"
    <3>1. CASE i \in 1..Len(trail)
      <4>1. trail'[i] = trail[i] /\ writer'[trail[i].by] = writer[trail[i].by]
        BY <3>1, <2>1, <1>3, <1>5
      <4> QED BY <3>1, <4>1 DEF TrailIInv, Chained
    <3>2. CASE i = Len(trail) + 1
      BY <3>2, <1>3, <1>4, <1>5
    <3> QED BY <3>1, <3>2, <1>4, <1>5
  <2>3. ASSUME NEW i \in 1..Len(trail'), NEW j \in 1..Len(trail'), trail'[i].by = trail'[j].by
        PROVE  i = j
    <3>1. CASE i \in 1..Len(trail) /\ j \in 1..Len(trail)
      BY <3>1, <2>3, <1>5 DEF TrailIInv, Chained
    <3>2. CASE i = Len(trail) + 1 \/ j = Len(trail) + 1
      BY <3>2, <2>1, <2>3, <1>4, <1>5
    <3> QED BY <3>1, <3>2, <1>4, <1>5
  <2> QED BY <2>2, <2>3 DEF Chained
<1> QED BY <1>3, <1>6, <1>7, <1>8 DEF TrailIInv

LEMMA AuditFailsIInv == ASSUME NEW x \in Sessions, TrailIInv, AuditFails(x) PROVE TrailIInv'
<1>1. /\ writer[x].pc \in Active /\ trail' = trail
      /\ auditor' = IF auditor = x THEN Nobody ELSE auditor
      /\ writer' = [writer EXCEPT ![x].pc = "over"]
  BY DEF AuditFails, Active
<1>2. /\ call' \in [Calls -> Call]
      /\ \A d \in Calls : /\ call'[d].op = call[d].op
                          /\ call'[d].pc = IF x = <<d, "call">> THEN "logged" ELSE call[d].pc
  <2>1. CASE x[2] = "call"
    <3>1. PICK c \in Calls : x = <<c, "call">>
      BY <2>1 DEF Sessions
    <3>2. /\ call[c] \in Call
          /\ call' = [call EXCEPT ![c].pc = "logged", ![c].dirty = FALSE, ![c].lost = call[c].dirty]
      BY <2>1, <3>1 DEF AuditFails, TrailIInv, TrailTyped
    <3>3. call' \in [Calls -> Call]
      BY <3>2 DEF TrailIInv, TrailTyped, Call
    <3>4. /\ call'[c].op = call[c].op /\ call'[c].pc = "logged"
          /\ \A d \in Calls : d # c => call'[d] = call[d]
      BY <3>2 DEF TrailIInv, TrailTyped, Call
    <3> QED BY <3>1, <3>3, <3>4
  <2>2. CASE x[2] # "call"
    BY <2>2 DEF AuditFails, TrailIInv, TrailTyped
  <2> QED BY <2>1, <2>2
<1>3. /\ writer' \in [Sessions -> Writer] /\ writer'[x].pc = "over" /\ Once'
      /\ \A y \in Sessions : y # x => writer'[y] = writer[y]
  BY <1>1, <1>2, RecordOver
<1>4. TrailTyped'
  BY <1>1, <1>2, <1>3 DEF TrailIInv, TrailTyped
<1>5. Exclusive'
  BY <1>1, <1>3 DEF TrailIInv, Exclusive
<1>6. Chained'
  BY <1>1, <1>3, ChainedKept DEF TrailIInv
<1> QED BY <1>3, <1>4, <1>5, <1>6 DEF TrailIInv

-----------------------------------------------------------------------------
LEMMA NextTrailIInv == TrailIInv /\ [AccountsNext]_accountvars => TrailIInv'
<1> SUFFICES ASSUME TrailIInv, [AccountsNext]_accountvars PROVE TrailIInv'
  OBVIOUS
<1>1. ASSUME NEW c \in Calls, CallStep(c) PROVE TrailIInv'
  BY <1>1, HandlersIInv, FlushesIInv, RepliesIInv, EndsIInv DEF CallStep
<1>2. ASSUME NEW x \in Sessions, AuditStep(x) PROVE TrailIInv'
  BY <1>2, TakesLockIInv, ReadsLastIInv, AppendsIInv, AuditFailsIInv DEF AuditStep
<1>3. CASE UNCHANGED accountvars
  BY <1>3 DEF accountvars, TrailIInv, TrailTyped, Once, Exclusive, Chained
<1> QED BY <1>1, <1>2, <1>3 DEF AccountsNext

LEMMA TrailTrue == TrailIInv => ChainVerifies
<1> SUFFICES ASSUME TrailIInv PROVE ChainVerifies
  OBVIOUS
<1>1. Len(trail) \in Nat
  BY DEF TrailIInv, TrailTyped
<1>2. \A i \in 1..Len(trail) : i # 1 => i - 1 \in 1..Len(trail)
  BY <1>1
<1> QED BY <1>1, <1>2 DEF TrailIInv, Chained, ChainVerifies, Genesis

\* Every row of the audit trail is chained to the one before it and every session wrote
\* one at most, however the sessions interleave and fail (AuditLogger.log, security.py).
THEOREM TrailVerifies == AccountsSpec => []ChainVerifies
<1>1. AccountsSpec => []TrailIInv
  BY InitTrailIInv, NextTrailIInv, PTL DEF AccountsSpec
<1> QED BY <1>1, TrailTrue, PTL

-----------------------------------------------------------------------------
(***************************************************************************)
(* Access requests, accounts and passwords agree.  A call about a username *)
(* that no other call is about finds, until its change is committed, what  *)
(* its checks found (Alone), and the owner of the account knows the        *)
(* password once the call that set it has told it (Told).                  *)
(***************************************************************************)

StoreTyped ==
    /\ status \in [Asked -> {"none", "pending", "approved", "rejected"}]
    /\ accounts \in [Users -> [from : Asked \cup {Nobody}, password : Calls \cup {Nobody}]]
    /\ auditor \in Sessions \cup {Nobody}
    /\ known \in [Users -> Calls \cup {Nobody}] /\ contested \subseteq Users
    /\ failures \in 0..MaxFailures

\* Where a call is with what it changes.
StageOf(c) ==
    /\ call[c].pc = "off" => call[c].who = Nobody /\ ~call[c].dirty /\ ~call[c].mail
    /\ call[c].pc # "off" => call[c].who \in Users /\ call[c].op \in Operations
    /\ call[c].pc # "off" /\ call[c].op \in {"submit", "accept", "reject", "resend"}
         => call[c].req \in Asked /\ call[c].who = UserOf[call[c].req]
    /\ call[c].op = "register" => call[c].req = Nobody
    /\ call[c].pc = "flushed" => call[c].dirty = ~CommitsFirst(call[c].op)
    /\ call[c].dirty => \/ call[c].pc = "flushed" /\ ~CommitsFirst(call[c].op)
                        \/ call[c].pc = "replied" /\ call[c].op \in {"submit", "reject"}
    /\ call[c].mail => /\ call[c].pc \in {"replied", "over"}
                       /\ call[c].op \in {"accept", "resend", "reset"}
    /\ call[c].lost => call[c].pc \in {"logged", "replied", "over"}
CallStages == \A c \in Calls : StageOf(c)

\* An account is created once: the call that has flushed one finds none, and holds its key.
Creators ==
    /\ \A c \in Calls : call[c].dirty /\ Creates(call[c].op) => ~Exists(call[c].who)
    /\ \A c, d \in Calls :
         call[c].dirty /\ Creates(call[c].op) /\ call[d].dirty /\ Creates(call[d].op)
           /\ call[c].who = call[d].who => c = d
    /\ \A c \in Calls : call[c].pc # "off" /\ CommitsFirst(call[c].op) => Exists(call[c].who)

Approvals ==
    /\ \A q \in Asked : status[q] = "approved" => accounts[UserOf[q]].from = q
    /\ \A u \in Users : accounts[u].from # Nobody => UserOf[accounts[u].from] = u

\* Until its change is committed, a call finds the request as its checks did.
Fits(c) == call[c].pc = "checked" \/ call[c].dirty =>
    /\ call[c].op = "submit" => status[call[c].req] = "none"
    /\ call[c].op \in {"accept", "reject"} => status[call[c].req] = "pending"
FromApproved(u) == accounts[u].from # Nobody => status[accounts[u].from] = "approved"

\* The calls about a username that is not contested come one after the other.
IsBusy(c) == call[c].pc \notin {"off", "over", "refused"} \/ call[c].mail
Alone(u) ==
    /\ \A c, d \in Calls : IsBusy(c) /\ IsBusy(d) /\ call[c].who = u /\ call[d].who = u => c = d
    /\ \A c \in Calls : call[c].who = u => Fits(c)
    /\ FromApproved(u)

\* A call has set the password, and has told it to its owner.
HasSet(c) == \/ Creates(call[c].op) /\ call[c].pc \in {"logged", "replied", "over"}
             \/ CommitsFirst(call[c].op) /\ call[c].pc \in {"flushed", "logged", "replied", "over"}
HasTold(c) == call[c].pc \in {"replied", "over"} /\ ~call[c].mail
NoneLost(u) == \A c \in Calls : call[c].who = u => ~call[c].lost
Told(u) ==
    /\ \A c \in Calls : IsBusy(c) /\ call[c].who = u /\ HasSet(c) => accounts[u].password = c
    /\ (\A c \in Calls : IsBusy(c) /\ call[c].who = u /\ HasSet(c) => HasTold(c))
         => known[u] = accounts[u].password
Settled(c, u) == /\ HasSet(c) => accounts[u].password = c
                 /\ (HasSet(c) => HasTold(c)) => known[u] = accounts[u].password

Agreed(u) == Alone(u) /\ (NoneLost(u) => Told(u))
ReviewIInv == /\ TrailIInv /\ StoreTyped /\ CallStages /\ Creators /\ Approvals
              /\ \A u \in Users \ contested : Agreed(u)

LEMMA InitReviewIInv == AccountsInit => ReviewIInv
<1> SUFFICES ASSUME AccountsInit PROVE ReviewIInv
  OBVIOUS
<1>1. PICK q \in Asked, first \in {"none", "pending", "approved"} :
        /\ status = [x \in Asked |-> IF x = q THEN first ELSE "none"]
        /\ accounts = [u \in Users |-> IF first = "approved" /\ u = UserOf[q]
                                       THEN [from |-> q, password |-> Nobody] ELSE NoAccount]
  BY DEF AccountsInit
<1>2. /\ known = [u \in Users |-> Nobody] /\ auditor = Nobody /\ contested = {} /\ failures = 0
      /\ \A c \in Calls : call[c] = [pc |-> "off", op |-> "none", who |-> Nobody, req |-> Nobody,
                                     dirty |-> FALSE, lost |-> FALSE, mail |-> FALSE]
  BY DEF AccountsInit
<1>3. StoreTyped
  <2>1. status \in [Asked -> {"none", "pending", "approved", "rejected"}]
    BY <1>1
  <2>2. accounts \in [Users -> [from : Asked \cup {Nobody}, password : Calls \cup {Nobody}]]
    BY <1>1 DEF NoAccount
  <2> QED BY <1>2, <2>1, <2>2, AccountsAssumption DEF StoreTyped
<1>4. CallStages /\ Creators
  BY AccountsAssumption DEF AccountsInit, CallStages, StageOf, Creators
<1>5. Approvals
  BY <1>1, AccountsAssumption DEF Approvals, NoAccount
<1>6. ASSUME NEW u \in Users PROVE Agreed(u)
  <2>1. FromApproved(u) /\ known[u] = accounts[u].password
    BY <1>1, <1>2 DEF FromApproved, NoAccount
  <2>2. \A c \in Calls : call[c].pc = "off"
    BY DEF AccountsInit
  <2>3. \A c \in Calls : ~IsBusy(c) /\ Fits(c)
    BY <1>4, <2>2 DEF IsBusy, Fits, CallStages, StageOf
  <2> QED BY <2>1, <2>3 DEF Agreed, Alone, Told
<1> QED BY <1>3, <1>4, <1>5, <1>6, InitTrailIInv DEF ReviewIInv

\* Only one call moves.
Moves(c) == \A d \in Calls \ {c} : call'[d] = call[d]

LEMMA StagesKept ==
    ASSUME CallStages, NEW c \in Calls, Moves(c), StageOf(c)'
    PROVE  CallStages'
  BY DEF CallStages, StageOf, Moves

\* A username is as it was when nothing about it has changed.
LEMMA OthersKeep ==
    ASSUME ReviewIInv, NEW c \in Calls, Moves(c), NEW u \in Users, Agreed(u),
           call[c].who # u, call'[c].who # u,
           accounts'[u] = accounts[u], known'[u] = known[u],
           \A q \in Asked : UserOf[q] = u => status'[q] = status[q]
    PROVE  Agreed(u)'
<1>1. \A d \in Calls : call'[d].who = u => d # c /\ call'[d] = call[d] /\ call[d].who = u
  BY DEF Moves
<1>2. \A d \in Calls : call[d].who = u => d # c /\ call'[d] = call[d]
  BY DEF Moves
<1>3. FromApproved(u)'
  <2>1. accounts[u].from # Nobody => accounts[u].from \in Asked /\ UserOf[accounts[u].from] = u
    BY DEF ReviewIInv, Approvals, StoreTyped
  <2> QED BY <2>1 DEF Agreed, Alone, FromApproved
<1>4. ASSUME NEW d \in Calls, call'[d].who = u PROVE Fits(d)'
  <2>1. call'[d] = call[d] /\ Fits(d) /\ call[d].who = u
    BY <1>1, <1>4 DEF Agreed, Alone
  <2>2. CASE (call[d].pc = "checked" \/ call[d].dirty) /\ call[d].op \in {"submit", "accept", "reject"}
    <3>1. call[d].pc # "off"
      BY <2>2 DEF ReviewIInv, CallStages, StageOf
    <3>2. call[d].req \in Asked /\ UserOf[call[d].req] = u
      BY <2>1, <2>2, <3>1 DEF ReviewIInv, CallStages, StageOf
    <3> QED BY <2>1, <2>2, <3>2 DEF Fits
  <2> QED BY <2>1, <2>2 DEF Fits
<1>5. \A d, e \in Calls : IsBusy(d)' /\ IsBusy(e)' /\ call'[d].who = u /\ call'[e].who = u => d = e
  BY <1>1 DEF Agreed, Alone, IsBusy
<1>6. NoneLost(u)' => NoneLost(u)
  BY <1>2 DEF NoneLost
<1>7. Told(u) => Told(u)'
  BY <1>1, <1>2 DEF Told, IsBusy, HasSet, HasTold
<1> QED BY <1>3, <1>4, <1>5, <1>6, <1>7 DEF Agreed, Alone

\* When one call alone is about a username, what is said of the call is said of both.
LEMMA OfOneCall ==
    ASSUME TrailIInv', CallStages', NEW c \in Calls, Moves(c), NEW u \in Users, call'[c].who = u,
           \A d \in Calls \ {c} : call[d].who = u => ~IsBusy(d),
           Fits(c)', FromApproved(u)', NoneLost(u)' => Settled(c, u)'
    PROVE  Agreed(u)'
<1>1. \A d \in Calls : call'[d].who = u /\ IsBusy(d)' => d = c
  BY DEF Moves, IsBusy
<1>2. ASSUME NEW d \in Calls, call'[d].who = u PROVE Fits(d)'
  <2>1. CASE d = c
    BY <2>1
  <2>2. CASE d # c
    <3>1. ~IsBusy(d)'
      BY <1>1, <1>2, <2>2
    <3> QED BY <3>1 DEF IsBusy, Fits, CallStages, StageOf
  <2> QED BY <2>1, <2>2
<1>3. ASSUME Settled(c, u)' PROVE Told(u)'
  <2>1. ~IsBusy(c)' => (HasSet(c)' => HasTold(c)')
    BY DEF IsBusy, HasSet, HasTold, TrailIInv, TrailTyped, Call
  <2> QED BY <1>1, <1>3, <2>1 DEF Settled, Told
<1> QED BY <1>1, <1>2, <1>3 DEF Agreed, Alone

\* A call about a username that is not contested is alone with it.
LEMMA BusyIsAlone ==
    ASSUME ReviewIInv, NEW c \in Calls, IsBusy(c), NEW u, u = call[c].who, u \notin contested
    PROVE  /\ u \in Users /\ Agreed(u)
           /\ \A d \in Calls \ {c} : call[d].who = u => ~IsBusy(d)
           /\ Fits(c) /\ FromApproved(u) /\ (NoneLost(u) => Settled(c, u))
<1>1. call[c].pc # "off" /\ u \in Users
  BY DEF ReviewIInv, CallStages, StageOf, IsBusy
<1>2. Agreed(u)
  BY <1>1 DEF ReviewIInv
<1>3. \A d \in Calls \ {c} : call[d].who = u => ~IsBusy(d)
  BY <1>2 DEF Agreed, Alone
<1>4. Fits(c) /\ FromApproved(u)
  BY <1>2 DEF Agreed, Alone
<1>5. Told(u) => Settled(c, u)
  BY <1>3 DEF Told, Settled
<1> QED BY <1>1, <1>2, <1>3, <1>4, <1>5 DEF Agreed

\* A handler that passes its checks.
LEMMA BeginsKeeps ==
    ASSUME ReviewIInv, TrailIInv', NEW c \in Calls, NEW op \in Operations, NEW u \in Users,
           NEW q \in Asked \cup {Nobody}, Begins(c, op, u, q),
           op \in {"submit", "accept", "reject", "resend"} => q \in Asked /\ u = UserOf[q],
           op = "register" => q = Nobody,
           op = "submit" => status[q] = "none",
           op \in {"accept", "reject"} => status[q] = "pending",
           CommitsFirst(op) => Exists(u)
    PROVE  ReviewIInv'
<1>1. /\ call[c].pc = "off" /\ UNCHANGED <<status, accounts, trail, auditor, writer, known, failures>>
      /\ call' = [call EXCEPT ![c] = [call[c] EXCEPT !.pc = "checked", !.op = op, !.who = u, !.req = q]]
      /\ contested' = IF Busy(u) # {} THEN contested \cup {u} ELSE contested
  BY DEF Begins
<1>2. call \in [Calls -> Call] /\ call[c].who = Nobody /\ ~call[c].dirty /\ ~call[c].mail /\ ~call[c].lost
  BY <1>1 DEF ReviewIInv, TrailIInv, TrailTyped, CallStages, StageOf
<1>3. /\ Moves(c) /\ call'[c].pc = "checked" /\ call'[c].op = op /\ call'[c].who = u /\ call'[c].req = q
      /\ call'[c].dirty = call[c].dirty /\ call'[c].mail = call[c].mail
      /\ call'[c].lost = call[c].lost
  BY <1>1, <1>2 DEF Moves, Call
<1>4. StoreTyped'
  BY <1>1 DEF ReviewIInv, StoreTyped
<1>5. CallStages'
  <2>1. StageOf(c)'
    BY <1>2, <1>3 DEF StageOf
  <2> QED BY <1>3, <2>1, StagesKept DEF ReviewIInv
<1>6. Creators' /\ Approvals'
  BY <1>1, <1>2, <1>3 DEF ReviewIInv, Creators, Approvals, Moves, Exists
<1>7. ASSUME NEW v \in Users \ contested' PROVE Agreed(v)'
  <2>1. Agreed(v)
    BY <1>1, <1>7 DEF ReviewIInv
  <2>2. CASE v # u
    BY <1>1, <1>2, <1>3, <2>1, <2>2, AccountsAssumption, OthersKeep
  <2>3. CASE v = u
    <3>1. \A d \in Calls \ {c} : call[d].who = u => ~IsBusy(d)
      BY <1>1, <1>7, <2>3 DEF Busy, IsBusy
    <3>2. \A d \in Calls : call[d].who = u => ~IsBusy(d)
      BY <1>2, <3>1, AccountsAssumption
    <3>3. FromApproved(u)' /\ Fits(c)'
      BY <1>1, <1>3, <2>1, <2>3 DEF Agreed, Alone, FromApproved, Fits
    <3>4. NoneLost(u)' => NoneLost(u)
      BY <1>2, <1>3, AccountsAssumption DEF NoneLost, Moves
    <3>5. NoneLost(u) => known[u] = accounts[u].password
      BY <2>1, <2>3, <3>2 DEF Agreed, Told
    <3>6. ~HasSet(c)'
      BY <1>3 DEF HasSet
    <3> QED BY <1>1, <1>3, <1>5, <2>3, <3>1, <3>3, <3>4, <3>5, <3>6, OfOneCall DEF Settled
  <2> QED BY <2>2, <2>3
<1> QED BY <1>4, <1>5, <1>6, <1>7 DEF ReviewIInv

LEMMA HandlersKeep ==
    ASSUME ReviewIInv, TrailIInv', NEW c \in Calls,
           \/ Submits(c) \/ Registers(c) \/ Accepts(c) \/ Rejects(c) \/ Resends(c) \/ SetsPassword(c)
    PROVE  ReviewIInv'
<1>1. /\ UserOf \in [Asked -> Users] /\ {"submit", "register", "accept", "reject", "resend", "reset", "setup"} \subseteq Operations
      /\ \A op : CommitsFirst(op) <=> op \in {"resend", "reset", "setup"}
  BY AccountsAssumption DEF Operations, CommitsFirst
<1>2. CASE Submits(c)
  BY <1>1, <1>2, BeginsKeeps DEF Submits
<1>3. CASE Registers(c)
  BY <1>1, <1>3, BeginsKeeps DEF Registers
<1>4. CASE Accepts(c)
  BY <1>1, <1>4, BeginsKeeps DEF Accepts
<1>5. CASE Rejects(c)
  BY <1>1, <1>5, BeginsKeeps DEF Rejects
<1>6. CASE Resends(c)
  BY <1>1, <1>6, BeginsKeeps DEF Resends
<1>7. CASE SetsPassword(c)
  BY <1>1, <1>7, BeginsKeeps DEF SetsPassword
<1> QED BY <1>2, <1>3, <1>4, <1>5, <1>6, <1>7

\* A call whose statements find its key taken, or wait for its record or the reply.
LEMMA FlushesKeeps ==
    ASSUME ReviewIInv, TrailIInv', NEW c \in Calls, Flushes(c) PROVE ReviewIInv'
<1>0. PICK u, op : u = call[c].who /\ op = call[c].op
  OBVIOUS
<1>1. /\ call[c].pc = "checked" /\ ~Locked(c)
      /\ UNCHANGED <<status, trail, auditor, known, contested, failures>>
  BY <1>0 DEF Flushes
<1>2. /\ call \in [Calls -> Call] /\ u \in Users /\ op \in Operations /\ ~call[c].dirty /\ ~call[c].mail
      /\ IsBusy(c)
  BY <1>0, <1>1 DEF ReviewIInv, TrailIInv, TrailTyped, CallStages, StageOf, IsBusy
<1>3. ASSUME NEW v \in Users \ contested, v # u, Moves(c), call'[c].who = u, accounts'[v] = accounts[v]
      PROVE  Agreed(v)'
  BY <1>0, <1>1, <1>3, OthersKeep DEF ReviewIInv
<1>4. CASE Creates(op) /\ Exists(u)
  <2>1. accounts' = accounts /\ call' = [call EXCEPT ![c].pc = "refused"]
    BY <1>0, <1>4 DEF Flushes
  <2>2. /\ Moves(c) /\ call'[c].pc = "refused" /\ call'[c].who = u /\ call'[c].op = op
        /\ call'[c].req = call[c].req /\ call'[c].dirty = call[c].dirty /\ call'[c].mail = call[c].mail
        /\ call'[c].lost = call[c].lost
    BY <1>0, <1>2, <2>1 DEF Moves, Call
  <2>3. CallStages'
    <3>1. StageOf(c)'
      BY <1>0, <1>1, <1>2, <2>2 DEF ReviewIInv, CallStages, StageOf
    <3> QED BY <2>2, <3>1, StagesKept DEF ReviewIInv
  <2>4. StoreTyped' /\ Creators' /\ Approvals'
    BY <1>0, <1>1, <1>2, <2>1, <2>2 DEF ReviewIInv, StoreTyped, Creators, Approvals, Moves, Exists
  <2>5. u \notin contested => Agreed(u)'
    <3>1. SUFFICES ASSUME u \notin contested PROVE Agreed(u)'
      OBVIOUS
    <3>2. /\ \A d \in Calls \ {c} : call[d].who = u => ~IsBusy(d)
          /\ FromApproved(u) /\ (NoneLost(u) => Settled(c, u))
      BY <1>0, <1>2, <3>1, BusyIsAlone
    <3>3. FromApproved(u)' /\ Fits(c)' /\ ~HasSet(c) /\ ~HasSet(c)'
      BY <1>0, <1>1, <1>2, <2>1, <2>2, <3>2 DEF FromApproved, Fits, HasSet
    <3>4. NoneLost(u)' => NoneLost(u)
      BY <1>0, <2>2 DEF NoneLost, Moves
    <3> QED BY <1>0, <1>1, <1>2, <2>1, <2>2, <2>3, <3>2, <3>3, <3>4, OfOneCall DEF Settled
  <2> QED BY <1>0, <1>1, <1>2, <1>3, <2>1, <2>2, <2>3, <2>4, <2>5 DEF ReviewIInv
<1>5. CASE ~(Creates(op) /\ Exists(u))
  <2>1. /\ call' = [call EXCEPT ![c].pc = "flushed", ![c].dirty = ~CommitsFirst(op)]
        /\ accounts' = IF CommitsFirst(op) THEN [accounts EXCEPT ![u].password = c] ELSE accounts
    BY <1>0, <1>5 DEF Flushes
  <2>2. /\ Moves(c) /\ call'[c].pc = "flushed" /\ call'[c].who = u /\ call'[c].op = op
        /\ call'[c].req = call[c].req /\ call'[c].dirty = ~CommitsFirst(op) /\ call'[c].mail = call[c].mail
        /\ call'[c].lost = call[c].lost
    BY <1>0, <1>2, <2>1 DEF Moves, Call
  <2>3. /\ accounts' \in [Users -> [from : Asked \cup {Nobody}, password : Calls \cup {Nobody}]]
        /\ \A v \in Users : accounts'[v].from = accounts[v].from /\ (v # u => accounts'[v] = accounts[v])
        /\ ~CommitsFirst(op) => accounts' = accounts
        /\ CommitsFirst(op) => accounts'[u].password = c
    BY <1>0, <1>2, <2>1 DEF ReviewIInv, StoreTyped
  <2>4. /\ CommitsFirst(op) => Exists(u) /\ Exists(u)'
        /\ Creates(op) => ~CommitsFirst(op) /\ ~Exists(u)
    <3>1. CommitsFirst(op) => Exists(u)
      BY <1>0, <1>1 DEF ReviewIInv, Creators
    <3>2. CommitsFirst(op) => Exists(u)'
      BY <1>0, <2>3, AccountsAssumption DEF Exists, NoAccount
    <3>3. Creates(op) => ~CommitsFirst(op)
      BY <1>0 DEF Creates, CommitsFirst
    <3> QED BY <1>0, <1>5, <3>1, <3>2, <3>3
  <2>5. Creates(op) => \A d \in Calls \ {c} : ~(call[d].dirty /\ Creates(call[d].op) /\ call[d].who = u)
    BY <1>0, <1>1 DEF Locked
  <2>6. CallStages'
    <3>1. StageOf(c)'
      BY ZenonT(120), <1>0, <1>1, <1>2, <2>2 DEF ReviewIInv, CallStages, StageOf
    <3> QED BY <2>2, <3>1, StagesKept DEF ReviewIInv
  <2>7. StoreTyped' /\ Approvals'
    BY <1>0, <1>1, <2>3, AccountsAssumption DEF ReviewIInv, StoreTyped, Approvals
  <2>8. Creators'
    <3>1. \A v \in Users : Exists(v)' <=> Exists(v)
      BY <1>0, <2>3, <2>4 DEF Exists
    <3>2. \A d \in Calls : call'[d].pc # "off" => call'[d].who \in Users
      BY <2>6 DEF CallStages, StageOf
    <3>3. \A d \in Calls : call'[d].dirty => call'[d].pc # "off"
      BY <2>6 DEF CallStages, StageOf
    <3>4. \A d \in Calls \ {c} : call'[d] = call[d]
      BY <1>0, <2>2 DEF Moves
    <3>5. ASSUME NEW d \in Calls, call'[d].dirty, Creates(call'[d].op) PROVE ~Exists(call[d].who)'
      <4>1. ~Exists(call'[d].who)
        <5>1. CASE d = c
          BY <1>0, <2>2, <2>4, <3>5, <5>1
        <5>2. CASE d # c
          BY <3>4, <3>5, <5>2 DEF ReviewIInv, Creators
        <5> QED BY <5>1, <5>2
      <4> QED BY <3>1, <3>2, <3>3, <3>5, <4>1 DEF Exists
    <3>6. ASSUME NEW d \in Calls, call'[d].pc # "off", CommitsFirst(call'[d].op)
          PROVE  Exists(call[d].who)'
      <4>1. Exists(call'[d].who)
        <5>1. CASE d = c
          BY <1>0, <2>2, <2>4, <3>6, <5>1
        <5>2. CASE d # c
          BY <3>4, <3>6, <5>2 DEF ReviewIInv, Creators
        <5> QED BY <5>1, <5>2
      <4> QED BY <3>1, <3>2, <3>6, <4>1 DEF Exists
    <3>7. \A d, e \in Calls :
            call'[d].dirty /\ Creates(call'[d].op) /\ call'[e].dirty /\ Creates(call'[e].op)
              /\ call'[d].who = call'[e].who => d = e
      <4>1. ASSUME NEW d \in Calls \ {c}, Creates(op), call'[d].dirty, Creates(call'[d].op)
            PROVE  call'[d].who # u
        BY <2>5, <3>4, <4>1
      <4>2. \A d \in Calls \ {c} : call'[c].dirty /\ Creates(call'[c].op) /\ call'[d].dirty
                                    /\ Creates(call'[d].op) => call'[d].who # call'[c].who
        BY <2>2, <4>1
      <4>3. \A d, e \in Calls \ {c} :
              call'[d].dirty /\ Creates(call'[d].op) /\ call'[e].dirty /\ Creates(call'[e].op)
                /\ call'[d].who = call'[e].who => d = e
        BY <3>4 DEF ReviewIInv, Creators
      <4> SUFFICES ASSUME NEW d \in Calls, NEW e \in Calls, call'[d].dirty, Creates(call'[d].op),
                          call'[e].dirty, Creates(call'[e].op), call'[d].who = call'[e].who, d # e
                   PROVE  FALSE
        OBVIOUS
      <4>4. CASE d = c
        BY <4>2, <4>4
      <4>5. CASE e = c
        BY <4>2, <4>5
      <4>6. CASE d # c /\ e # c
        BY <4>3, <4>6
      <4> QED BY <4>4, <4>5, <4>6
    <3> QED BY <1>0, <3>5, <3>6, <3>7 DEF Creators
  <2>9. u \notin contested => Agreed(u)'
    <3>1. SUFFICES ASSUME u \notin contested PROVE Agreed(u)'
      OBVIOUS
    <3>2. /\ \A d \in Calls \ {c} : call[d].who = u => ~IsBusy(d)
          /\ Fits(c) /\ FromApproved(u) /\ (NoneLost(u) => Settled(c, u))
      BY <1>0, <1>2, <3>1, BusyIsAlone
    <3>3. FromApproved(u)' /\ Fits(c)'
      BY <1>0, <1>1, <1>2, <2>2, <2>3, <3>2 DEF FromApproved, Fits
    <3>4. NoneLost(u)' => NoneLost(u)
      BY <1>0, <2>2 DEF NoneLost, Moves
    <3>5. ~HasSet(c) /\ (HasSet(c)' <=> CommitsFirst(op)) /\ ~HasTold(c)'
      BY <1>0, <1>1, <2>2 DEF HasSet, HasTold
    <3>6. NoneLost(u)' => Settled(c, u)'
      BY <1>0, <1>1, <2>3, <3>2, <3>4, <3>5 DEF Settled
    <3> QED BY <1>0, <1>2, <2>2, <2>6, <3>2, <3>3, <3>6, OfOneCall
  <2> QED BY <1>0, <1>1, <1>2, <1>3, <2>2, <2>3, <2>6, <2>7, <2>8, <2>9 DEF ReviewIInv
<1> QED BY <1>0, <1>4, <1>5

\* A call under way changes its place, and sets, reads or tells no more than its username's.
LEMMA CreatorsKept ==
    ASSUME Creators, NEW c \in Calls, Moves(c), call[c].pc # "off",
           call'[c].who = call[c].who, call'[c].op = call[c].op, call'[c].dirty => call[c].dirty,
           UNCHANGED accounts
    PROVE  Creators'
<1>1. \A d \in Calls : /\ call'[d].who = call[d].who /\ call'[d].op = call[d].op
                       /\ (call'[d].dirty => call[d].dirty) /\ (call'[d].pc # "off" => call[d].pc # "off")
  BY DEF Moves
<1>2. \A u : Exists(u)' <=> Exists(u)
  BY DEF Exists
<1> QED BY <1>1, <1>2 DEF Creators, Exists

\* A call goes on and no other username is touched.
LEMMA GoesOn ==
    ASSUME ReviewIInv, TrailIInv', NEW c \in Calls, Moves(c), IsBusy(c), NEW u, u = call[c].who,
           call'[c].who = u, StoreTyped', StageOf(c)', Creators', Approvals', contested' = contested,
           \A v \in Users \ {u} : accounts'[v] = accounts[v] /\ known'[v] = known[v],
           \A q \in Asked : UserOf[q] # u => status'[q] = status[q],
           u \notin contested /\ FromApproved(u) /\ Fits(c) => FromApproved(u)' /\ Fits(c)',
           u \notin contested /\ (NoneLost(u) => Settled(c, u)) => (NoneLost(u)' => Settled(c, u)')
    PROVE  ReviewIInv'
<1>1. CallStages'
  BY StagesKept DEF ReviewIInv
<1>2. ASSUME NEW v \in Users \ contested PROVE Agreed(v)'
  <2>1. CASE v # u
    BY <1>2, <2>1, OthersKeep DEF ReviewIInv
  <2>2. CASE v = u
    <3>1. /\ \A d \in Calls \ {c} : call[d].who = u => ~IsBusy(d)
          /\ Fits(c) /\ FromApproved(u) /\ (NoneLost(u) => Settled(c, u))
      BY <1>2, <2>2, BusyIsAlone
    <3> QED BY <1>1, <1>2, <2>2, <3>1, OfOneCall
  <2> QED BY <2>1, <2>2
<1> QED BY <1>1, <1>2 DEF ReviewIInv

LEMMA RepliesKeep ==
    ASSUME ReviewIInv, TrailIInv', NEW c \in Calls, Replies(c) PROVE ReviewIInv'
<1>0. PICK u, op : u = call[c].who /\ op = call[c].op
  OBVIOUS
<1>1. /\ call[c].pc = "logged" \/ (call[c].pc = "flushed" /\ ~Logs(op))
      /\ call' = [call EXCEPT ![c].pc = "replied", ![c].mail = op \in {"accept", "resend", "reset"}]
      /\ known' = IF op \in {"register", "setup"} THEN [known EXCEPT ![u] = c] ELSE known
      /\ UNCHANGED <<status, accounts, trail, auditor, contested, failures>>
  <2>1. call' = [call EXCEPT ![c].pc = "replied", ![c].mail = call[c].op \in {"accept", "resend", "reset"}]
    BY DEF Replies
  <2>2. call[c].pc = "logged" \/ (call[c].pc = "flushed" /\ ~Logs(call[c].op))
    BY DEF Replies
  <2>4. UNCHANGED <<status, accounts, trail, auditor, contested, failures>>
    BY DEF Replies
  <2>3. known' = IF op \in {"register", "setup"} THEN [known EXCEPT ![u] = c] ELSE known
    BY <1>0 DEF Replies
  <2> QED BY <1>0, <2>1, <2>2, <2>3, <2>4 DEF Logs
<1>2. /\ call \in [Calls -> Call] /\ u \in Users /\ op \in Operations /\ IsBusy(c) /\ StageOf(c)
  BY <1>0, <1>1 DEF ReviewIInv, TrailIInv, TrailTyped, CallStages, StageOf, IsBusy
<1>3. /\ Moves(c) /\ call'[c].pc = "replied" /\ call'[c].who = u /\ call'[c].op = op
      /\ call'[c].req = call[c].req /\ call'[c].dirty = call[c].dirty
      /\ call'[c].mail = (op \in {"accept", "resend", "reset"}) /\ call'[c].lost = call[c].lost
  BY <1>0, <1>1, <1>2 DEF Moves, Call
<1>4. StageOf(c)'
  BY ZenonT(120), <1>0, <1>1, <1>2, <1>3 DEF StageOf, Logs, CommitsFirst, Operations
<1>5. StoreTyped' /\ Approvals'
  BY <1>1, <1>2 DEF ReviewIInv, StoreTyped, Approvals
<1>6. Creators'
  BY <1>0, <1>1, <1>3, CreatorsKept DEF ReviewIInv
<1>7. \A v \in Users \ {u} : known'[v] = known[v]
  BY <1>1 DEF ReviewIInv, StoreTyped
<1>8. FromApproved(u)' <=> FromApproved(u)
  BY <1>1 DEF FromApproved
<1>9. Fits(c) => Fits(c)'
  BY <1>0, <1>1, <1>3 DEF Fits
<1>10. NoneLost(u)' => NoneLost(u)
  BY <1>3 DEF NoneLost, Moves
<1>11. Settled(c, u) => Settled(c, u)'
  <2>1. CASE op \in {"submit", "reject"}
    <3>1. ~HasSet(c) /\ ~HasSet(c)' /\ known' = known
      BY <1>0, <1>1, <1>3, <2>1 DEF HasSet, Creates, CommitsFirst
    <3> QED BY <1>1, <3>1 DEF Settled
  <2>2. CASE op \in {"register", "setup"}
    <3>1. HasSet(c) /\ known'[u] = c
      BY <1>0, <1>1, <1>2, <2>2 DEF HasSet, Creates, CommitsFirst, Logs, ReviewIInv, StoreTyped
    <3> QED BY <1>1, <3>1 DEF Settled
  <2>3. CASE op \in {"accept", "resend", "reset"}
    <3>1. HasSet(c) /\ HasSet(c)' /\ ~HasTold(c)'
      BY <1>0, <1>1, <1>3, <2>3 DEF HasSet, HasTold, Creates, CommitsFirst, Logs
    <3> QED BY <1>1, <3>1 DEF Settled
  <2> QED BY <1>2, <2>1, <2>2, <2>3 DEF Operations
<1> QED BY <1>0, <1>1, <1>2, <1>3, <1>4, <1>5, <1>6, <1>7, <1>8, <1>9, <1>10, <1>11, GoesOn

LEMMA MailKeeps ==
    ASSUME ReviewIInv, TrailIInv', NEW c \in Calls, MailArrives(c) PROVE ReviewIInv'
<1>0. PICK u, op : u = call[c].who /\ op = call[c].op
  OBVIOUS
<1>1. /\ call[c].mail /\ call' = [call EXCEPT ![c].mail = FALSE] /\ known' = [known EXCEPT ![u] = c]
      /\ UNCHANGED <<status, accounts, trail, auditor, writer, contested, failures>>
  BY <1>0 DEF MailArrives
<1>2. /\ call \in [Calls -> Call] /\ u \in Users /\ IsBusy(c) /\ StageOf(c)
      /\ call[c].pc \in {"replied", "over"} /\ op \in {"accept", "resend", "reset"}
  BY <1>0, <1>1 DEF ReviewIInv, TrailIInv, TrailTyped, CallStages, StageOf, IsBusy
<1>3. /\ Moves(c) /\ call'[c].pc = call[c].pc /\ call'[c].who = u /\ call'[c].op = op
      /\ call'[c].req = call[c].req /\ call'[c].dirty = call[c].dirty
      /\ ~call'[c].mail /\ call'[c].lost = call[c].lost
  BY <1>0, <1>1, <1>2 DEF Moves, Call
<1>4. StageOf(c)'
  BY <1>0, <1>2, <1>3 DEF StageOf
<1>5. StoreTyped' /\ Approvals' /\ known'[u] = c /\ \A v \in Users \ {u} : known'[v] = known[v]
  BY <1>1, <1>2 DEF ReviewIInv, StoreTyped, Approvals
<1>6. Creators'
  BY <1>0, <1>1, <1>2, <1>3, CreatorsKept DEF ReviewIInv
<1>7. FromApproved(u)' <=> FromApproved(u)
  BY <1>1 DEF FromApproved
<1>8. Fits(c) => Fits(c)'
  BY <1>0, <1>1, <1>3 DEF Fits
<1>9. NoneLost(u)' => NoneLost(u)
  BY <1>3 DEF NoneLost, Moves
<1>10. Settled(c, u) => Settled(c, u)'
  <2>1. HasSet(c)
    BY <1>0, <1>2 DEF HasSet, Creates, CommitsFirst
  <2> QED BY <1>1, <1>5, <2>1 DEF Settled
<1> QED BY <1>0, <1>1, <1>2, <1>3, <1>4, <1>5, <1>6, <1>7, <1>8, <1>9, <1>10, GoesOn

\* After the reply, only submissions and refusals are still to be committed.
LEMMA ClosesKeep ==
    ASSUME ReviewIInv, TrailIInv', NEW c \in Calls, Closes(c) PROVE ReviewIInv'
<1>0. PICK u, op, q : u = call[c].who /\ op = call[c].op /\ q = call[c].req
  OBVIOUS
<1>1. /\ call[c].pc = "replied" /\ call' = [call EXCEPT ![c].pc = "over", ![c].dirty = FALSE]
      /\ Stores(c) /\ UNCHANGED <<trail, auditor, writer, known, contested, failures>>
  BY DEF Closes
<1>2. /\ call \in [Calls -> Call] /\ u \in Users /\ IsBusy(c) /\ StageOf(c)
      /\ call[c].dirty => op \in {"submit", "reject"} /\ q \in Asked /\ u = UserOf[q]
  BY <1>0, <1>1 DEF ReviewIInv, TrailIInv, TrailTyped, CallStages, StageOf, IsBusy
<1>3. /\ Moves(c) /\ call'[c].pc = "over" /\ call'[c].who = u /\ call'[c].op = op
      /\ call'[c].req = q /\ ~call'[c].dirty
      /\ call'[c].mail = call[c].mail /\ call'[c].lost = call[c].lost
  BY <1>0, <1>1, <1>2 DEF Moves, Call
<1>4. StageOf(c)'
  BY <1>0, <1>1, <1>2, <1>3 DEF StageOf
<1>5. /\ accounts' = accounts
      /\ status' = IF call[c].dirty
                   THEN [status EXCEPT ![q] = IF op = "submit" THEN "pending" ELSE "rejected"] ELSE status
  <2>1. CASE ~call[c].dirty
    BY <1>1, <2>1 DEF Stores
  <2>2. CASE call[c].dirty
    <3>1. q # Nobody /\ ~Creates(op)
      BY <1>2, <2>2, AccountsAssumption DEF Creates
    <3>2. accounts' = accounts
      BY <1>0, <1>1, <2>2, <3>1 DEF Stores
    <3>3. status' = [status EXCEPT ![q] = IF op = "submit" THEN "pending" ELSE "rejected"]
      BY <1>0, <1>1, <1>2, <2>2, <3>1 DEF Stores
    <3> QED BY <2>2, <3>2, <3>3
  <2> QED BY <2>1, <2>2
<1>6. StoreTyped'
  BY <1>1, <1>5 DEF ReviewIInv, StoreTyped
<1>7. /\ \A x \in Asked : status'[x] = "approved" => status[x] = "approved"
      /\ \A x \in Asked : status'[x] # status[x] => call[c].dirty /\ x = q
  BY <1>2, <1>5 DEF ReviewIInv, StoreTyped
<1>8. Approvals' /\ Creators'
  <2>1. Approvals'
    BY <1>5, <1>7 DEF ReviewIInv, Approvals
  <2>2. call'[c].dirty => call[c].dirty
    BY <1>3
  <2> QED BY <1>0, <1>1, <1>3, <1>5, <2>1, <2>2, CreatorsKept DEF ReviewIInv
<1>9. FromApproved(u) /\ Fits(c) => FromApproved(u)' /\ Fits(c)'
  <2>1. accounts[u].from \in Asked \cup {Nobody}
    BY <1>2 DEF ReviewIInv, StoreTyped
  <2>2. Fits(c)'
    BY <1>3 DEF Fits
  <2>3. Fits(c) /\ call[c].dirty => status[q] \in {"none", "pending"}
    BY <1>0, <1>2 DEF Fits
  <2> QED BY <1>5, <1>7, <2>1, <2>2, <2>3 DEF FromApproved
<1>10. NoneLost(u)' => NoneLost(u)
  BY <1>3 DEF NoneLost, Moves
<1>11. Settled(c, u) => Settled(c, u)'
  <2>1. (HasSet(c)' <=> HasSet(c)) /\ (HasTold(c)' <=> HasTold(c))
    BY <1>0, <1>1, <1>3 DEF HasSet, HasTold
  <2> QED BY <1>1, <1>5, <2>1 DEF Settled
<1>12. \A x \in Asked : UserOf[x] # u => status'[x] = status[x]
  BY <1>2, <1>7
<1> QED BY <1>0, <1>1, <1>2, <1>3, <1>4, <1>5, <1>6, <1>8, <1>9, <1>10, <1>11, <1>12, GoesOn

\* The records of others are no call's.
LEMMA CallsRest ==
    ASSUME ReviewIInv, TrailIInv', UNCHANGED <<status, accounts, call, known, contested>>,
           auditor' \in Sessions \cup {Nobody}, failures' \in 0..MaxFailures
    PROVE  ReviewIInv'
<1>1. StoreTyped' /\ Creators' /\ Approvals' /\ CallStages'
  BY DEF ReviewIInv, StoreTyped, Creators, Approvals, CallStages, StageOf, Exists
<1>2. ASSUME NEW u \in Users \ contested PROVE Agreed(u)'
  BY <1>2 DEF ReviewIInv, Agreed, Alone, FromApproved, Fits, IsBusy, NoneLost, Told, HasSet, HasTold
<1> QED BY <1>1, <1>2 DEF ReviewIInv

\* A call that waits for its record: its place, and what it has flushed.
LEMMA AuditedCall ==
    ASSUME ReviewIInv, NEW x \in Sessions, writer[x].pc \in Active, x[2] = "call"
    PROVE  LET c == x[1] IN
           /\ c \in Calls /\ call[c].pc = "flushed" /\ IsBusy(c) /\ StageOf(c) /\ call[c] \in Call
           /\ call[c].op \in {"register", "accept", "reset", "setup"}
           /\ call[c].dirty <=> call[c].op \in {"register", "accept"}
<1>1. PICK c \in Calls : x = <<c, "call">>
  BY DEF Sessions
<1>2. call[c].pc = "flushed" /\ Logs(call[c].op) /\ call[c] \in Call
  BY <1>1 DEF ReviewIInv, TrailIInv, TrailTyped, Once, Active
<1>3. IsBusy(c) /\ StageOf(c)
  BY <1>2 DEF ReviewIInv, CallStages, IsBusy
<1> QED BY <1>1, <1>2, <1>3 DEF StageOf, Logs, CommitsFirst

LEMMA AppendsKeeps ==
    ASSUME ReviewIInv, TrailIInv', NEW x \in Sessions, Appends(x) PROVE ReviewIInv'
<1>1. /\ writer[x].pc \in Active /\ auditor' = Nobody /\ UNCHANGED <<known, contested, failures>>
  BY DEF Appends, Active
<1>2. CASE x[2] # "call"
  <2>1. UNCHANGED <<call, status, accounts>>
    BY <1>2 DEF Appends
  <2> QED BY <1>1, <2>1, CallsRest DEF ReviewIInv, StoreTyped
<1>3. CASE x[2] = "call"
  <2>0. PICK c, u, op, q : c = x[1] /\ u = call[c].who /\ op = call[c].op /\ q = call[c].req
    OBVIOUS
  <2>1. /\ c \in Calls /\ call[c].pc = "flushed" /\ IsBusy(c) /\ StageOf(c) /\ call[c] \in Call
        /\ op \in {"register", "accept", "reset", "setup"}
        /\ call[c].dirty <=> op \in {"register", "accept"}
    BY <1>1, <1>3, <2>0, AuditedCall
  <2>2. /\ call' = [call EXCEPT ![c].pc = "logged", ![c].dirty = FALSE] /\ Stores(c)
        /\ call \in [Calls -> Call] /\ u \in Users /\ op \in Operations
    BY <1>3, <2>0, <2>1 DEF Appends, ReviewIInv, TrailIInv, TrailTyped, StageOf
  <2>3. /\ Moves(c) /\ call'[c].pc = "logged" /\ call'[c].who = u /\ call'[c].op = op
        /\ call'[c].req = q /\ ~call'[c].dirty
        /\ call'[c].mail = call[c].mail /\ call'[c].lost = call[c].lost
    BY <2>0, <2>1, <2>2 DEF Moves, Call
  <2>4. StageOf(c)'
    BY <2>0, <2>1, <2>3 DEF StageOf
  <2>5. NoneLost(u)' => NoneLost(u)
    BY <2>3 DEF NoneLost, Moves
  <2>6. Fits(c)'
    BY <2>3 DEF Fits
  <2>7. CASE ~call[c].dirty
    <3>1. UNCHANGED <<status, accounts>>
      BY <2>2, <2>7 DEF Stores
    <3>2. StoreTyped' /\ Approvals' /\ (FromApproved(u) => FromApproved(u)')
      BY <1>1, <3>1 DEF ReviewIInv, StoreTyped, Approvals, FromApproved
    <3>3. Creators'
      BY <2>0, <2>1, <2>3, <3>1, CreatorsKept DEF ReviewIInv
    <3>4. Settled(c, u) => Settled(c, u)'
      <4>1. HasSet(c) /\ ~HasTold(c)' /\ HasSet(c)'
        BY <2>0, <2>1, <2>3, <2>7 DEF HasSet, HasTold, CommitsFirst
      <4> QED BY <3>1, <4>1 DEF Settled
    <3> QED BY <1>1, <2>0, <2>1, <2>2, <2>3, <2>4, <2>5, <2>6, <3>1, <3>2, <3>3, <3>4, GoesOn
  <2>8. CASE call[c].dirty
    <3>1. op \in {"register", "accept"} /\ ~Exists(u)
      BY <2>0, <2>1, <2>8 DEF ReviewIInv, Creators, Creates
    <3>2. /\ op = "register" => q = Nobody
          /\ op = "accept" => q \in Asked /\ u = UserOf[q] /\ q # Nobody
      BY <2>0, <2>1, AccountsAssumption DEF StageOf
    <3>3. accounts' = [accounts EXCEPT ![u] = [from |-> q, password |-> c]]
      BY <2>0, <2>2, <2>8, <3>1 DEF Stores, Creates
    <3>4. status' = IF op = "accept" THEN [status EXCEPT ![q] = "approved"] ELSE status
      BY <2>0, <2>2, <2>8, <3>1, <3>2 DEF Stores
    <3>5. /\ accounts'[u] = [from |-> q, password |-> c] /\ accounts[u] = NoAccount
          /\ accounts'[u].from = q /\ accounts'[u].password = c /\ accounts[u].from = Nobody
          /\ \A v \in Users \ {u} : accounts'[v] = accounts[v]
      BY <2>2, <3>1, <3>3 DEF ReviewIInv, StoreTyped, Exists, NoAccount
    <3>6. StoreTyped'
      <4>1. q \in Asked \cup {Nobody}
        BY <3>1, <3>2
      <4>2. accounts' \in [Users -> [from : Asked \cup {Nobody}, password : Calls \cup {Nobody}]]
        BY <2>1, <3>3, <4>1 DEF ReviewIInv, StoreTyped
      <4>3. status' \in [Asked -> {"none", "pending", "approved", "rejected"}]
        BY <3>4 DEF ReviewIInv, StoreTyped
      <4> QED BY <1>1, <4>2, <4>3 DEF ReviewIInv, StoreTyped
    <3>7. \A y \in Asked : status'[y] = IF op = "accept" /\ y = q THEN "approved" ELSE status[y]
      BY <3>4 DEF ReviewIInv, StoreTyped
    <3>8. Approvals'
      <4>1. ASSUME NEW y \in Asked, status'[y] = "approved" PROVE accounts'[UserOf[y]].from = y
        <5>1. CASE op = "accept" /\ y = q
          BY <3>2, <3>5, <5>1
        <5>2. CASE ~(op = "accept" /\ y = q)
          <6>1. accounts[UserOf[y]].from = y /\ y # Nobody /\ UserOf[y] \in Users
            BY <3>7, <4>1, <5>2, AccountsAssumption DEF ReviewIInv, Approvals
          <6> QED BY <3>5, <6>1
        <5> QED BY <5>1, <5>2
      <4>2. ASSUME NEW v \in Users, accounts'[v].from # Nobody PROVE UserOf[accounts'[v].from] = v
        BY <3>1, <3>2, <3>5, <4>2 DEF ReviewIInv, Approvals
      <4> QED BY <4>1, <4>2 DEF Approvals
    <3>9. \A v \in Users : (v # u => (Exists(v)' <=> Exists(v))) /\ (v = u => Exists(v)')
      BY <2>1, <3>5, AccountsAssumption DEF Exists, NoAccount
    <3>10. Creators'
      <4>1. \A d \in Calls : d # c => call'[d] = call[d]
        BY <2>3 DEF Moves
      <4>2. ASSUME NEW d \in Calls, call'[d].dirty, Creates(call'[d].op) PROVE ~Exists(call[d].who)'
        <5>1. d # c /\ call[d].dirty /\ Creates(call[d].op)
          BY <2>3, <4>1, <4>2
        <5>2. call[d].who # u /\ ~Exists(call[d].who)
          BY <2>0, <2>1, <2>8, <3>1, <5>1 DEF ReviewIInv, Creators, Creates
        <5>3. call[d].who \in Users
          BY <5>1 DEF ReviewIInv, CallStages, StageOf
        <5> QED BY <3>5, <4>1, <5>1, <5>2, <5>3 DEF Exists
      <4>3. ASSUME NEW d \in Calls, call'[d].pc # "off", CommitsFirst(call'[d].op)
            PROVE  Exists(call[d].who)'
        <5>1. d # c
          BY <2>3, <3>1, <4>3 DEF CommitsFirst
        <5>2. call[d].who \in Users /\ Exists(call[d].who)
          BY <4>1, <4>3, <5>1 DEF ReviewIInv, CallStages, StageOf, Creators
        <5> QED BY <3>1, <3>5, <4>1, <5>1, <5>2 DEF Exists
      <4>4. \A d, e \in Calls :
              call'[d].dirty /\ Creates(call'[d].op) /\ call'[e].dirty /\ Creates(call'[e].op)
                /\ call'[d].who = call'[e].who => d = e
        <5> SUFFICES ASSUME NEW d \in Calls, NEW e \in Calls, call'[d].dirty, Creates(call'[d].op),
                            call'[e].dirty, Creates(call'[e].op), call'[d].who = call'[e].who
                     PROVE  d = e
          OBVIOUS
        <5>1. d # c /\ e # c
          BY <2>3
        <5> QED BY <4>1, <5>1 DEF ReviewIInv, Creators
      <4> QED BY <4>2, <4>3, <4>4 DEF Creators
    <3>11. FromApproved(u)'
      BY <3>1, <3>2, <3>5, <3>7 DEF FromApproved
    <3>12. Settled(c, u)'
      <4>1. HasSet(c)' /\ ~HasTold(c)'
        BY <2>3, <3>1 DEF HasSet, HasTold, Creates
      <4> QED BY <3>5, <4>1 DEF Settled
    <3>13. /\ \A v \in Users \ {u} : accounts'[v] = accounts[v] /\ known'[v] = known[v]
           /\ \A y \in Asked : UserOf[y] # u => status'[y] = status[y]
      BY <1>1, <3>2, <3>5, <3>7
    <3> QED BY <1>1, <2>0, <2>1, <2>2, <2>3, <2>4, <2>6, <3>6, <3>8, <3>10, <3>11, <3>12, <3>13, GoesOn
  <2> QED BY <2>7, <2>8
<1> QED BY <1>2, <1>3

\* With its record a call loses what it had flushed, and its username is excepted.
LEMMA AuditFailsKeeps ==
    ASSUME ReviewIInv, TrailIInv', NEW x \in Sessions, AuditFails(x) PROVE ReviewIInv'
<1>1. /\ writer[x].pc \in Active /\ UNCHANGED <<status, accounts, trail, known, contested>>
      /\ failures < MaxFailures /\ failures' = failures + 1
      /\ auditor' = IF auditor = x THEN Nobody ELSE auditor
  BY DEF AuditFails, Active
<1>2. auditor' \in Sessions \cup {Nobody} /\ failures' \in 0..MaxFailures
  BY <1>1, AccountsAssumption DEF ReviewIInv, StoreTyped
<1>3. CASE x[2] # "call"
  <2>1. call' = call
    BY <1>3 DEF AuditFails
  <2> QED BY <1>1, <1>2, <2>1, CallsRest
<1>4. CASE x[2] = "call"
  <2>0. PICK c, u, op : c = x[1] /\ u = call[c].who /\ op = call[c].op
    OBVIOUS
  <2>1. /\ c \in Calls /\ call[c].pc = "flushed" /\ IsBusy(c) /\ StageOf(c) /\ call[c] \in Call
        /\ op \in {"register", "accept", "reset", "setup"}
        /\ call[c].dirty <=> op \in {"register", "accept"}
    BY <1>1, <1>4, <2>0, AuditedCall
  <2>2. /\ call' = [call EXCEPT ![c].pc = "logged", ![c].dirty = FALSE, ![c].lost = call[c].dirty]
        /\ call \in [Calls -> Call]
    BY <1>4, <2>0 DEF AuditFails, ReviewIInv, TrailIInv, TrailTyped
  <2>3. /\ Moves(c) /\ call'[c].pc = "logged" /\ call'[c].who = u /\ call'[c].op = op
        /\ call'[c].req = call[c].req /\ ~call'[c].dirty
        /\ call'[c].mail = call[c].mail /\ call'[c].lost = call[c].dirty
    BY <2>0, <2>1, <2>2 DEF Moves, Call
  <2>4. StageOf(c)'
    BY <2>0, <2>1, <2>3 DEF StageOf
  <2>5. StoreTyped' /\ Approvals' /\ (FromApproved(u) => FromApproved(u)')
    BY <1>1, <1>2 DEF ReviewIInv, StoreTyped, Approvals, FromApproved
  <2>6. Creators'
    BY <1>1, <2>0, <2>1, <2>3, CreatorsKept DEF ReviewIInv
  <2>7. Fits(c)'
    BY <2>3 DEF Fits
  <2>8. u \notin contested /\ (NoneLost(u) => Settled(c, u)) => (NoneLost(u)' => Settled(c, u)')
    <3> SUFFICES ASSUME u \notin contested, NoneLost(u) => Settled(c, u), NoneLost(u)'
                 PROVE  Settled(c, u)'
      OBVIOUS
    <3>1. ~call'[c].lost
      BY <2>1, <2>3 DEF NoneLost
    <3>2. op \in {"reset", "setup"}
      BY <2>1, <2>3, <3>1
    <3>3. HasSet(c) /\ HasSet(c)' /\ ~HasTold(c)'
      BY <2>0, <2>1, <2>3, <3>2 DEF HasSet, HasTold, CommitsFirst
    <3>4. accounts[u].password = c
      <4>1. u \in Users /\ Agreed(u)
        BY <2>0, <2>1, BusyIsAlone
      <4>2. CASE NoneLost(u)
        BY <3>3, <4>2 DEF Settled
      <4>3. CASE ~NoneLost(u)
        BY <2>0, <2>1, <2>3, <4>3 DEF NoneLost, Moves, StageOf
      <4> QED BY <4>2, <4>3
    <3> QED BY <1>1, <3>3, <3>4 DEF Settled
  <2> QED BY <1>1, <2>0, <2>1, <2>3, <2>4, <2>5, <2>6, <2>7, <2>8, GoesOn
<1> QED BY <1>3, <1>4

LEMMA NextReviewIInv == ReviewIInv /\ [AccountsNext]_accountvars => ReviewIInv'
<1> SUFFICES ASSUME ReviewIInv, [AccountsNext]_accountvars PROVE ReviewIInv'
  OBVIOUS
<1>1. TrailIInv'
  BY NextTrailIInv DEF ReviewIInv
<1>2. ASSUME NEW c \in Calls, CallStep(c) PROVE ReviewIInv'
  BY <1>1, <1>2, HandlersKeep, FlushesKeeps, RepliesKeep, ClosesKeep, MailKeeps DEF CallStep
<1>3. ASSUME NEW x \in Sessions, TakesLock(x) \/ ReadsLast(x) PROVE ReviewIInv'
  <2>1. UNCHANGED <<status, accounts, call, known, contested, failures>>
    BY <1>3 DEF TakesLock, ReadsLast
  <2>2. auditor' \in Sessions \cup {Nobody}
    BY <1>3 DEF TakesLock, ReadsLast, ReviewIInv, StoreTyped
  <2> QED BY <1>1, <2>1, <2>2, CallsRest DEF ReviewIInv, StoreTyped
<1>4. ASSUME NEW x \in Sessions, AuditStep(x) PROVE ReviewIInv'
  BY <1>1, <1>3, <1>4, AppendsKeeps, AuditFailsKeeps DEF AuditStep
<1>5. CASE UNCHANGED accountvars
  BY <1>1, <1>5, CallsRest DEF accountvars, ReviewIInv, StoreTyped
<1> QED BY <1>2, <1>4, <1>5 DEF AccountsNext

LEMMA ReviewInvariant == AccountsSpec => []ReviewIInv
  BY InitReviewIInv, NextReviewIInv, PTL DEF AccountsSpec

LEMMA AccountsTyped == ReviewIInv => AccountsTypeOK
  BY DEF ReviewIInv, StoreTyped, TrailIInv, TrailTyped, Row, AccountsTypeOK

\* Every variable of the accounts keeps its type.
THEOREM AccountsTypeCorrect == AccountsSpec => []AccountsTypeOK
  BY AccountsTyped, ReviewInvariant, PTL

LEMMA ReviewsTrue == ReviewIInv => ReviewsAgree
<1> SUFFICES ASSUME ReviewIInv PROVE ReviewsAgree
  OBVIOUS
<1>1. ASSUME NEW u \in Users \ contested
      PROVE  /\ Exists(u) /\ accounts[u].from # Nobody => status[accounts[u].from] = "approved"
             /\ Busy(u) = {} /\ (\A c \in Calls : call[c].who = u => ~call[c].lost)
                  => known[u] = accounts[u].password
  <2>1. Agreed(u)
    BY DEF ReviewIInv
  <2>2. Busy(u) = {} => \A c \in Calls : call[c].who = u => ~IsBusy(c)
    BY DEF Busy, IsBusy
  <2> QED BY <2>1, <2>2 DEF Agreed, Alone, FromApproved, Told, NoneLost
<1> QED BY <1>1 DEF ReviewIInv, Approvals, ReviewsAgree

\* Requests that are approved have made their accounts, and owners know their passwords,
\* but where two calls overlapped or a call lost its change with its audit record (auth.py).
THEOREM ReviewsAreTrue == AccountsSpec => []ReviewsAgree
  BY ReviewsTrue, ReviewInvariant, PTL

-----------------------------------------------------------------------------
(***************************************************************************)
(* ComBridge.  A handle is made only when none is installed.  The one that *)
(* was is gone because its device was unplugged or because a pipe closed   *)
(* it, and every pipe does so once: so the handles are bounded.            *)
(***************************************************************************)

Joined == {"served", "closing", "over"}
Thread == [pc : {"none", "connected", "claimed"} \cup Joined, gone : BOOLEAN, ser : Nat,
           stop : BOOLEAN, pipe : [Pipes -> {"off", "run", "lost"}]]
Holders == {c \in Callers : caller[c].pc \in {"claimed", "served", "closing"}}

\* A pipe that has ended, or never will run.
Spent == {x \in Callers \X Pipes : caller[x[1]].pc \in Joined /\ caller[x[1]].pipe[x[2]] = "off"}
Usable == IF {watcher, serial} \cap live # {} THEN 1 ELSE 0

PortTyped == /\ present \in BOOLEAN /\ unplugs \in 0..MaxUnplugs
             /\ handles \in Nat /\ watcher \in 0..handles /\ serial \in 0..handles
             /\ opened \subseteq {watcher, serial} \ {0} /\ live \subseteq 1..handles
             /\ (watcher # 0 => serial = 0) /\ (~present => live = {})
ThreadsTyped == /\ caller \in [Callers -> Thread]
                /\ \A c \in Callers : caller[c].ser <= handles
                /\ \A c \in Callers, p \in Pipes : caller[c].pipe[p] # "off" => caller[c].pc \in Joined
SlotHeld == /\ slot \in BOOLEAN
            /\ slot => \E c \in Callers : Holders = {c}
            /\ ~slot => Holders = {}

\* Every handle but one that still works was unplugged, or closed by a pipe that ended.
HandlesBounded == handles <= unplugs + Cardinality(Spent) + Usable

BridgeIInv == PortTyped /\ ThreadsTyped /\ SlotHeld /\ HandlesBounded

BridgeStep ==
    \/ PortGone \/ OpenPort \/ PortInstalled \/ OpenFails \/ Unplugged \/ Plugged
    \/ \E c \in Callers : \/ Arrives(c) \/ Claims(c) \/ Captures(c) \/ HangsUp(c) \/ SendFails(c)
                          \/ LateChunk(c) \/ Stopped(c) \/ Releases(c)
                          \/ \E p \in Pipes : PipeEnds(c, p) \/ PipeFails(c, p) \/ PipeMarks(c, p)

LEMMA SpentFinite == ASSUME BridgeAssumption, NEW S, S \subseteq Callers \X Pipes
                     PROVE IsFiniteSet(S) /\ Cardinality(S) \in Nat /\ Cardinality(S) <= 2 * Cardinality(Callers)
<1>1. IsFiniteSet(Pipes) /\ Cardinality(Pipes) = 2
  <2> DEFINE U == {"up"}
  <2>1. Pipes = U \cup {"down"} /\ "down" \notin U
    BY DEF Pipes
  <2>2. IsFiniteSet(U) /\ Cardinality(U) = 1
    BY FS_Singleton
  <2> HIDE DEF U
  <2>3. IsFiniteSet(U \cup {"down"}) /\ Cardinality(U \cup {"down"}) = Cardinality(U) + 1
    BY <2>1, <2>2, FS_AddElement
  <2> QED BY <2>1, <2>2, <2>3
<1>2. IsFiniteSet(Callers) /\ Cardinality(Callers) \in Nat
  BY FS_CardinalityType DEF BridgeAssumption
<1>3. IsFiniteSet(Callers \X Pipes) /\ Cardinality(Callers \X Pipes) = Cardinality(Callers) * 2
  BY <1>1, <1>2, FS_Product
<1>4. IsFiniteSet(S) /\ Cardinality(S) <= Cardinality(Callers \X Pipes)
  BY <1>3, FS_Subset
<1> QED BY <1>2, <1>3, <1>4, FS_CardinalityType

LEMMA InitBridge == BridgeInit => BridgeIInv
<1> SUFFICES ASSUME BridgeInit PROVE BridgeIInv
  OBVIOUS
<1> USE BridgeAssumption
<1>1. PortTyped
  BY DEF BridgeInit, PortTyped, BridgeAssumption
<1>2. ThreadsTyped
  BY DEF BridgeInit, ThreadsTyped, Thread, Joined
<1>3. SlotHeld
  BY DEF BridgeInit, SlotHeld, Holders
<1>4. HandlesBounded
  <2>1. Cardinality(Spent) \in Nat
    BY SpentFinite DEF Spent
  <2> QED BY <2>1 DEF BridgeInit, HandlesBounded, Usable
<1> QED BY <1>1, <1>2, <1>3, <1>4 DEF BridgeIInv

\* What a step of one connection does to the pipes that are spent and to the holders.
LEMMA OneCaller ==
    ASSUME BridgeIInv, NEW c \in Callers, NEW th \in Thread, th.ser <= handles,
           caller' = [caller EXCEPT ![c] = th],
           \A p \in Pipes : th.pipe[p] # "off" => th.pc \in Joined,
           caller[c].pc \in Joined => th.pc \in Joined,
           \A p \in Pipes : caller[c].pc \in Joined /\ caller[c].pipe[p] = "off" => th.pipe[p] = "off",
           handles' = handles
    PROVE /\ ThreadsTyped'
          /\ Spent \subseteq Spent' /\ Cardinality(Spent) <= Cardinality(Spent')
<1>1. /\ caller' \in [Callers -> Thread] /\ caller'[c] = th
      /\ \A o \in Callers \ {c} : caller'[o] = caller[o]
  BY DEF BridgeIInv, ThreadsTyped
<1>2. ThreadsTyped'
  BY <1>1 DEF BridgeIInv, ThreadsTyped
<1>3. Spent \subseteq Spent'
  <2> SUFFICES ASSUME NEW x \in Spent PROVE x \in Spent'
    OBVIOUS
  <2>1. x \in Callers \X Pipes /\ caller[x[1]].pc \in Joined /\ caller[x[1]].pipe[x[2]] = "off"
    BY DEF Spent
  <2>2. x[1] \in Callers /\ x[2] \in Pipes
    BY <2>1
  <2>3. caller'[x[1]].pc \in Joined /\ caller'[x[1]].pipe[x[2]] = "off"
    BY <1>1, <2>1, <2>2
  <2> QED BY <2>1, <2>3 DEF Spent
<1>4. Spent' \subseteq Callers \X Pipes
  BY DEF Spent
<1> QED BY <1>2, <1>3, <1>4, SpentFinite, FS_Subset, BridgeAssumption

LEMMA PortGoneKeeps == BridgeIInv /\ PortGone => BridgeIInv'
<1> SUFFICES ASSUME BridgeIInv, PortGone PROVE BridgeIInv'
  OBVIOUS
<1>1. PortTyped'
  BY DEF BridgeIInv, PortTyped, PortGone, ForgetPort, port
<1>2. ThreadsTyped' /\ SlotHeld'
  BY DEF BridgeIInv, ThreadsTyped, SlotHeld, Holders, PortGone
<1>3. Spent' = Spent /\ Usable = 0 /\ Usable' = 0
  BY DEF Spent, Usable, PortGone, BridgeIInv, PortTyped, port
<1> QED BY <1>1, <1>2, <1>3 DEF BridgeIInv, HandlesBounded, PortGone, port

LEMMA OpenPortKeeps == BridgeIInv /\ OpenPort => BridgeIInv'
<1> SUFFICES ASSUME BridgeIInv, OpenPort PROVE BridgeIInv'
  OBVIOUS
<1>1. PortTyped'
  <2>1. handles' = handles + 1 /\ watcher' = handles + 1 /\ serial' = 0
    BY DEF OpenPort
  <2>2. opened' \subseteq {watcher', serial'} \ {0}
    BY <2>1 DEF BridgeIInv, PortTyped, OpenPort
  <2>3. live' \subseteq 1..handles'
    BY <2>1 DEF BridgeIInv, PortTyped, OpenPort
  <2> QED BY <2>1, <2>2, <2>3 DEF BridgeIInv, PortTyped, OpenPort
<1>2. ThreadsTyped' /\ SlotHeld'
  BY DEF BridgeIInv, ThreadsTyped, PortTyped, SlotHeld, Holders, Thread, OpenPort
<1>3. Spent' = Spent /\ Usable = 0 /\ Usable' = 1
  BY DEF Spent, Usable, OpenPort, BridgeIInv, PortTyped
<1>4. Cardinality(Spent) \in Nat
  BY SpentFinite, BridgeAssumption DEF Spent
<1> QED BY <1>1, <1>2, <1>3, <1>4 DEF BridgeIInv, HandlesBounded, OpenPort, PortTyped

LEMMA WatcherKeeps == BridgeIInv /\ (PortInstalled \/ OpenFails) => BridgeIInv'
<1> SUFFICES ASSUME BridgeIInv, PortInstalled \/ OpenFails PROVE BridgeIInv'
  OBVIOUS
<1>0. watcher \in 1..handles /\ serial = 0
  BY DEF BridgeIInv, PortTyped, PortInstalled, OpenFails
<1>1. PortTyped'
  BY <1>0 DEF BridgeIInv, PortTyped, PortInstalled, OpenFails, port
<1>2. ThreadsTyped' /\ SlotHeld'
  BY DEF BridgeIInv, ThreadsTyped, SlotHeld, Holders, PortInstalled, OpenFails
<1>3. Spent' = Spent /\ Usable' = Usable
  BY <1>0 DEF Spent, Usable, PortInstalled, OpenFails, BridgeIInv, PortTyped, port
<1> QED BY <1>1, <1>2, <1>3 DEF BridgeIInv, HandlesBounded, PortInstalled, OpenFails, port

LEMMA PlugsKeep == BridgeIInv /\ (Unplugged \/ Plugged) => BridgeIInv'
<1> SUFFICES ASSUME BridgeIInv, Unplugged \/ Plugged PROVE BridgeIInv'
  OBVIOUS
<1>1. PortTyped'
  <2>1. CASE Unplugged
    <3>1. present' = FALSE /\ live' = {} /\ unplugs' \in 0..MaxUnplugs
      BY <2>1, BridgeAssumption DEF BridgeIInv, PortTyped, Unplugged, BridgeAssumption
    <3>2. UNCHANGED <<watcher, serial, opened, handles>>
      BY <2>1 DEF Unplugged
    <3> QED BY <3>1, <3>2 DEF BridgeIInv, PortTyped
  <2>2. CASE Plugged
    BY <2>2 DEF BridgeIInv, PortTyped, Plugged
  <2> QED BY <2>1, <2>2
<1>2. ThreadsTyped' /\ SlotHeld'
  BY DEF BridgeIInv, ThreadsTyped, SlotHeld, Holders, Unplugged, Plugged
<1>3. Spent' = Spent /\ Usable \in 0..1 /\ Usable' \in 0..1
  BY DEF Spent, Usable, Unplugged, Plugged
<1>4. Cardinality(Spent) \in Nat
  BY SpentFinite, BridgeAssumption DEF Spent
<1>5. CASE Unplugged
  <2>1. Usable' = 0
    BY <1>5 DEF Usable, Unplugged
  <2> QED BY <1>1, <1>2, <1>3, <1>4, <1>5, <2>1 DEF BridgeIInv, HandlesBounded, PortTyped, Unplugged
<1>6. CASE Plugged
  BY <1>1, <1>2, <1>3, <1>4, <1>6 DEF BridgeIInv, HandlesBounded, Plugged, Usable
<1> QED BY <1>5, <1>6

\* Steps of a connection that leave the port and the slot alone.
LEMMA QuietCallers ==
    ASSUME BridgeIInv, NEW c \in Callers,
           \/ Arrives(c) \/ HangsUp(c) \/ SendFails(c) \/ LateChunk(c) \/ Stopped(c)
           \/ \E p \in Pipes : PipeEnds(c, p) \/ PipeFails(c, p)
    PROVE  BridgeIInv'
<1> DEFINE th == caller'[c]
<1>0. UNCHANGED <<present, unplugs, live, watcher, serial, opened, handles, slot>>
  BY DEF Arrives, HangsUp, SendFails, LateChunk, Stopped, PipeEnds, PipeFails, port
<1>1. caller \in [Callers -> Thread] /\ caller[c] \in Thread
  BY DEF BridgeIInv, ThreadsTyped
<1> DEFINE Quietly ==
        /\ caller' = [caller EXCEPT ![c] = th]
        /\ th \in Thread /\ th.ser = caller[c].ser
        /\ \A p \in Pipes : th.pipe[p] = caller[c].pipe[p] \/ (caller[c].pipe[p] = "run" /\ th.pipe[p] \in {"off", "lost"})
        /\ \/ th.pc = caller[c].pc
           \/ caller[c].pc = "none" /\ th.pc = "connected"
           \/ caller[c].pc = "served" /\ th.pc = "closing"
<1>2. Quietly
  <2>1. CASE Arrives(c)
    BY <1>1, <2>1 DEF Arrives, Thread
  <2>2. CASE HangsUp(c)
    BY <1>1, <2>2 DEF HangsUp, Thread
  <2>7. CASE Stopped(c)
    BY <1>1, <2>7 DEF Stopped, Thread, Joined
  <2>3. CASE SendFails(c)
    BY <1>1, <2>3 DEF SendFails, Thread, Pipes
  <2>4. CASE LateChunk(c)
    BY <1>1, <2>4 DEF LateChunk, Thread, Pipes
  <2>5. ASSUME NEW p \in Pipes, PipeEnds(c, p) PROVE Quietly
    BY <1>1, <2>5 DEF PipeEnds, Thread
  <2>6. ASSUME NEW p \in Pipes, PipeFails(c, p) PROVE Quietly
    <3>1. PICK noticed \in BOOLEAN :
             caller' = IF noticed THEN [caller EXCEPT ![c].pipe[p] = "lost"]
                       ELSE [caller EXCEPT ![c].pipe[p] = "off", ![c].stop = TRUE]
      BY <2>6 DEF PipeFails
    <3>2. caller[c].pipe[p] = "run"
      BY <2>6 DEF PipeFails
    <3>3. CASE noticed
      BY <1>1, <3>1, <3>2, <3>3 DEF Thread
    <3>4. CASE ~noticed
      BY <1>1, <3>1, <3>2, <3>4 DEF Thread
    <3> QED BY <3>3, <3>4
  <2> QED BY <2>1, <2>2, <2>3, <2>4, <2>5, <2>6, <2>7
<1> HIDE DEF th
<1>3. th.ser <= handles
  BY <1>2 DEF BridgeIInv, ThreadsTyped
<1>4. caller[c].pc \in Joined => th.pc \in Joined
  BY <1>2 DEF Joined
<1>5. \A p \in Pipes : th.pipe[p] # "off" => th.pc \in Joined
  <2> SUFFICES ASSUME NEW p \in Pipes, th.pipe[p] # "off" PROVE th.pc \in Joined
    OBVIOUS
  <2>1. caller[c].pipe[p] # "off"
    BY <1>2
  <2>2. caller[c].pc \in Joined
    BY <2>1 DEF BridgeIInv, ThreadsTyped
  <2> QED BY <1>4, <2>2
<1>6. \A p \in Pipes : caller[c].pc \in Joined /\ caller[c].pipe[p] = "off" => th.pipe[p] = "off"
  BY <1>2
<1>7. ThreadsTyped' /\ Cardinality(Spent) <= Cardinality(Spent')
  BY <1>0, <1>2, <1>3, <1>4, <1>5, <1>6, OneCaller
<1>8. Holders' = Holders
  BY <1>1, <1>2 DEF Holders
<1>9. SlotHeld'
  BY <1>0, <1>8 DEF SlotHeld, BridgeIInv
<1>10. PortTyped'
  BY <1>0 DEF PortTyped, BridgeIInv
<1>11. Usable' = Usable
  BY <1>0 DEF Usable
<1>12. HandlesBounded'
  <2>1. Cardinality(Spent) \in Nat /\ Cardinality(Spent)' \in Nat /\ Usable \in 0..1
    BY SpentFinite, BridgeAssumption DEF Spent, Usable
  <2> QED BY <1>0, <1>7, <1>11, <2>1 DEF HandlesBounded, BridgeIInv, PortTyped
<1> QED BY <1>7, <1>9, <1>10, <1>12 DEF BridgeIInv

LEMMA ClaimsKeeps == ASSUME BridgeIInv, NEW c \in Callers, Claims(c) PROVE BridgeIInv'
<1> DEFINE th == [caller[c] EXCEPT !.pc = IF slot THEN "over" ELSE "claimed"]
<1>0. UNCHANGED <<present, unplugs, live, watcher, serial, opened, handles>>
  BY DEF Claims, port
<1>1. caller \in [Callers -> Thread] /\ caller[c] \in Thread /\ caller[c].pc = "connected"
  BY DEF BridgeIInv, ThreadsTyped, Claims
<1>2. /\ caller' = [caller EXCEPT ![c] = th] /\ th \in Thread
      /\ th.ser = caller[c].ser /\ th.pipe = caller[c].pipe
      /\ th.pc = IF slot THEN "over" ELSE "claimed"
  BY <1>1 DEF Claims, Thread, Joined
<1> HIDE DEF th
<1>3. th.ser <= handles /\ \A p \in Pipes : th.pipe[p] = "off"
  BY <1>1, <1>2 DEF BridgeIInv, ThreadsTyped, Joined
<1>4. ThreadsTyped' /\ Cardinality(Spent) <= Cardinality(Spent')
  BY <1>0, <1>1, <1>2, <1>3, OneCaller DEF Joined
<1>5. SlotHeld'
  <2>1. CASE slot
    <3>1. Holders' = Holders
      BY <1>1, <1>2, <2>1 DEF Holders
    <3> QED BY <2>1, <3>1 DEF Claims, SlotHeld, BridgeIInv
  <2>2. CASE ~slot
    <3>1. Holders = {}
      BY <2>2 DEF BridgeIInv, SlotHeld
    <3>2. Holders' = {c}
      BY <1>1, <1>2, <2>2, <3>1 DEF Holders
    <3> QED BY <3>2 DEF Claims, SlotHeld
  <2> QED BY <2>1, <2>2
<1>6. PortTyped' /\ Usable' = Usable
  BY <1>0 DEF PortTyped, BridgeIInv, Usable
<1>7. HandlesBounded'
  <2>1. Cardinality(Spent) \in Nat /\ Cardinality(Spent)' \in Nat /\ Usable \in 0..1
    BY SpentFinite, BridgeAssumption DEF Spent, Usable
  <2> QED BY <1>0, <1>4, <1>6, <2>1 DEF HandlesBounded, BridgeIInv, PortTyped
<1> QED BY <1>4, <1>5, <1>6, <1>7 DEF BridgeIInv

\* The holder gives the slot back.
LEMMA GivesBack ==
    ASSUME BridgeIInv, NEW c \in Holders, NEW th, th.pc = "over",
           caller' = [caller EXCEPT ![c] = th], slot' = FALSE
    PROVE  SlotHeld'
<1>1. c \in Callers /\ caller \in [Callers -> Thread]
  BY DEF Holders, BridgeIInv, ThreadsTyped
<1>2. Holders = {c}
  BY DEF BridgeIInv, SlotHeld
<1>3. Holders' = {}
  <2> SUFFICES ASSUME NEW o \in Callers, caller'[o].pc \in {"claimed", "served", "closing"} PROVE FALSE
    BY DEF Holders
  <2>1. CASE o = c
    BY <1>1, <2>1
  <2>2. CASE o # c
    <3>1. caller'[o] = caller[o]
      BY <1>1, <2>2
    <3>2. o \in Holders
      BY <3>1 DEF Holders
    <3> QED BY <1>2, <2>2, <3>2
  <2> QED BY <2>1, <2>2
<1> QED BY <1>3 DEF SlotHeld

LEMMA CapturesKeeps == ASSUME BridgeIInv, NEW c \in Callers, Captures(c) PROVE BridgeIInv'
<1> DEFINE th == caller'[c]
<1>0. UNCHANGED <<present, unplugs, live, watcher, serial, opened, handles>>
  BY DEF Captures, port
<1>1. /\ caller \in [Callers -> Thread] /\ caller[c] \in Thread /\ caller[c].pc = "claimed"
      /\ serial \in 0..handles /\ handles \in Nat /\ caller[c].ser <= handles
      /\ \A p \in Pipes : caller[c].pipe[p] = "off"
  BY DEF BridgeIInv, ThreadsTyped, PortTyped, Captures, Joined
<1>2. /\ caller' = [caller EXCEPT ![c] = th] /\ th \in Thread /\ th.ser <= handles
      /\ \/ th.pc = "served" /\ slot' = slot
         \/ th.pc = "over" /\ th.pipe = caller[c].pipe /\ slot' = FALSE
  BY <1>1 DEF Captures, Thread, Joined
<1> HIDE DEF th
<1>3. ThreadsTyped' /\ Cardinality(Spent) <= Cardinality(Spent')
  BY <1>0, <1>1, <1>2, OneCaller DEF Joined
<1>4. c \in Holders
  BY <1>1 DEF Holders
<1>5. SlotHeld'
  <2>1. CASE th.pc = "served" /\ slot' = slot
    <3>1. Holders' = Holders
      BY <1>1, <1>2, <2>1 DEF Holders
    <3> QED BY <2>1, <3>1 DEF SlotHeld, BridgeIInv
  <2>2. CASE th.pc = "over" /\ slot' = FALSE
    BY <1>2, <1>4, <2>2, GivesBack
  <2> QED BY <1>2, <2>1, <2>2
<1>6. PortTyped' /\ Usable' = Usable
  BY <1>0 DEF PortTyped, BridgeIInv, Usable
<1>7. HandlesBounded'
  <2>1. Cardinality(Spent) \in Nat /\ Cardinality(Spent)' \in Nat /\ Usable \in 0..1
    BY SpentFinite, BridgeAssumption DEF Spent, Usable
  <2> QED BY <1>0, <1>3, <1>6, <2>1 DEF HandlesBounded, BridgeIInv, PortTyped
<1> QED BY <1>3, <1>5, <1>6, <1>7 DEF BridgeIInv

LEMMA ReleasesKeeps == ASSUME BridgeIInv, NEW c \in Callers, Releases(c) PROVE BridgeIInv'
<1> DEFINE th == caller'[c]
<1>0. UNCHANGED <<present, unplugs, live, watcher, serial, opened, handles>> /\ slot' = FALSE
  BY DEF Releases, port
<1>1. /\ caller \in [Callers -> Thread] /\ caller[c] \in Thread /\ caller[c].pc = "closing"
      /\ caller[c].ser <= handles
  BY DEF BridgeIInv, ThreadsTyped, Releases
<1>2. /\ caller' = [caller EXCEPT ![c] = th] /\ th \in Thread
      /\ th.pc = "over" /\ th.pipe = caller[c].pipe /\ th.ser = caller[c].ser
  BY <1>1 DEF Releases, Thread, Joined
<1> HIDE DEF th
<1>3. ThreadsTyped' /\ Cardinality(Spent) <= Cardinality(Spent')
  BY ZenonT(120), <1>0, <1>1, <1>2, OneCaller DEF Joined
<1>4. SlotHeld'
  <2>1. c \in Holders
    BY <1>1 DEF Holders
  <2> QED BY <1>0, <1>2, <2>1, GivesBack
<1>6. PortTyped' /\ Usable' = Usable
  BY <1>0 DEF PortTyped, BridgeIInv, Usable
<1>7. HandlesBounded'
  <2>1. Cardinality(Spent) \in Nat /\ Cardinality(Spent)' \in Nat /\ Usable \in 0..1
    BY SpentFinite, BridgeAssumption DEF Spent, Usable
  <2> QED BY <1>0, <1>3, <1>6, <2>1 DEF HandlesBounded, BridgeIInv, PortTyped
<1> QED BY <1>3, <1>4, <1>6, <1>7 DEF BridgeIInv

LEMMA PipeMarksKeeps ==
    ASSUME BridgeIInv, NEW c \in Callers, NEW p \in Pipes, PipeMarks(c, p) PROVE BridgeIInv'
<1> DEFINE th == caller'[c]
<1>0. UNCHANGED <<present, unplugs, live, watcher, handles, slot>> /\ ForgetPort
  BY DEF PipeMarks, port
<1>1. /\ caller \in [Callers -> Thread] /\ caller[c] \in Thread /\ caller[c].pc \in Joined
      /\ caller[c].ser <= handles /\ caller[c].pipe[p] = "lost"
  BY DEF BridgeIInv, ThreadsTyped, PipeMarks
<1>2. /\ caller' = [caller EXCEPT ![c] = th] /\ th \in Thread
      /\ th.pc = caller[c].pc /\ th.ser = caller[c].ser /\ th.pipe[p] = "off"
      /\ \A o \in Pipes \ {p} : th.pipe[o] = caller[c].pipe[o]
  BY <1>1 DEF PipeMarks, Thread
<1> HIDE DEF th
<1>3. \A o \in Pipes : caller[c].pipe[o] = "off" => th.pipe[o] = "off"
  BY <1>2
<1>4. ThreadsTyped' /\ Spent \subseteq Spent'
  BY <1>0, <1>1, <1>2, <1>3, OneCaller
<1>5. Cardinality(Spent)' >= Cardinality(Spent) + 1
  <2>1. <<c, p>> \notin Spent
    BY <1>1 DEF Spent
  <2>2. <<c, p>> \in Spent'
    BY <1>1, <1>2 DEF Spent
  <2>3. IsFiniteSet(Spent) /\ Cardinality(Spent) \in Nat /\ IsFiniteSet(Spent')
    BY SpentFinite, BridgeAssumption DEF Spent
  <2>4. Cardinality(Spent \cup {<<c, p>>}) = Cardinality(Spent) + 1 /\ IsFiniteSet(Spent \cup {<<c, p>>})
    BY <2>1, <2>3, FS_AddElement
  <2>5. Spent \cup {<<c, p>>} \subseteq Spent'
    BY <1>4, <2>2
  <2>6. Cardinality(Spent \cup {<<c, p>>}) <= Cardinality(Spent')
    BY <2>3, <2>5, FS_Subset
  <2>7. Cardinality(Spent') \in Nat
    BY <2>3, FS_CardinalityType
  <2> QED BY <2>3, <2>4, <2>6, <2>7
<1>6. SlotHeld'
  <2>1. Holders' = Holders
    BY <1>1, <1>2 DEF Holders
  <2> QED BY <1>0, <2>1 DEF SlotHeld, BridgeIInv
<1>7. PortTyped'
  BY <1>0 DEF PortTyped, BridgeIInv, ForgetPort
<1>8. HandlesBounded'
  <2>1. Cardinality(Spent) \in Nat /\ Cardinality(Spent)' \in Nat /\ Usable \in 0..1 /\ Usable' \in 0..1
    BY SpentFinite, BridgeAssumption DEF Spent, Usable
  <2> QED BY <1>0, <1>5, <2>1 DEF HandlesBounded, BridgeIInv, PortTyped
<1> QED BY <1>4, <1>6, <1>7, <1>8 DEF BridgeIInv

LEMMA NextBridge == BridgeIInv /\ [BridgeStep]_brvars => BridgeIInv'
<1> SUFFICES ASSUME BridgeIInv, [BridgeStep]_brvars PROVE BridgeIInv'
  OBVIOUS
<1>1. CASE UNCHANGED brvars
  BY <1>1 DEF brvars, BridgeIInv, PortTyped, ThreadsTyped, SlotHeld, Holders, HandlesBounded, Usable, Spent
<1>2. CASE PortGone \/ OpenPort \/ PortInstalled \/ OpenFails \/ Unplugged \/ Plugged
  BY <1>2, PortGoneKeeps, OpenPortKeeps, WatcherKeeps, PlugsKeep
<1>3. ASSUME NEW c \in Callers,
             \/ Arrives(c) \/ HangsUp(c) \/ SendFails(c) \/ LateChunk(c) \/ Stopped(c)
             \/ \E p \in Pipes : PipeEnds(c, p) \/ PipeFails(c, p)
      PROVE  BridgeIInv'
  BY <1>3, QuietCallers
<1>4. ASSUME NEW c \in Callers, Claims(c) \/ Captures(c) \/ Releases(c) PROVE BridgeIInv'
  BY <1>4, ClaimsKeeps, CapturesKeeps, ReleasesKeeps
<1>5. ASSUME NEW c \in Callers, NEW p \in Pipes, PipeMarks(c, p) PROVE BridgeIInv'
  BY <1>5, PipeMarksKeeps
<1> QED BY <1>1, <1>2, <1>3, <1>4, <1>5 DEF BridgeStep

LEMMA BridgeTyped == BridgeIInv => BridgeTypeOK
<1> SUFFICES ASSUME BridgeIInv PROVE BridgeTypeOK
  OBVIOUS
<1>1. handles \in Handles /\ 0..handles \subseteq Handles
  <2>1. /\ Cardinality(Spent) \in Nat /\ Cardinality(Spent) <= 2 * Cardinality(Callers)
        /\ Usable \in 0..1
    BY SpentFinite, BridgeAssumption DEF Spent, Usable
  <2>2. Cardinality(Callers) \in Nat /\ MaxUnplugs \in Nat
    BY FS_CardinalityType, BridgeAssumption DEF BridgeAssumption
  <2>3. handles \in Nat /\ unplugs \in 0..MaxUnplugs
    BY DEF BridgeIInv, PortTyped
  <2>4. handles <= unplugs + Cardinality(Spent) + Usable
    BY DEF BridgeIInv, HandlesBounded
  <2> HIDE DEF Spent, Usable
  <2>5. handles <= MaxUnplugs + 2 * Cardinality(Callers) + 1
    BY <2>1, <2>2, <2>3, <2>4
  <2> QED BY <2>2, <2>3, <2>5 DEF Handles
<1>2. caller \in [Callers -> Caller]
  <2> SUFFICES ASSUME NEW c \in Callers PROVE caller[c] \in Caller
    BY DEF BridgeIInv, ThreadsTyped
  <2>1. caller[c] \in Thread /\ caller[c].ser <= handles /\ handles \in Nat
    BY DEF BridgeIInv, ThreadsTyped, PortTyped
  <2>2. caller[c].ser \in Handles
    BY <1>1, <2>1 DEF Thread
  <2> QED BY <2>1, <2>2 DEF Thread, Caller, Joined
<1>3. Cardinality(Holders) = IF slot THEN 1 ELSE 0
  BY FS_Singleton, FS_EmptySet DEF BridgeIInv, SlotHeld
<1> QED BY <1>1, <1>2, <1>3 DEF BridgeIInv, PortTyped, BridgeTypeOK, Holders

-----------------------------------------------------------------------------
(* VesselFeed *)

\* The position is as old as the slowest ingest made it and its time to live has let it become.
FeedIInv == FeedTypeOK /\ fix.age + fix.left <= MaxDelay + Ttl

LEMMA InitFeed == FeedInit => FeedIInv
  BY FeedAssumption DEF FeedInit, FeedIInv, FeedTypeOK, FeedAssumption, NoFix, NoIngest, Off

LEMMA NextFeed == FeedIInv /\ [FeedNext]_feedvars => FeedIInv'
<1> SUFFICES ASSUME FeedIInv, [FeedNext]_feedvars PROVE FeedIInv'
  OBVIOUS
<1> USE FeedAssumption DEF FeedAssumption
<1> DEFINE Somewhere == Places \cup {Nowhere}
           Ingest == [at : {"idle", "reads", "stores"}, pos : Somewhere, age : 0..MaxDelay]
           Updater == [at : {"off", "sleeps", "sends"}, pos : Somewhere, wait : 0..Poll]
           Fix == [pos : Somewhere, age : 0..(MaxDelay + Ttl), left : 0..Ttl]
<1>1. /\ anchored \in Somewhere /\ burst \in 0..MaxBurst /\ home \in [HomeDrones -> Somewhere]
      /\ fix \in Fix /\ ingests \in [Ingests -> Ingest] /\ updaters \in [HomeDrones -> Updater]
      /\ fix.age + fix.left <= MaxDelay + Ttl
  BY DEF FeedIInv, FeedTypeOK
<1>2. /\ NoFix \in Fix /\ NoFix.age = 0 /\ NoFix.left = 0 /\ NoIngest \in Ingest
      /\ Off \in Updater /\ Asleep \in Updater
  BY DEF NoFix, NoIngest, Off, Asleep
<1> SUFFICES /\ anchored' \in Somewhere /\ burst' \in 0..MaxBurst /\ home' \in [HomeDrones -> Somewhere]
             /\ fix' \in Fix /\ ingests' \in [Ingests -> Ingest] /\ updaters' \in [HomeDrones -> Updater]
             /\ fix'.age + fix'.left <= MaxDelay + Ttl
  BY DEF FeedIInv, FeedTypeOK
<1>3. CASE UNCHANGED feedvars
  BY <1>1, <1>3 DEF feedvars
<1>4. CASE Anchors
  BY <1>1, <1>4 DEF Anchors
<1>5. CASE Datagram
  BY <1>1, <1>5 DEF Datagram
<1>6. CASE SecondPasses
  <2>1. fix' \in Fix /\ fix'.age + fix'.left <= MaxDelay + Ttl
    <3>1. CASE fix.left <= 1
      BY <1>2, <1>6, <3>1 DEF SecondPasses
    <3>2. CASE ~(fix.left <= 1)
      <4>1. fix' = [fix EXCEPT !.age = @ + 1, !.left = @ - 1]
        BY <1>6, <3>2 DEF SecondPasses
      <4>2. fix'.pos = fix.pos /\ fix'.age = fix.age + 1 /\ fix'.left = fix.left - 1
        BY <1>1, <4>1
      <4>3. /\ fix.age \in Nat /\ fix.left \in 0..Ttl /\ MaxDelay + Ttl \in Nat
            /\ fix.age + fix.left <= MaxDelay + Ttl
        BY <1>1
      <4>4. fix.age + 1 \in 0..(MaxDelay + Ttl) /\ fix.left - 1 \in 0..Ttl
        BY <3>2, <4>3
      <4>5. fix' \in Fix
        BY <1>1, <4>1, <4>4
      <4> QED BY <4>2, <4>3, <4>5
    <3> QED BY <3>1, <3>2
  <2>2. ingests' \in [Ingests -> Ingest]
    <3>1. ingests' = [t \in Ingests |-> IF ingests[t] = NoIngest THEN NoIngest
                                        ELSE [ingests[t] EXCEPT !.age = @ + 1]]
      BY <1>6 DEF SecondPasses
    <3> SUFFICES ASSUME NEW t \in Ingests PROVE [ingests[t] EXCEPT !.age = @ + 1] \in Ingest
      BY <1>2, <3>1
    <3>2. ingests[t] \in Ingest /\ ingests[t].age < MaxDelay
      BY <1>1, <1>6 DEF SecondPasses
    <3> QED BY <3>2
  <2>3. updaters' \in [HomeDrones -> Updater]
    <3>1. updaters' = [d \in HomeDrones |-> IF updaters[d].wait = 0 THEN updaters[d]
                                            ELSE [updaters[d] EXCEPT !.wait = @ - 1]]
      BY <1>6 DEF SecondPasses
    <3>2. ASSUME NEW d \in HomeDrones, updaters[d].wait # 0
          PROVE  [updaters[d] EXCEPT !.wait = @ - 1] \in Updater
      <4>1. updaters[d] \in Updater
        BY <1>1
      <4>2. updaters[d].wait - 1 \in 0..Poll
        BY <3>2, <4>1
      <4> QED BY <4>1, <4>2
    <3> QED BY <1>1, <3>1, <3>2
  <2> QED BY <1>1, <1>6, <2>1, <2>2, <2>3 DEF SecondPasses
<1>7. ASSUME NEW t \in Ingests, Reads(t) PROVE ingests' \in [Ingests -> Ingest]
  <2>1. [ingests[t] EXCEPT !.at = "stores"] \in Ingest
    BY <1>1
  <2> QED BY <1>1, <1>2, <1>7, <2>1 DEF Reads
<1>8. ASSUME NEW t \in Ingests, NEW ok \in BOOLEAN, StoresFix(t, ok)
      PROVE  /\ ingests' \in [Ingests -> Ingest] /\ fix' \in Fix
             /\ fix'.age + fix'.left <= MaxDelay + Ttl
  <2>1. ingests' \in [Ingests -> Ingest]
    BY <1>1, <1>2, <1>8 DEF StoresFix
  <2>2. ingests[t] \in Ingest
    BY <1>1
  <2>3. CASE fix' = fix
    BY <1>1, <2>1, <2>3
  <2>4. CASE fix' = [pos |-> ingests[t].pos, age |-> ingests[t].age, left |-> Ttl]
    BY <2>1, <2>2, <2>4
  <2> QED BY <1>8, <2>3, <2>4 DEF StoresFix
<1>9. ASSUME NEW d \in HomeDrones, Connected(d) \/ Disconnected(d)
      PROVE  updaters' \in [HomeDrones -> Updater] /\ home' \in [HomeDrones -> Somewhere]
  <2>1. updaters' \in [HomeDrones -> Updater]
    BY <1>1, <1>2, <1>9 DEF Connected, Disconnected
  <2>2. home' = home \/ home' = [home EXCEPT ![d] = updaters[d].pos]
    BY <1>9 DEF Connected, Disconnected
  <2>3. updaters[d].pos \in Somewhere
    BY <1>1
  <2>4. home' \in [HomeDrones -> Somewhere]
    BY <1>1, <2>2, <2>3
  <2> QED BY <2>1, <2>4
<1>10. ASSUME NEW d \in HomeDrones, Polls(d) PROVE updaters' \in [HomeDrones -> Updater]
  <2>1. PICK read \in {fix, NoFix} :
           updaters' = [updaters EXCEPT ![d] = IF read = NoFix THEN Asleep
                                               ELSE [at |-> "sends", pos |-> read.pos, wait |-> 0]]
    BY <1>10 DEF Polls
  <2>2. [at |-> "sends", pos |-> read.pos, wait |-> 0] \in Updater
    BY <1>1, <1>2
  <2> QED BY <1>1, <1>2, <2>1, <2>2
<1>11. ASSUME NEW d \in HomeDrones, NEW ok \in BOOLEAN, SendsHome(d, ok)
       PROVE  updaters' \in [HomeDrones -> Updater] /\ home' \in [HomeDrones -> Somewhere]
  BY <1>1, <1>2, <1>11 DEF SendsHome
<1>12. ASSUME NEW t \in Ingests, Reads(t)
       PROVE  UNCHANGED <<anchored, fix, burst, updaters, home>>
  BY <1>12 DEF Reads
<1>13. ASSUME NEW t \in Ingests, NEW ok \in BOOLEAN, StoresFix(t, ok)
       PROVE  UNCHANGED <<anchored, burst, updaters, home>>
  BY <1>13 DEF StoresFix
<1>14. ASSUME NEW d \in HomeDrones, \/ Connected(d) \/ Disconnected(d) \/ Polls(d)
                                    \/ \E ok \in BOOLEAN : SendsHome(d, ok)
       PROVE  UNCHANGED <<anchored, fix, ingests, burst>> /\ (Polls(d) => UNCHANGED home)
  BY <1>14 DEF Connected, Disconnected, Polls, SendsHome
<1> HIDE DEF Somewhere, Ingest, Updater, Fix
<1>15. CASE \E t \in Ingests : Reads(t)
  BY <1>1, <1>7, <1>12, <1>15
<1>16. CASE \E t \in Ingests, ok \in BOOLEAN : StoresFix(t, ok)
  BY <1>1, <1>8, <1>13, <1>16
<1>17. CASE \E d \in HomeDrones : \/ Connected(d) \/ Disconnected(d) \/ Polls(d)
                                  \/ \E ok \in BOOLEAN : SendsHome(d, ok)
  BY <1>1, <1>9, <1>10, <1>11, <1>14, <1>17
<1> QED BY <1>3, <1>4, <1>5, <1>6, <1>15, <1>16, <1>17 DEF FeedNext

-----------------------------------------------------------------------------
(* LiveStream *)

Browser == [at : {"off", "open", "closing"}, queue : Seq(Items), sends : {Nothing} \cup Items,
            shows : {Nothing} \cup (Items \ {Pong})]

StreamIInv ==
    /\ life \in 0..lives /\ lives \in 0..MaxLives /\ contents \in [SessionIds -> 0..MaxReports]
    /\ notifier \in [Notifiers -> {Quiet, Due} \cup SessionIds] /\ passed \in [Browsers -> BOOLEAN]
    /\ browser \in [Browsers -> Browser] /\ \A b \in Browsers : Len(browser[b].queue) <= QueueSize

LEMMA InitStream == StreamInit => StreamIInv
<1> SUFFICES ASSUME StreamInit PROVE StreamIInv
  OBVIOUS
<1>1. Gone \in Browser /\ Len(Gone.queue) <= QueueSize
  BY StreamAssumption DEF Gone, Browser, StreamAssumption
<1> QED BY <1>1, StreamAssumption DEF StreamInit, StreamIInv, StreamAssumption, SessionIds

\* One WebSocket changes.
LEMMA OneBrowser ==
    ASSUME StreamIInv, NEW b \in Browsers, NEW w \in Browser, Len(w.queue) <= QueueSize,
           browser' = [browser EXCEPT ![b] = w],
           passed' \in [Browsers -> BOOLEAN], UNCHANGED <<life, lives, contents, notifier>>
    PROVE  StreamIInv'
<1>1. browser' \in [Browsers -> Browser] /\ \A o \in Browsers : browser'[o] \in {browser[o], w}
  BY DEF StreamIInv
<1> QED BY <1>1 DEF StreamIInv

LEMMA FramesAreItems ==
    ASSUME NEW s \in SessionIds, NEW n \in 0..MaxReports PROVE <<s, n>> \in Items
  BY DEF Items

LEMMA QueuesAppend ==
    ASSUME NEW w \in Browser, NEW i \in Items, Len(w.queue) <= QueueSize, Len(w.queue) # QueueSize
    PROVE  /\ [w EXCEPT !.queue = Append(@, i)] \in Browser
           /\ Len([w EXCEPT !.queue = Append(@, i)].queue) <= QueueSize
<1>1. w.queue \in Seq(Items) /\ QueueSize \in Nat
  BY StreamAssumption DEF Browser, StreamAssumption
<1>2. Append(w.queue, i) \in Seq(Items) /\ Len(Append(w.queue, i)) = Len(w.queue) + 1 /\ Len(w.queue) \in Nat
  BY <1>1
<1> QED BY SMTT(20), <1>1, <1>2 DEF Browser

LEMMA BroadcastsKeeps == ASSUME StreamIInv, NEW n \in Notifiers, Broadcasts(n) PROVE StreamIInv'
<1>1. /\ UNCHANGED <<life, lives, contents>> /\ passed' \in [Browsers -> BOOLEAN]
      /\ notifier' \in [Notifiers -> {Quiet, Due} \cup SessionIds]
  BY DEF StreamIInv, Broadcasts, Full, Subscribed
<1> DEFINE i == <<notifier[n], contents[notifier[n]]>>
<1>2. i \in Items
  BY FramesAreItems DEF StreamIInv, Broadcasts
<1>3. browser' = [b \in Browsers |-> IF Subscribed(b) /\ ~Full(b)
                                     THEN [browser[b] EXCEPT !.queue = Append(@, i)] ELSE browser[b]]
  BY DEF Broadcasts
<1> HIDE DEF i
<1>4. ASSUME NEW b \in Browsers PROVE browser'[b] \in Browser /\ Len(browser'[b].queue) <= QueueSize
  <2>1. browser[b] \in Browser /\ Len(browser[b].queue) <= QueueSize
    BY DEF StreamIInv
  <2>2. CASE ~Full(b) /\ Subscribed(b)
    <3>1. Len(browser[b].queue) # QueueSize
      BY <2>2 DEF Full
    <3>2. browser'[b] = [browser[b] EXCEPT !.queue = Append(@, i)]
      BY <1>3, <2>2
    <3> QED BY <1>2, <2>1, <3>1, <3>2, QueuesAppend
  <2>3. CASE ~(~Full(b) /\ Subscribed(b))
    BY <1>3, <2>1, <2>3
  <2> QED BY <2>2, <2>3
<1>5. browser' \in [Browsers -> Browser] /\ \A b \in Browsers : Len(browser'[b].queue) <= QueueSize
  BY <1>3, <1>4
<1> QED BY <1>1, <1>5 DEF StreamIInv

LEMMA NextStream == StreamIInv /\ [StreamNext]_streamvars => StreamIInv'
<1> SUFFICES ASSUME StreamIInv, [StreamNext]_streamvars PROVE StreamIInv'
  OBVIOUS
<1>0. QueueSize \in Nat /\ QueueSize >= 1 /\ MaxLives \in Nat /\ MaxReports \in Nat
  BY StreamAssumption DEF StreamAssumption
<1>1. CASE UNCHANGED streamvars
  BY <1>1 DEF StreamIInv, streamvars
<1>2. CASE LifeBegins
  BY <1>0, <1>2 DEF StreamIInv, LifeBegins, Subscribed
<1>3. CASE LifeEnds \/ NeighbourLeaves
  <2>1. notifier' \in [Notifiers -> {Quiet, Due} \cup SessionIds]
    BY <1>3 DEF StreamIInv, LifeEnds, NeighbourLeaves
  <2>2. UNCHANGED <<lives, contents, browser>> /\ life' \in 0..lives
    BY <1>0, <1>3 DEF StreamIInv, LifeEnds, NeighbourLeaves
  <2>3. passed' \in [Browsers -> BOOLEAN]
    BY <1>3 DEF StreamIInv, LifeEnds, NeighbourLeaves, Subscribed
  <2> QED BY <2>1, <2>2, <2>3 DEF StreamIInv
<1>4. ASSUME NEW n \in Notifiers, Reports(n) PROVE StreamIInv'
  <2>1. life \in SessionIds
    BY <1>0, <1>4 DEF StreamIInv, Reports, SessionIds
  <2>2. contents' \in [SessionIds -> 0..MaxReports]
    BY <1>0, <1>4, <2>1 DEF StreamIInv, Reports
  <2> QED BY <1>4, <2>2 DEF StreamIInv, Reports
<1>5. ASSUME NEW n \in Notifiers, LooksUp(n) PROVE StreamIInv'
  <2>1. life \in {Quiet, Due} \cup SessionIds
    BY <1>0 DEF StreamIInv, SessionIds, Quiet
  <2> QED BY <1>5, <2>1 DEF StreamIInv, LooksUp
<1>6. ASSUME NEW n \in Notifiers, Broadcasts(n) PROVE StreamIInv'
  BY <1>6, BroadcastsKeeps
<1>7. ASSUME NEW b \in Browsers, Subscribes(b) PROVE StreamIInv'
  <2> DEFINE q == IF life = 0 THEN <<>> ELSE <<Newest>>
             w == [Gone EXCEPT !.at = "open", !.queue = q]
  <2>1. q \in Seq(Items) /\ Len(q) <= QueueSize
    <3>1. CASE life = 0
      BY <1>0, <3>1
    <3>2. CASE life # 0
      <4>1. life \in SessionIds /\ contents[life] \in 0..MaxReports
        BY <1>0, <3>2 DEF StreamIInv, SessionIds
      <4>2. Newest \in Items
        BY <4>1, FramesAreItems DEF Newest
      <4> QED BY <1>0, <3>2, <4>2
    <3> QED BY <3>1, <3>2
  <2> HIDE DEF q
  <2>2. w \in Browser /\ w.queue = q
    BY <2>1 DEF Gone, Browser
  <2>3. browser' = [browser EXCEPT ![b] = w]
    BY <1>7 DEF Subscribes, q
  <2>4. passed' \in [Browsers -> BOOLEAN] /\ UNCHANGED <<life, lives, contents, notifier>>
    BY <1>7 DEF Subscribes, StreamIInv
  <2> HIDE DEF w
  <2> QED BY <2>1, <2>2, <2>3, <2>4, OneBrowser
<1>8. ASSUME NEW b \in Browsers, Drains(b) PROVE StreamIInv'
  <2> DEFINE q == browser[b].queue
             w == [browser[b] EXCEPT !.queue = <<>>, !.sends = q[Len(q)]]
  <2>1. browser \in [Browsers -> Browser] /\ browser[b] \in Browser /\ q \in Seq(Items) /\ q # <<>>
    BY <1>8 DEF StreamIInv, Drains, Browser
  <2>2. q[Len(q)] \in Items
    BY <2>1
  <2>8. <<>> \in Seq(Items)
    OBVIOUS
  <2>9. browser[b].queue = q
    OBVIOUS
  <2>3. w \in Browser /\ w.queue = <<>>
    <3> HIDE DEF q
    <3> QED BY <2>1, <2>2, <2>8 DEF Browser
  <2>4. browser' = [browser EXCEPT ![b] = w]
    BY <1>8, <2>1 DEF Drains
  <2>5. UNCHANGED <<life, lives, contents, notifier>>
    BY <1>8 DEF Drains
  <2>7. passed' \in [Browsers -> BOOLEAN]
    BY <1>8 DEF Drains, StreamIInv
  <2>6. Len(w.queue) <= QueueSize
    BY <1>0, <2>3
  <2> HIDE DEF q, w
  <2> QED BY <2>3, <2>4, <2>5, <2>6, <2>7, OneBrowser
<1>9. ASSUME NEW b \in Browsers, Sends(b) PROVE StreamIInv'
  <2> DEFINE w == [browser[b] EXCEPT !.sends = Nothing,
                                     !.shows = IF browser[b].sends = Pong THEN @ ELSE browser[b].sends]
  <2>1. browser \in [Browsers -> Browser] /\ browser[b] \in Browser /\ Len(browser[b].queue) <= QueueSize
    BY DEF StreamIInv
  <2>2. w \in Browser /\ w.queue = browser[b].queue
    BY <1>9, <2>1 DEF Browser, Sends
  <2>3. browser' = [browser EXCEPT ![b] = w]
    BY <1>9, <2>1 DEF Sends
  <2>4. passed' \in [Browsers -> BOOLEAN] /\ UNCHANGED <<life, lives, contents, notifier>>
    BY <1>9 DEF Sends, StreamIInv
  <2> HIDE DEF w
  <2> QED BY <2>1, <2>2, <2>3, <2>4, OneBrowser
<1>10. ASSUME NEW b \in Browsers, Pings(b) PROVE StreamIInv'
  <2> DEFINE w == IF Full(b) THEN [browser[b] EXCEPT !.at = "closing"]
                  ELSE [browser[b] EXCEPT !.queue = Append(@, Pong)]
  <2>1. browser \in [Browsers -> Browser] /\ browser[b] \in Browser /\ Len(browser[b].queue) <= QueueSize
    BY DEF StreamIInv
  <2>2. w \in Browser /\ Len(w.queue) <= QueueSize
    <3>1. CASE Full(b)
      BY <2>1, <3>1 DEF Browser
    <3>2. CASE ~Full(b)
      <4>1. Len(browser[b].queue) # QueueSize /\ Pong \in Items
        BY <3>2 DEF Full, Items
      <4>2. w = [browser[b] EXCEPT !.queue = Append(@, Pong)]
        BY <3>2
      <4> QED BY <2>1, <4>1, <4>2, QueuesAppend
    <3> QED BY <3>1, <3>2
  <2>3. browser' = [browser EXCEPT ![b] = w]
    <3>1. CASE Full(b)
      BY <1>10, <2>1, <3>1 DEF Pings
    <3>2. CASE ~Full(b)
      <4>1. browser' = [browser EXCEPT ![b].queue = Append(@, Pong)]
        BY <1>10, <3>2 DEF Pings
      <4>2. w = [browser[b] EXCEPT !.queue = Append(@, Pong)]
        BY <3>2
      <4> HIDE DEF w
      <4> QED BY <2>1, <4>1, <4>2
    <3> QED BY <3>1, <3>2
  <2>4. passed' \in [Browsers -> BOOLEAN] /\ UNCHANGED <<life, lives, contents, notifier>>
    BY <1>10 DEF Pings, StreamIInv
  <2> HIDE DEF w
  <2> QED BY <2>2, <2>3, <2>4, OneBrowser
<1>11. ASSUME NEW b \in Browsers, Hangs(b) PROVE StreamIInv'
  <2> DEFINE w == [browser[b] EXCEPT !.at = "closing"]
  <2>1. browser \in [Browsers -> Browser] /\ browser[b] \in Browser /\ Len(browser[b].queue) <= QueueSize
    BY DEF StreamIInv
  <2>2. w \in Browser /\ w.queue = browser[b].queue
    BY <2>1 DEF Browser
  <2>3. browser' = [browser EXCEPT ![b] = w]
    BY <1>11, <2>1 DEF Hangs
  <2>4. passed' \in [Browsers -> BOOLEAN] /\ UNCHANGED <<life, lives, contents, notifier>>
    BY <1>11 DEF Hangs, StreamIInv
  <2> HIDE DEF w
  <2> QED BY <2>1, <2>2, <2>3, <2>4, OneBrowser
<1>12. ASSUME NEW b \in Browsers, Unsubscribes(b) PROVE StreamIInv'
  <2>1. Gone \in Browser /\ Len(Gone.queue) <= QueueSize
    BY <1>0 DEF Gone, Browser
  <2>2. passed' \in [Browsers -> BOOLEAN] /\ UNCHANGED <<life, lives, contents, notifier>>
    BY <1>12 DEF Unsubscribes, StreamIInv
  <2> QED BY <1>12, <2>1, <2>2, OneBrowser DEF Unsubscribes
<1> QED BY <1>1, <1>2, <1>3, <1>4, <1>5, <1>6, <1>7, <1>8, <1>9, <1>10, <1>11, <1>12 DEF StreamNext

LEMMA StreamTyped == StreamIInv => StreamTypeOK
  BY DEF StreamIInv, StreamTypeOK, Browser

-----------------------------------------------------------------------------
(* PayloadCamera *)

Capture == [of : SUBSET Viewers, stop : BOOLEAN, good : 0..Urls, try : Seq(1..Urls),
            thread : {"none", "rests", "opens", "captures", "ended"}]

CameraIInv ==
    /\ answers \in 0..Urls /\ holder \in CaptureIds \cup {0} /\ entry \in CaptureIds \cup {0}
    /\ inbox \in [Viewers -> [due : 0..1, queued : 0..QueuedFrames]]
    /\ capture \in [CaptureIds -> Capture]
    /\ \A s \in CaptureIds : /\ Len(capture[s].try) <= Urls
                             /\ holder = s <=> capture[s].thread = "captures"
                             /\ capture[s].thread \notin {"none", "ended"} /\ ~capture[s].stop => entry = s

LEMMA InitCamera == CameraInit => CameraIInv
<1> SUFFICES ASSUME CameraInit PROVE CameraIInv
  OBVIOUS
<1>1. NoCapture \in Capture /\ Len(NoCapture.try) <= Urls /\ NoCapture.thread = "none"
  BY CameraAssumption DEF NoCapture, Capture, CameraAssumption
<1> QED BY <1>1, CameraAssumption DEF CameraInit, CameraIInv, NoFrames, CameraAssumption

\* One session changes, and with it perhaps the entry and the holder of the device.
LEMMA OneCapture ==
    ASSUME CameraIInv, NEW s \in CaptureIds, NEW k \in Capture, capture' = [capture EXCEPT ![s] = k],
           Len(k.try) <= Urls,
           holder' = (IF k.thread = "captures" THEN s ELSE IF capture[s].thread = "captures" THEN 0 ELSE holder),
           k.thread = "captures" => holder \in {0, s},
           k.thread \notin {"none", "ended"} /\ ~k.stop => entry' = s,
           \/ entry' = entry
           \/ entry = 0 /\ entry' = s
           \/ entry = s /\ entry' = 0,
           inbox' \in [Viewers -> [due : 0..1, queued : 0..QueuedFrames]], answers' \in 0..Urls
    PROVE  CameraIInv'
<1> USE CameraAssumption DEF CameraAssumption
<1>1. capture' \in [CaptureIds -> Capture] /\ capture'[s] = k /\ \A o \in CaptureIds \ {s} : capture'[o] = capture[o]
  BY DEF CameraIInv
<1>2. holder' \in CaptureIds \cup {0} /\ entry' \in CaptureIds \cup {0}
  BY DEF CameraIInv
<1>3. ASSUME NEW o \in CaptureIds
      PROVE  /\ Len(capture'[o].try) <= Urls
             /\ holder' = o <=> capture'[o].thread = "captures"
             /\ capture'[o].thread \notin {"none", "ended"} /\ ~capture'[o].stop => entry' = o
  <2>1. CASE o = s
    <3>1. holder' = s <=> k.thread = "captures"
      BY DEF CameraIInv
    <3> QED BY <1>1, <2>1, <3>1
  <2>2. CASE o # s
    <3>1. /\ Len(capture[o].try) <= Urls
          /\ holder = o <=> capture[o].thread = "captures"
          /\ capture[o].thread \notin {"none", "ended"} /\ ~capture[o].stop => entry = o
          /\ holder = s <=> capture[s].thread = "captures"
          /\ capture'[o] = capture[o]
      BY <1>1, <2>2 DEF CameraIInv
    <3>2. holder' = o <=> holder = o
      BY <2>2, <3>1
    <3>3. entry = o => entry' = o
      BY <2>2
    <3> QED BY <3>1, <3>2, <3>3
  <2> QED BY <2>1, <2>2
<1> QED BY <1>1, <1>2, <1>3 DEF CameraIInv

LEMMA NextCamera == CameraIInv /\ [CameraNext]_camvars => CameraIInv'
<1> SUFFICES ASSUME CameraIInv, [CameraNext]_camvars PROVE CameraIInv'
  OBVIOUS
<1> DEFINE Inbox == [Viewers -> [due : 0..1, queued : 0..QueuedFrames]]
<1>0. /\ Urls \in Nat /\ Urls >= 1 /\ QueuedFrames \in Nat /\ QueuedFrames >= 1 /\ 0 \notin CaptureIds
      /\ inbox \in Inbox /\ answers \in 0..Urls /\ capture \in [CaptureIds -> Capture]
      /\ entry \in CaptureIds \cup {0} /\ holder \in CaptureIds \cup {0} /\ NoFrames \in [due : 0..1, queued : 0..QueuedFrames]
  BY CameraAssumption DEF CameraAssumption, CameraIInv, NoFrames
<1>01. \A s \in CaptureIds : capture[s] \in Capture /\ Len(capture[s].try) <= Urls
  BY DEF CameraIInv
<1>1. CASE UNCHANGED camvars
  BY <1>1 DEF CameraIInv, camvars
<1>2. CASE CameraMoves
  BY <1>2 DEF CameraIInv, CameraMoves
<1>3. ASSUME NEW v \in Viewers, Views(v) PROVE CameraIInv'
  <2>1. inbox' \in Inbox /\ UNCHANGED <<answers, holder>>
    BY <1>0, <1>3 DEF Views
  <2>2. CASE entry # 0
    <3> DEFINE k == [capture[entry] EXCEPT !.of = @ \cup {v}]
    <3>1. entry \in CaptureIds /\ capture' = [capture EXCEPT ![entry] = k] /\ entry' = entry
      BY <1>0, <1>3, <2>2 DEF Views
    <3>2. /\ k \in Capture /\ k.try = capture[entry].try /\ k.thread = capture[entry].thread
          /\ k.stop = capture[entry].stop
      BY <1>01, <3>1 DEF Capture
    <3>3. /\ holder = entry <=> capture[entry].thread = "captures"
          /\ capture[entry].thread \notin {"none", "ended"} /\ ~capture[entry].stop => entry = entry
      BY <3>1 DEF CameraIInv
    <3> HIDE DEF k
    <3> QED BY <1>0, <1>01, <2>1, <3>1, <3>2, <3>3, OneCapture
  <2>3. CASE entry = 0
    <3> DEFINE k == [NoCapture EXCEPT !.of = {v}, !.thread = "rests"]
    <3>1. PICK s \in CaptureIds : /\ capture[s].thread \in {"none", "ended"} /\ entry' = s
                                  /\ capture' = [capture EXCEPT ![s] = k]
      BY <1>3, <2>3 DEF Views
    <3>2. k \in Capture /\ k.try = <<>> /\ k.thread = "rests" /\ Len(k.try) <= Urls
      <4>1. {v} \in SUBSET Viewers /\ <<>> \in Seq(1..Urls) /\ Len(<<>>) <= Urls /\ 0 \in 0..Urls
        BY <1>0
      <4> QED BY <4>1 DEF Capture, NoCapture
    <3> HIDE DEF k
    <3> QED BY <1>0, <2>1, <2>3, <3>1, <3>2, OneCapture
  <2> QED BY <2>2, <2>3
<1>4. ASSUME NEW v \in Viewers, StopsViewing(v) PROVE CameraIInv'
  <2> DEFINE rest == capture[entry].of \ {v}
             k == [capture[entry] EXCEPT !.of = rest, !.stop = (rest = {})]
  <2>1. inbox' \in Inbox /\ UNCHANGED <<answers, holder>> /\ entry \in CaptureIds
    BY <1>0, <1>4 DEF StopsViewing, Watching
  <2>2. capture' = [capture EXCEPT ![entry] = k] /\ entry' = IF rest = {} THEN 0 ELSE entry
    BY <1>0, <1>4, <2>1 DEF StopsViewing
  <2>3. /\ k \in Capture /\ k.try = capture[entry].try /\ k.thread = capture[entry].thread
        /\ k.stop = (rest = {})
    BY <1>01, <2>1 DEF Capture
  <2>4. holder = entry <=> capture[entry].thread = "captures"
    BY <2>1 DEF CameraIInv
  <2>5. k.thread \notin {"none", "ended"} /\ ~k.stop => entry' = entry
    BY <2>2, <2>3
  <2> HIDE DEF k, rest
  <2>6. entry' = entry \/ entry' = 0
    BY <2>2
  <2> QED BY <1>0, <1>01, <2>1, <2>2, <2>3, <2>4, <2>5, <2>6, OneCapture
<1>5. ASSUME NEW s \in CaptureIds, NextRound(s) \/ NotOpened(s) \/ OpenFailed(s) PROVE CameraIInv'
  <2> DEFINE k == capture'[s]
  <2>1. inbox' = inbox /\ UNCHANGED <<answers, holder, entry>>
    BY <1>5 DEF NextRound, NotOpened, OpenFailed
  <2>2. /\ capture' = [capture EXCEPT ![s] = k] /\ k.stop = capture[s].stop
        /\ capture[s].thread \in {"rests", "opens"}
        /\ k.thread \in {"rests", "opens", "ended"}
        /\ k.thread = "ended" => k.stop
        /\ k \in Capture /\ Len(k.try) <= Urls
    <3>1. CASE NextRound(s)
      <4>1. AllUrls \in Seq(1..Urls) /\ Len(AllUrls) = Urls
        BY <1>0 DEF AllUrls
      <4>2. ASSUME capture[s].good # 0
            PROVE  <<capture[s].good>> \in Seq(1..Urls) /\ Len(<<capture[s].good>>) <= Urls
        <5>1. capture[s].good \in 1..Urls
          BY <1>0, <1>01, <4>2 DEF Capture
        <5> QED BY <1>0, <5>1
      <4>3. CASE capture[s].stop
        BY <1>0, <1>01, <3>1, <4>3 DEF NextRound, Capture
      <4>4. CASE ~capture[s].stop
        <5> DEFINE t == IF capture[s].good = 0 THEN AllUrls ELSE <<capture[s].good>>
        <5>1. t \in Seq(1..Urls) /\ Len(t) <= Urls
          <6>1. CASE capture[s].good = 0
            BY <4>1, <6>1
          <6>2. CASE capture[s].good # 0
            BY <4>2, <6>2
          <6> QED BY <6>1, <6>2
        <5>2. capture[s].thread = "rests" /\ capture' = [capture EXCEPT ![s] = [@ EXCEPT !.thread = "opens", !.try = t]]
          BY <3>1, <4>4 DEF NextRound
        <5> HIDE DEF t
        <5> QED BY <1>0, <1>01, <5>1, <5>2 DEF Capture
      <4> QED BY <4>3, <4>4
    <3>2. CASE NotOpened(s)
      <4>1. capture[s].try \in Seq(1..Urls) /\ capture[s].try # <<>> /\ Len(capture[s].try) <= Urls
        BY <1>01, <3>2 DEF NotOpened, Capture
      <4>2. Tail(capture[s].try) \in Seq(1..Urls) /\ Len(Tail(capture[s].try)) <= Urls
        <5>1. /\ Tail(capture[s].try) \in Seq(1..Urls)
              /\ Len(Tail(capture[s].try)) = Len(capture[s].try) - 1
          BY <4>1, HeadTailProperties
        <5>2. Len(capture[s].try) \in Nat
          BY <4>1
        <5> QED BY <1>0, <4>1, <5>1, <5>2
      <4> QED BY <1>0, <1>01, <3>2, <4>2 DEF NotOpened, Capture
    <3>3. CASE OpenFailed(s)
      <4>1. capture' = [capture EXCEPT ![s] = [@ EXCEPT !.thread = "rests", !.good = 0]]
        BY <1>0, <3>3 DEF OpenFailed
      <4>2. k = [capture[s] EXCEPT !.thread = "rests", !.good = 0]
        BY <1>0, <4>1
      <4>3. capture[s] \in Capture /\ capture[s].thread = "opens" /\ 0 \in 0..Urls
        BY <1>0, <1>01, <3>3 DEF OpenFailed
      <4>4. k \in Capture /\ k.try = capture[s].try /\ k.thread = "rests" /\ k.stop = capture[s].stop
        BY <4>2, <4>3 DEF Capture
      <4>5. capture' = [capture EXCEPT ![s] = k]
        BY <1>0, <4>1, <4>2
      <4> HIDE DEF k
      <4> QED BY <1>01, <4>3, <4>4, <4>5
    <3> QED BY <1>5, <3>1, <3>2, <3>3
  <2>3. capture[s].thread \notin {"none", "ended"} /\ ~capture[s].stop => entry = s
    BY DEF CameraIInv
  <2> HIDE DEF k
  <2> QED BY <1>0, <2>1, <2>2, <2>3, OneCapture
<1>6. ASSUME NEW s \in CaptureIds, Opened(s) PROVE CameraIInv'
  <2> DEFINE k == [capture[s] EXCEPT !.thread = "captures", !.good = Head(capture[s].try), !.try = <<>>]
  <2>1. /\ UNCHANGED <<answers, entry, inbox>> /\ holder = 0 /\ holder' = s
        /\ capture' = [capture EXCEPT ![s] = k] /\ capture[s].thread = "opens"
    BY <1>0, <1>6 DEF Opened
  <2>2. Head(capture[s].try) \in 1..Urls
    <3>1. capture[s].try \in Seq(1..Urls) /\ capture[s].try # <<>>
      BY <1>01, <1>6 DEF Opened, Capture
    <3> QED BY <3>1, HeadTailProperties
  <2>5. Head(capture[s].try) \in 0..Urls /\ <<>> \in Seq(1..Urls) /\ Len(<<>>) <= Urls
    BY <1>0, <2>2
  <2>3. k \in Capture /\ k.thread = "captures" /\ k.stop = capture[s].stop /\ k.try = <<>> /\ Len(k.try) <= Urls
    BY <1>01, <2>5 DEF Capture
  <2>4. ~capture[s].stop => entry = s
    BY <2>1 DEF CameraIInv
  <2> HIDE DEF k
  <2> QED BY <1>0, <2>1, <2>3, <2>4, OneCapture
<1>7. ASSUME NEW s \in CaptureIds, RoundEnds(s) PROVE CameraIInv'
  <2> DEFINE k == [capture[s] EXCEPT !.thread = "rests"]
  <2>1. /\ UNCHANGED <<answers, entry, inbox>> /\ holder' = 0 /\ capture[s].thread = "captures"
        /\ capture' = [capture EXCEPT ![s] = k]
    BY <1>7 DEF RoundEnds
  <2>2. k \in Capture /\ k.thread = "rests" /\ k.stop = capture[s].stop /\ k.try = capture[s].try
    BY <1>01 DEF Capture
  <2>3. ~capture[s].stop => entry = s
    BY <2>1 DEF CameraIInv
  <2> HIDE DEF k
  <2> QED BY <1>0, <1>01, <2>1, <2>2, <2>3, OneCapture
<1>8. ASSUME \/ \E s \in CaptureIds : Grabs(s)
             \/ \E v \in Viewers : Puts(v) \/ Shows(v)
      PROVE  CameraIInv'
  <2>1. UNCHANGED <<answers, holder, entry, capture>>
    BY <1>8 DEF Grabs, Puts, Shows
  <2>2. inbox' \in Inbox
    <3>1. CASE \E s \in CaptureIds : Grabs(s)
      BY <1>0, <3>1 DEF Grabs
    <3>2. ASSUME NEW v \in Viewers, Puts(v) PROVE inbox' \in Inbox
      <4>1. inbox[v].due \in 0..1 /\ inbox[v].queued \in 0..QueuedFrames /\ inbox[v].due > 0
        BY <1>0, <3>2 DEF Puts
      <4> DEFINE r == [inbox[v] EXCEPT !.due = @ - 1, !.queued = IF @ = QueuedFrames THEN @ ELSE @ + 1]
      <4>2. inbox[v].due - 1 \in 0..1 /\ (inbox[v].queued # QueuedFrames => inbox[v].queued + 1 \in 0..QueuedFrames)
        BY SMTT(20), <1>0, <4>1
      <4>3. r \in [due : 0..1, queued : 0..QueuedFrames]
        BY <1>0, <4>1, <4>2
      <4>4. inbox' = [inbox EXCEPT ![v] = r]
        BY <1>0, <3>2 DEF Puts
      <4> QED BY <1>0, <4>3, <4>4
    <3>3. ASSUME NEW v \in Viewers, Shows(v) PROVE inbox' \in Inbox
      BY <1>0, <3>3 DEF Shows
    <3> QED BY <1>8, <3>1, <3>2, <3>3
  <2> QED BY <2>1, <2>2 DEF CameraIInv
<1> QED BY <1>1, <1>2, <1>3, <1>4, <1>5, <1>6, <1>7, <1>8 DEF CameraNext

LEMMA CameraTyped == CameraIInv => CameraTypeOK
<1> SUFFICES ASSUME CameraIInv PROVE CameraTypeOK
  OBVIOUS
<1>1. \A s \in CaptureIds : capture[s] \in Capture
  BY DEF CameraIInv
<1> QED BY <1>1 DEF CameraIInv, CameraTypeOK, Capture

-----------------------------------------------------------------------------
(***************************************************************************)
(* MCStation: one part runs and the others stay as they started.           *)
(***************************************************************************)

StationIInv == /\ BridgeIInv /\ RecorderIInv /\ FleetIInv /\ ReviewIInv /\ PlanIInv
               /\ FeedIInv /\ StreamIInv /\ CameraIInv

LEMMA InitStation == StationInit => StationIInv
  BY InitBridge, InitRecorderIInv, InitFleetIInv, InitReviewIInv, InitPlanIInv, InitFeed,
     InitStream, InitCamera DEF StationInit, StationIInv

\* A step of the station is a step of each part, or leaves it as it is.
StepOfParts == /\ [BridgeStep]_brvars /\ [RecorderNext]_recvars /\ [FleetNext]_fleetvars
               /\ [AccountsNext]_accountvars /\ [PlannerNext]_planvars /\ [FeedNext]_feedvars
               /\ [StreamNext]_streamvars /\ [CameraNext]_camvars

LEMMA StationSteps == [StationNext]_stationvars => StepOfParts
<1> SUFFICES ASSUME [StationNext]_stationvars PROVE StepOfParts
  OBVIOUS
<1>1. CASE UNCHANGED stationvars
  BY <1>1 DEF stationvars, StepOfParts
<1>2. ASSUME Bridges, BridgeStep PROVE StepOfParts
  BY <1>2 DEF Bridges, StepOfParts
<1>3. ASSUME Keeps, RecorderNext PROVE StepOfParts
  BY <1>3 DEF Keeps, StepOfParts
<1>4. ASSUME Registry, FleetNext PROVE StepOfParts
  BY <1>4 DEF Registry, StepOfParts
<1>5. ASSUME Accounting, AccountsNext PROVE StepOfParts
  BY <1>5 DEF Accounting, StepOfParts
<1>6. ASSUME Planning, PlannerNext PROVE StepOfParts
  BY <1>6 DEF Planning, StepOfParts
<1>7. ASSUME Feeding, FeedNext PROVE StepOfParts
  BY <1>7 DEF Feeding, StepOfParts
<1>8. ASSUME Streaming, StreamNext PROVE StepOfParts
  BY <1>8 DEF Streaming, StepOfParts
<1>9. ASSUME Filming, CameraNext PROVE StepOfParts
  BY <1>9 DEF Filming, StepOfParts
<1>10. CASE StationNext
  <2>1. \/ Bridges /\ BridgeStep
        \/ Keeps /\ RecorderNext
        \/ Registry /\ FleetNext
        \/ Accounting /\ AccountsNext
        \/ Planning /\ PlannerNext
        \/ Feeding /\ FeedNext
        \/ Streaming /\ StreamNext
        \/ Filming /\ CameraNext
    BY <1>10 DEF StationNext, BridgeStep, RecorderNext, FleetNext, FleetStep, AccountsNext, CallStep,
                 AuditStep, PlannerNext, FeedNext, StreamNext, CameraNext
  <2> QED BY <1>2, <1>3, <1>4, <1>5, <1>6, <1>7, <1>8, <1>9, <2>1
<1> QED BY <1>1, <1>10

LEMMA NextStation == StationIInv /\ [StationNext]_stationvars => StationIInv'
<1> SUFFICES ASSUME StationIInv, [StationNext]_stationvars PROVE StationIInv'
  OBVIOUS
<1>1. StepOfParts
  BY StationSteps
<1>2. BridgeIInv' /\ RecorderIInv' /\ FleetIInv' /\ ReviewIInv'
  BY <1>1, NextBridge, NextRecorderIInv, FleetStepPreserves, NextReviewIInv DEF StationIInv, StepOfParts
<1>3. PlanIInv' /\ FeedIInv' /\ StreamIInv' /\ CameraIInv'
  BY <1>1, NextPlanIInv, NextFeed, NextStream, NextCamera DEF StationIInv, StepOfParts
<1> QED BY <1>2, <1>3 DEF StationIInv

LEMMA StationInvariant == StationSpec => []StationIInv
  BY InitStation, NextStation, PTL DEF StationSpec

\* Every variable of the station keeps its type: the bridge has at most one open handle and
\* one client at a time and makes no more handles than its threads lose, a position is no older
\* than its time to live and the slowest ingest allow, no queue outgrows its size, and the camera
\* is held by the one thread that captures (com_bridge.py, hf_feed.py, router.py, payload_camera.py).
THEOREM StationTypeCorrect == StationSpec => []StationTypeOK
<1>1. StationIInv => StationTypeOK
  <2> SUFFICES ASSUME StationIInv PROVE StationTypeOK
    OBVIOUS
  <2>1. BridgeTypeOK /\ StreamTypeOK /\ CameraTypeOK
    BY BridgeTyped, StreamTyped, CameraTyped DEF StationIInv
  <2>2. RecorderTypeOK /\ FleetTypeOK /\ FeedTypeOK
    BY DEF StationIInv, RecorderIInv, FleetIInv, FeedIInv
  <2>3. AccountsTypeOK /\ PlannerTypeOK
    BY AccountsTyped, PlannerTyped DEF StationIInv
  <2> QED BY <2>1, <2>2, <2>3 DEF StationTypeOK
<1> QED BY <1>1, StationInvariant, PTL

\* The station as it is checked, with one part running: what is proved of the parts on their
\* own holds in it too (data_recorder.py, drone_master, auth.py, security.py, fleet_router.py).
THEOREM StationIsRight ==
    StationSpec => [](/\ RecorderLosesNothing /\ FleetReferences /\ ChainVerifies /\ ReviewsAgree
                      /\ AssignmentIsBest)
<1>1. StationIInv => /\ RecorderLosesNothing /\ FleetReferences /\ ChainVerifies /\ ReviewsAgree
                     /\ AssignmentIsBest
  BY TrailTrue, ReviewsTrue, AssignsBest DEF StationIInv, RecorderIInv, FleetIInv, ReviewIInv
<1> QED BY <1>1, StationInvariant, PTL
=============================================================================
