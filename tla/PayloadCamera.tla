---------------------------- MODULE PayloadCamera ----------------------------
(***************************************************************************)
(* The payload camera of payload_camera.py, for one source: a capture      *)
(* session and its thread serve every viewer, the last one to leave stops  *)
(* the session, and the next one starts another while the stopped thread   *)
(* may still hold the device.  The drawing of tracked objects is left out. *)
(***************************************************************************)
EXTENDS Integers, Sequences, FiniteSets

CONSTANTS Viewers,
          CaptureIds,  \* bound: capture sessions at a time, each with its thread
          Urls,        \* the candidates of the source, in the order they are tried
          QueuedFrames \* maxsize of a viewer's queue

ASSUME CameraAssumption == Urls \in Nat \ {0} /\ QueuedFrames \in Nat \ {0} /\ 0 \notin CaptureIds

VARIABLES answers,  \* environment: the candidate that yields frames, 0 for none
          holder,   \* environment: the session whose thread has the device open, or 0
          entry,    \* _sessions[key], 0 when absent
          capture,  \* each session: subscribers, stop_flag, its thread, known_good, candidates to try
          inbox     \* each viewer's frames: scheduled on the event loop, and in its queue

camvars == <<answers, holder, entry, capture, inbox>>

AllUrls == [i \in 1..Urls |-> i]
NoCapture == [of |-> {}, stop |-> FALSE, thread |-> "none", good |-> 0, try |-> <<>>]
NoFrames == [due |-> 0, queued |-> 0]
Watching(v) == entry # 0 /\ v \in capture[entry].of

CameraInit == /\ answers \in 0..Urls /\ holder = 0 /\ entry = 0
              /\ capture = [s \in CaptureIds |-> NoCapture]
              /\ inbox = [v \in Viewers |-> NoFrames]

-----------------------------------------------------------------------------
(* subscribe() and unsubscribe(), under the manager's lock. *)

Views(v) ==
    /\ ~Watching(v)
    /\ \/ /\ entry # 0 /\ capture' = [capture EXCEPT ![entry].of = @ \cup {v}]
          /\ UNCHANGED entry
       \/ /\ entry = 0
          /\ \E s \in CaptureIds :
               /\ capture[s].thread \in {"none", "ended"}
               /\ entry' = s
               /\ capture' = [capture EXCEPT ![s] = [NoCapture EXCEPT !.of = {v}, !.thread = "rests"]]
    /\ inbox' = [inbox EXCEPT ![v] = NoFrames]
    /\ UNCHANGED <<answers, holder>>

\* Frames that are scheduled still come, to a queue nobody reads any more.
StopsViewing(v) ==
    /\ Watching(v)
    /\ LET rest == capture[entry].of \ {v}
       IN /\ capture' = [capture EXCEPT ![entry].of = rest, ![entry].stop = (rest = {})]
          /\ entry' = IF rest = {} THEN 0 ELSE entry
    /\ inbox' = [inbox EXCEPT ![v] = NoFrames]
    /\ UNCHANGED <<answers, holder>>

-----------------------------------------------------------------------------
(* The thread of a session.  Between two rounds it looks at stop_flag; a round *)
(* tries the candidates, the known good one alone if there is one.             *)

NextRound(s) ==
    /\ capture[s].thread = "rests"
    /\ capture' = [capture EXCEPT ![s] = IF capture[s].stop THEN [@ EXCEPT !.thread = "ended"]
                                       ELSE [@ EXCEPT !.thread = "opens",
                                                      !.try = IF capture[s].good = 0 THEN AllUrls
                                                              ELSE <<capture[s].good>>]]
    /\ UNCHANGED <<answers, holder, entry, inbox>>

Opened(s) ==
    /\ capture[s].thread = "opens" /\ capture[s].try # <<>>
    /\ answers = Head(capture[s].try) /\ holder = 0
    /\ holder' = s
    /\ capture' = [capture EXCEPT ![s].thread = "captures", ![s].good = Head(capture[s].try), ![s].try = <<>>]
    /\ UNCHANGED <<answers, entry, inbox>>

NotOpened(s) ==
    /\ capture[s].thread = "opens" /\ capture[s].try # <<>>
    /\ \/ answers # Head(capture[s].try) \/ holder # 0
       \/ \E o \in CaptureIds \ {s} : capture[o].thread = "opens"  \* it may have the device open to probe it
    /\ capture' = [capture EXCEPT ![s].try = Tail(@)]
    /\ UNCHANGED <<answers, holder, entry, inbox>>

\* Mutant: a known good candidate that no longer opens is kept.
X_KnownGoodKept(s) ==
    /\ capture[s].thread = "opens" /\ capture[s].try = <<>>
    /\ capture' = [capture EXCEPT ![s].thread = "rests"]
    /\ UNCHANGED <<answers, holder, entry, inbox>>

OpenFailed(s) ==
    /\ capture[s].thread = "opens" /\ capture[s].try = <<>>
    /\ capture' = [capture EXCEPT ![s].thread = "rests", ![s].good = 0]
    /\ UNCHANGED <<answers, holder, entry, inbox>>

\* The loop is at most one frame ahead of the event loop here; a frame is scheduled
\* for every subscriber.
Grabs(s) ==
    /\ capture[s].thread = "captures" /\ ~capture[s].stop /\ answers = capture[s].good
    /\ \A v \in capture[s].of : inbox[v].due = 0
    /\ inbox' = [v \in Viewers |-> IF v \in capture[s].of THEN [inbox[v] EXCEPT !.due = 1] ELSE inbox[v]]
    /\ UNCHANGED <<answers, holder, entry, capture>>

Puts(v) ==
    /\ inbox[v].due > 0
    /\ inbox' = [inbox EXCEPT ![v].due = @ - 1,
                              ![v].queued = IF @ = QueuedFrames THEN @ ELSE @ + 1]
    /\ UNCHANGED <<answers, holder, entry, capture>>

\* A frame that cannot be read, or the stop flag, ends the round.
RoundEnds(s) ==
    /\ capture[s].thread = "captures" /\ (capture[s].stop \/ answers # capture[s].good)
    /\ holder' = 0
    /\ capture' = [capture EXCEPT ![s].thread = "rests"]
    /\ UNCHANGED <<answers, entry, inbox>>

Shows(v) ==
    /\ inbox[v].queued > 0
    /\ inbox' = [inbox EXCEPT ![v].queued = @ - 1]
    /\ UNCHANGED <<answers, holder, entry, capture>>

CameraMoves == /\ answers' \in (0..Urls) \ {answers}
               /\ UNCHANGED <<holder, entry, capture, inbox>>

CameraNext == \/ CameraMoves
              \/ \E v \in Viewers : Views(v) \/ StopsViewing(v) \/ Puts(v) \/ Shows(v)
              \/ \E s \in CaptureIds : \/ NextRound(s) \/ Opened(s) \/ NotOpened(s) \/ OpenFailed(s)
                                       \/ Grabs(s) \/ RoundEnds(s)

ThreadStep(s) == NextRound(s) \/ Opened(s) \/ NotOpened(s) \/ OpenFailed(s) \/ Grabs(s) \/ RoundEnds(s)
\* Threads and the event loop run, and a viewer takes the frames it is sent.
CameraFairness == /\ \A s \in CaptureIds : WF_camvars(ThreadStep(s))
                  /\ \A v \in Viewers : WF_camvars(Puts(v)) /\ WF_camvars(Shows(v))
CameraSpec == CameraInit /\ [][CameraNext]_camvars /\ CameraFairness

-----------------------------------------------------------------------------
(* Properties *)

\* Every variable keeps its type, the device is held by the one thread that captures,
\* and a session without its entry is stopped.
CameraTypeOK ==
    /\ answers \in 0..Urls /\ holder \in CaptureIds \cup {0} /\ entry \in CaptureIds \cup {0}
    /\ inbox \in [Viewers -> [due : 0..1, queued : 0..QueuedFrames]]
    /\ \A s \in CaptureIds :
         /\ capture[s].of \subseteq Viewers /\ capture[s].stop \in BOOLEAN
         /\ capture[s].thread \in {"none", "rests", "opens", "captures", "ended"}
         /\ capture[s].good \in 0..Urls /\ Len(capture[s].try) <= Urls
         /\ holder = s <=> capture[s].thread = "captures"
         /\ capture[s].thread = "captures" /\ ~capture[s].stop => entry = s

\* A viewer that stays gets frames again and again from some time on, once the camera
\* answers at one of its addresses for good, whatever address was good before and
\* whichever stopped thread still held the device (payload_camera.py, _capture_loop).
ViewerIsServed ==
    \A v \in Viewers, u \in 1..Urls :
        <>[](Watching(v) /\ answers = u) => []<><<Shows(v)>>_camvars
=============================================================================
