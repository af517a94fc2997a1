----------------------------- MODULE LiveStream -----------------------------
(***************************************************************************)
(* The telemetry stream of one drone to its browsers: the notifications of *)
(* state_manager.py, the queues of ConnectionManager and the WebSocket     *)
(* endpoint telemetry_stream of drone_control/router.py.  A listener is    *)
(* handed the dictionary of the session its notification found, and the    *)
(* frame is that dictionary when its turn comes.                           *)
(***************************************************************************)
EXTENDS Integers, Sequences

CONSTANTS Browsers,
          QueueSize,   \* maxsize of a subscriber's queue
          MaxLives,    \* bound: sessions of the drone
          MaxReports   \* bound: changes of the state in a session

ASSUME StreamAssumption == QueueSize \in Nat \ {0} /\ MaxLives \in Nat /\ MaxReports \in Nat

VARIABLES life,      \* the drone's session, 0 while it has no state
          lives,     \* sessions so far
          contents,  \* each session's dictionary: how often it changed
          notifier,  \* who notifies the listeners, and with which session's dictionary
          browser,   \* each WebSocket: its queue, what it is being sent, what it shows
          passed     \* history: the newest state was never put in that queue, or was passed over

streamvars == <<life, lives, contents, notifier, browser, passed>>

SessionIds == 1..MaxLives
Notifiers == {"reader", "neighbour"}
Quiet == 0
Due == -1              \* the dictionary is changed, _notify() still has to look it up
Pong == <<0, 0>>       \* every other item of a queue is a frame: a session and its contents
Items == {Pong} \cup SessionIds \X (0..MaxReports)
Nothing == <<>>
Gone == [at |-> "off", queue |-> <<>>, sends |-> Nothing, shows |-> Nothing]

Newest == <<life, contents[life]>>
Subscribed(b) == browser[b].at # "off"
Full(b) == Len(browser[b].queue) = QueueSize

StreamInit == /\ life = 0 /\ lives = 0 /\ contents = [s \in SessionIds |-> 0]
              /\ notifier = [n \in Notifiers |-> Quiet]
              /\ browser = [b \in Browsers |-> Gone] /\ passed = [b \in Browsers |-> FALSE]

-----------------------------------------------------------------------------
(* The state.  The drone's own reader is cancelled with its session; the reader *)
(* of a neighbour, which changes the proximity fields, is not.                  *)

\* init_drone() tells no listener: what is shown stays until the first report.
LifeBegins == /\ life = 0 /\ lives < MaxLives
              /\ life' = lives + 1 /\ lives' = lives + 1
              /\ passed' = [b \in Browsers |-> Subscribed(b)]
              /\ UNCHANGED <<contents, notifier, browser>>

LifeEnds == /\ life # 0 /\ life' = 0
            /\ notifier' = [notifier EXCEPT !["reader"] = Quiet]
            /\ UNCHANGED <<lives, contents, browser, passed>>

Reports(n) == /\ life # 0 /\ notifier[n] = Quiet /\ contents[life] < MaxReports
              /\ contents' = [contents EXCEPT ![life] = @ + 1]
              /\ notifier' = [notifier EXCEPT ![n] = Due]
              /\ UNCHANGED <<life, lives, browser, passed>>

LooksUp(n) == /\ notifier[n] = Due /\ notifier' = [notifier EXCEPT ![n] = life]
              /\ UNCHANGED <<life, lives, contents, browser, passed>>

\* A queue that is full keeps what it has and the new frame is dropped.
Broadcasts(n) ==
    /\ notifier[n] \in SessionIds
    /\ browser' = [b \in Browsers |->
                     IF Subscribed(b) /\ ~Full(b)
                     THEN [browser[b] EXCEPT !.queue = Append(@, <<notifier[n], contents[notifier[n]]>>)]
                     ELSE browser[b]]
    /\ passed' = [b \in Browsers |-> Subscribed(b) /\ (Full(b) \/ notifier[n] # life)]
    /\ notifier' = [notifier EXCEPT ![n] = Quiet]
    /\ UNCHANGED <<life, lives, contents>>

NeighbourLeaves == /\ notifier["neighbour"] # Quiet
                   /\ notifier' = [notifier EXCEPT !["neighbour"] = Quiet]
                   /\ passed' = [b \in Browsers |-> Subscribed(b)]
                   /\ UNCHANGED <<life, lives, contents, browser>>

-----------------------------------------------------------------------------
(* A WebSocket.  It is seeded with the present state; its sender takes all the queue *)
(* holds and sends the last of it.                                                   *)

\* Mutant: a new subscriber waits for the next broadcast.
X_Unseeded(b) ==
    /\ ~Subscribed(b)
    /\ browser' = [browser EXCEPT ![b] = [Gone EXCEPT !.at = "open"]]
    /\ passed' = [passed EXCEPT ![b] = FALSE]
    /\ UNCHANGED <<life, lives, contents, notifier>>

Subscribes(b) ==
    /\ ~Subscribed(b)
    /\ browser' = [browser EXCEPT ![b] = [Gone EXCEPT !.at = "open",
                                          !.queue = IF life = 0 THEN <<>> ELSE <<Newest>>]]
    /\ passed' = [passed EXCEPT ![b] = FALSE]
    /\ UNCHANGED <<life, lives, contents, notifier>>

Drains(b) ==
    LET q == browser[b].queue
        item == q[Len(q)]
    IN /\ browser[b].sends = Nothing /\ q # <<>>
       /\ browser' = [browser EXCEPT ![b].queue = <<>>, ![b].sends = item]
       /\ passed' = [passed EXCEPT ![b] = @ \/ (item = Pong /\ \E i \in 1..Len(q) : q[i] # Pong)]
       /\ UNCHANGED <<life, lives, contents, notifier>>

Sends(b) ==
    /\ browser[b].sends # Nothing
    /\ browser' = [browser EXCEPT ![b].sends = Nothing,
                                  ![b].shows = IF browser[b].sends = Pong THEN @ ELSE browser[b].sends]
    /\ UNCHANGED <<life, lives, contents, notifier, passed>>

\* A pong that finds the queue full ends the receiver, and with it the connection.
Pings(b) ==
    /\ browser[b].at = "open"
    /\ browser' = IF Full(b) THEN [browser EXCEPT ![b].at = "closing"]
                  ELSE [browser EXCEPT ![b].queue = Append(@, Pong)]
    /\ UNCHANGED <<life, lives, contents, notifier, passed>>

\* It is closed, silent for a minute, or a send fails.
Hangs(b) == /\ browser[b].at = "open" /\ browser' = [browser EXCEPT ![b].at = "closing"]
            /\ UNCHANGED <<life, lives, contents, notifier, passed>>

Unsubscribes(b) == /\ browser[b].at = "closing" /\ browser' = [browser EXCEPT ![b] = Gone]
                   /\ passed' = [passed EXCEPT ![b] = FALSE]
                   /\ UNCHANGED <<life, lives, contents, notifier>>

StreamNext == \/ LifeBegins \/ LifeEnds \/ NeighbourLeaves
              \/ \E n \in Notifiers : Reports(n) \/ LooksUp(n) \/ Broadcasts(n)
              \/ \E b \in Browsers : \/ Subscribes(b) \/ Drains(b) \/ Sends(b)
                                     \/ Pings(b) \/ Hangs(b) \/ Unsubscribes(b)

\* The event loop runs every task, and a browser that stays connected takes what it is sent.
StreamFairness == /\ \A n \in Notifiers : WF_streamvars(LooksUp(n)) /\ WF_streamvars(Broadcasts(n))
                  /\ \A b \in Browsers : WF_streamvars(Drains(b)) /\ WF_streamvars(Sends(b))
StreamSpec == StreamInit /\ [][StreamNext]_streamvars /\ StreamFairness

-----------------------------------------------------------------------------
(* Properties *)

\* Every variable keeps its type; no queue outgrows its size.
StreamTypeOK ==
    /\ life \in 0..lives /\ lives \in 0..MaxLives /\ contents \in [SessionIds -> 0..MaxReports]
    /\ notifier \in [Notifiers -> {Quiet, Due} \cup SessionIds] /\ passed \in [Browsers -> BOOLEAN]
    /\ \A b \in Browsers : /\ browser[b].at \in {"off", "open", "closing"}
                           /\ browser[b].queue \in Seq(Items) /\ Len(browser[b].queue) <= QueueSize
                           /\ browser[b].sends \in {Nothing} \cup Items
                           /\ browser[b].shows \in {Nothing} \cup (Items \ {Pong})

\* Once the drone's state stands still, a browser that stays connected ends up showing it,
\* whenever it subscribed and however slowly it reads, unless that state was dropped at a
\* full queue, passed over for a pong, or overtaken by the dictionary of an ended session
\* (drone_control/router.py, ConnectionManager and telemetry_stream).
BrowserShowsDrone ==
    \A b \in Browsers : <>[](browser[b].at = "open")
                          => <>[](life # 0 => browser[b].shows = Newest \/ passed[b])
=============================================================================
