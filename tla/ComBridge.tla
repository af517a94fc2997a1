------------------------------ MODULE ComBridge ------------------------------
(***************************************************************************)
(* com_bridge/com_bridge.py: the thread that keeps a serial port open, the *)
(* single client slot, and the two pipe threads of each TCP client.        *)
(*                                                                         *)
(* A handle stands for one serial.Serial object; "live" are the handles    *)
(* whose device has not been unplugged since they were opened.             *)
(***************************************************************************)
EXTENDS Integers, FiniteSets

CONSTANTS Callers,    \* TCP connections
          MaxUnplugs  \* bound: times the device is pulled out

ASSUME BridgeAssumption == MaxUnplugs \in Nat /\ IsFiniteSet(Callers)

VARIABLES present,   \* a USB serial port is listed
          unplugs,   \* how often it was pulled out
          watcher,   \* the handle connect_forever() has opened and not yet installed, or 0
          serial,    \* SerialDevice.serial, 0 for None
          opened,    \* handles that are open
          live,      \* handles whose device is still there
          handles,   \* handles made so far
          slot,      \* active_client
          caller     \* each connection with its threads

brvars == <<present, unplugs, watcher, serial, opened, live, handles, slot, caller>>
port == <<present, unplugs, live>>

\* Every thread loses the port at most once.
Handles == 0..(MaxUnplugs + 2 * Cardinality(Callers) + 1)
Pipes == {"up", "down"}   \* pipe_serial_to_tcp and pipe_tcp_to_serial
Works(h) == h \in opened \cap live
Caller == [pc : {"none", "connected", "claimed", "served", "closing", "over"},
           gone : BOOLEAN, ser : Handles, stop : BOOLEAN,
           pipe : [Pipes -> {"off", "run", "lost"}]]

BridgeInit == /\ present \in BOOLEAN /\ unplugs = 0 /\ watcher = 0 /\ serial = 0
              /\ opened = {} /\ live = {} /\ handles = 0 /\ slot = FALSE
              /\ caller = [c \in Callers |->
                             [pc |-> "none", gone |-> FALSE, ser |-> 0, stop |-> FALSE,
                              pipe |-> [p \in Pipes |-> "off"]]]

-----------------------------------------------------------------------------
(* connect_forever *)

\* Mutant: the handle is forgotten and not closed.
X_ForgetPort == serial' = 0 /\ UNCHANGED opened

\* mark_disconnected: whatever handle is installed now.
ForgetPort == serial' = 0 /\ opened' = opened \ {serial}

\* The installed port is no longer listed.
PortGone == /\ watcher = 0 /\ serial # 0 /\ ~present
            /\ ForgetPort
            /\ UNCHANGED <<port, watcher, handles, slot, caller>>

\* A listed port is opened and tried at each baud rate.
OpenPort == /\ watcher = 0 /\ serial = 0 /\ present
            /\ handles' = handles + 1 /\ watcher' = handles'
            /\ opened' = opened \cup {handles'} /\ live' = live \cup {handles'}
            /\ UNCHANGED <<present, unplugs, serial, slot, caller>>

\* MAVLink was heard, or reading has failed.
PortInstalled == /\ watcher \in live
                 /\ serial' = watcher /\ watcher' = 0
                 /\ UNCHANGED <<port, opened, handles, slot, caller>>

OpenFails == /\ watcher \notin live \cup {0}
             /\ opened' = opened \ {watcher} /\ watcher' = 0
             /\ UNCHANGED <<port, serial, handles, slot, caller>>

-----------------------------------------------------------------------------
(* handle_client and its two pipes *)

Arrives(c) == /\ caller[c].pc = "none"
              /\ caller' = [caller EXCEPT ![c].pc = "connected"]
              /\ UNCHANGED <<port, watcher, serial, opened, handles, slot>>

\* Under client_lock: one client at a time.
Claims(c) == /\ caller[c].pc = "connected"
             /\ caller' = [caller EXCEPT ![c].pc = IF slot THEN "over" ELSE "claimed"]
             /\ slot' = TRUE
             /\ UNCHANGED <<port, watcher, serial, opened, handles>>

\* The handle is captured once; without an open one the slot is given back.
Captures(c) ==
    /\ caller[c].pc = "claimed"
    /\ IF serial \in opened
       THEN /\ caller' = [caller EXCEPT ![c].pc = "served", ![c].ser = serial,
                                        ![c].pipe = [p \in Pipes |-> "run"]]
            /\ UNCHANGED slot
       ELSE caller' = [caller EXCEPT ![c].pc = "over"] /\ slot' = FALSE
    /\ UNCHANGED <<port, watcher, serial, opened, handles>>

\* The peer closes its end.
HangsUp(c) == /\ caller[c].pc = "served" /\ ~caller[c].gone
              /\ caller' = [caller EXCEPT ![c].gone = TRUE]
              /\ UNCHANGED <<port, watcher, serial, opened, handles, slot>>

\* Mutant: a pipe that ends does not tell the other.
X_PipeEnds(c, p) ==
    /\ caller[c].pipe[p] = "run"
    /\ \/ p = "down" /\ caller[c].gone
       \/ p = "up" /\ caller[c].stop
    /\ caller' = [caller EXCEPT ![c].pipe[p] = "off"]
    /\ UNCHANGED <<port, watcher, serial, opened, handles, slot>>

\* recv() returns nothing or fails, or the loop sees stop: the
\* downward pipe looks at it only after another chunk of a peer still there.
PipeEnds(c, p) ==
    /\ caller[c].pipe[p] = "run"
    /\ \/ p = "down" /\ caller[c].gone
       \/ p = "up" /\ caller[c].stop
    /\ caller' = [caller EXCEPT ![c].pipe[p] = "off", ![c].stop = TRUE]
    /\ UNCHANGED <<port, watcher, serial, opened, handles, slot>>

\* sendall() of what the serial port said finds the peer gone.
SendFails(c) == /\ caller[c].pipe["up"] = "run" /\ caller[c].gone /\ Works(caller[c].ser)
                /\ caller' = [caller EXCEPT ![c].pipe["up"] = "off", ![c].stop = TRUE]
                /\ UNCHANGED <<port, watcher, serial, opened, handles, slot>>

\* A chunk for the serial port arrives after stop was set, and is still written.
LateChunk(c) ==
    /\ caller[c].pipe["down"] = "run" /\ caller[c].stop /\ Works(caller[c].ser)
    /\ caller' = [caller EXCEPT ![c].pipe["down"] = "off"]
    /\ UNCHANGED <<port, watcher, serial, opened, handles, slot>>

\* read() or write() raises: SerialException, or what pyserial makes of a handle
\* that another thread closes underneath it, which only ends the thread.
PipeFails(c, p) ==
    /\ caller[c].pipe[p] = "run" /\ ~Works(caller[c].ser)
    /\ \E noticed \in BOOLEAN :
          /\ caller[c].ser \in opened => noticed
          /\ caller' = IF noticed THEN [caller EXCEPT ![c].pipe[p] = "lost"]
                       ELSE [caller EXCEPT ![c].pipe[p] = "off", ![c].stop = TRUE]
    /\ UNCHANGED <<port, watcher, serial, opened, handles, slot>>

PipeMarks(c, p) ==
    /\ caller[c].pipe[p] = "lost"
    /\ ForgetPort
    /\ caller' = [caller EXCEPT ![c].pipe[p] = "off", ![c].stop = TRUE]
    /\ UNCHANGED <<port, watcher, handles, slot>>

\* stop.wait() returns; a recv() that is blocked outlives conn.close().
Stopped(c) == /\ caller[c].pc = "served" /\ caller[c].stop
              /\ caller' = [caller EXCEPT ![c].pc = "closing"]
              /\ UNCHANGED <<port, watcher, serial, opened, handles, slot>>

Releases(c) == /\ caller[c].pc = "closing"
               /\ caller' = [caller EXCEPT ![c].pc = "over"]
               /\ slot' = FALSE
               /\ UNCHANGED <<port, watcher, serial, opened, handles>>

-----------------------------------------------------------------------------
Unplugged == /\ present /\ unplugs < MaxUnplugs
             /\ present' = FALSE /\ unplugs' = unplugs + 1 /\ live' = {}
             /\ UNCHANGED <<watcher, serial, opened, handles, slot, caller>>

Plugged == /\ ~present /\ present' = TRUE
           /\ UNCHANGED <<unplugs, live, watcher, serial, opened, handles, slot, caller>>

WatcherStep == PortGone \/ OpenPort \/ PortInstalled \/ OpenFails
PipeStep(c, p) == PipeEnds(c, p) \/ (p = "up" /\ PipeFails(c, p)) \/ PipeMarks(c, p)
ClientStep(c) == Claims(c) \/ Captures(c) \/ Stopped(c) \/ Releases(c)

\* Threads run, read() times out every 0.1 s and recv() notices a closed peer;
\* no peer has to send, hang up or connect.
BridgeFairness ==
    /\ WF_brvars(WatcherStep)
    /\ \A c \in Callers : /\ WF_brvars(ClientStep(c))
                          /\ \A p \in Pipes : WF_brvars(PipeStep(c, p))

-----------------------------------------------------------------------------
(* Properties *)

\* Every variable keeps its type; at most one handle is open at a time, and the
\* slot is taken exactly while a connection is between claiming and releasing it.
BridgeTypeOK ==
    /\ present \in BOOLEAN /\ unplugs \in 0..MaxUnplugs
    /\ watcher \in Handles /\ serial \in Handles /\ handles \in Handles
    /\ opened \subseteq {watcher, serial} \ {0} /\ live \subseteq Handles
    /\ caller \in [Callers -> Caller]
    /\ Cardinality({c \in Callers : caller[c].pc \in {"claimed", "served", "closing"}})
         = IF slot THEN 1 ELSE 0

\* A client that hangs up or whose device is pulled out gives its slot back, and a
\* port that is listed is opened again, also when a pipe of a handle that is long
\* gone closes the port that was opened since (mark_disconnected, com_bridge.py).
BridgeRecovers ==
    /\ \A c \in Callers : (caller[c].pc = "served" /\ (caller[c].gone \/ ~Works(caller[c].ser)))
                             ~> caller[c].pc = "over"
    /\ (present /\ serial = 0) ~> (serial # 0 \/ ~present)
=============================================================================
