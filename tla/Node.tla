-------------------------------- MODULE Node --------------------------------
(***************************************************************************)
(* The life of a Node (node.go): concurrent calls of RegisterAgent, Listen  *)
(* and Stop, and the goroutines that Listen starts: the accept loop, one    *)
(* handleConn per connection and one handleOperation per operation.  Peers  *)
(* are the environment: they dial, send HELLO, open operation streams, send *)
(* the first frame whole or in part, and go away at any time.               *)
(*                                                                         *)
(* A step is a piece of a function between two points where another         *)
(* goroutine can be noticed: a lock, a blocking call, a write to n.listener.*)
(* What quic-go does (transport, socket) is modelled from how conn.go and   *)
(* node.go use it.                                                          *)
(***************************************************************************)
EXTENDS Integers, FiniteSets

CONSTANTS
    ListenCall,   \* the calls of Listen
    StopCall,     \* the calls of Stop
    Conn,         \* connections that peers may open
    Op,           \* operation streams that peers may open
    ConnOf,       \* the connection of each operation stream
    AgentID       \* agent IDs that occur in INVOKE frames

(* An INVOKE frame is abstracted to the agent it names; "bad" is any other  *)
(* first frame: another type, another OpID, an undecodable payload, a FIN.  *)
NotInvoke == {"none", "partial", "bad"}

ASSUME NodeAssumption ==
    /\ IsFiniteSet(Conn)
    /\ IsFiniteSet(Op)
    /\ ConnOf \in [Op -> Conn]
    /\ AgentID \cap NotInvoke = {}

VARIABLES
    started, stopped,  \* n.started, n.stopped (guarded by n.mu)
    agents,            \* the keys of n.agents (guarded by n.mu)
    listener,          \* n.listener: "nil" or "set" (guarded by nothing)
    cancelled,         \* has n.cancel been called?
    wg,                \* the counter of n.wg
    socket,            \* the QUIC listener: "none", "open" or "closed"
    listenPc, stopPc,  \* where each call of Listen and of Stop is
    loop,              \* the accept loop: "none", "accept" or "done"
    connPc,            \* where each connection's handleConn is
    opPc,              \* where each operation's handleOperation is
    transport,         \* the QUIC connection: "none", "up" or "closed"
    closedBy,          \* who closed it: "none", "node" or "peer"
    hello,             \* the peer's HELLO: "none", "partial", "good" or "bad"
    frame,             \* the first frame of each operation stream; "partial":
                       \* the stream is open and its frame is not whole
    sent,              \* the agent's response: "none", "ok" or "failed"
    raced              \* history: Stop began while a Listen was going on

apiVars == <<started, stopped, agents, listener, cancelled, listenPc, stopPc, raced>>
peerVars == <<hello, frame>>
connVars == <<transport, closedBy>>
vars == <<started, stopped, agents, listener, cancelled, wg, socket, listenPc,
          stopPc, loop, connPc, opPc, transport, closedBy, hello, frame, sent, raced>>

Listening == {"bind", "store", "spawn"}
ListenStates == Listening \cup {"idle", "ok", "already started", "stopped", "failed"}
StopStates == {"idle", "cancel", "close", "wait", "done", "noop"}
ConnActive == {"stream", "hello", "ops", "exit"}
OpActive == {"recv", "handle", "exit"}

(* The type invariant of the node, its goroutines and its peers.            *)
TypeOK ==
    /\ started \in BOOLEAN /\ stopped \in BOOLEAN /\ cancelled \in BOOLEAN
    /\ raced \in BOOLEAN
    /\ agents \subseteq AgentID
    /\ listener \in {"nil", "set"}
    /\ wg \in Nat
    /\ socket \in {"none", "open", "closed"}
    /\ listenPc \in [ListenCall -> ListenStates]
    /\ stopPc \in [StopCall -> StopStates]
    /\ loop \in {"none", "accept", "done"}
    /\ connPc \in [Conn -> ConnActive \cup {"none", "done"}]
    /\ opPc \in [Op -> OpActive \cup {"none", "done"}]
    /\ transport \in [Conn -> {"none", "up", "closed"}]
    /\ closedBy \in [Conn -> {"none", "node", "peer"}]
    /\ hello \in [Conn -> {"none", "partial", "good", "bad"}]
    /\ frame \in [Op -> NotInvoke \cup AgentID]
    /\ sent \in [Op -> {"none", "ok", "failed"}]

Init ==
    /\ started = FALSE /\ stopped = FALSE /\ cancelled = FALSE /\ raced = FALSE
    /\ agents = {}
    /\ listener = "nil"
    /\ wg = 0
    /\ socket = "none"
    /\ listenPc = [l \in ListenCall |-> "idle"]
    /\ stopPc = [s \in StopCall |-> "idle"]
    /\ loop = "none"
    /\ connPc = [c \in Conn |-> "none"]
    /\ opPc = [o \in Op |-> "none"]
    /\ transport = [c \in Conn |-> "none"]
    /\ closedBy = [c \in Conn |-> "none"]
    /\ hello = [c \in Conn |-> "none"]
    /\ frame = [o \in Op |-> "none"]
    /\ sent = [o \in Op |-> "none"]

-----------------------------------------------------------------------------
(* RegisterAgent, Listen and Stop.                                          *)

RegisterAgent(id) ==
    /\ id \notin agents
    /\ agents' = agents \cup {id}
    /\ UNCHANGED <<started, stopped, listener, cancelled, wg, socket, listenPc, stopPc,
                   loop, connPc, opPc, connVars, peerVars, sent, raced>>

ListenGoto(l, step) == listenPc' = [listenPc EXCEPT ![l] = step]

(* The critical section of Listen, lines 91-101.                            *)
Listen(l) ==
    /\ listenPc[l] = "idle"
    /\ \/ started /\ ListenGoto(l, "already started") /\ UNCHANGED started
       \/ ~started /\ stopped /\ ListenGoto(l, "stopped") /\ UNCHANGED started
       \/ ~started /\ ~stopped /\ ListenGoto(l, "bind") /\ started' = TRUE
    /\ UNCHANGED <<stopped, agents, listener, cancelled, wg, socket, stopPc, loop, connPc,
                   opPc, connVars, peerVars, sent, raced>>

(* Binding the UDP socket may fail; n.started stays set.                    *)
ListenBind(l) ==
    /\ listenPc[l] = "bind"
    /\ \/ ListenGoto(l, "store") /\ socket' = "open"
       \/ ListenGoto(l, "failed") /\ UNCHANGED socket
    /\ UNCHANGED <<started, stopped, agents, listener, cancelled, wg, stopPc, loop, connPc,
                   opPc, connVars, peerVars, sent, raced>>

ListenStore(l) ==
    /\ listenPc[l] = "store"
    /\ listener' = "set"
    /\ ListenGoto(l, "spawn")
    /\ UNCHANGED <<started, stopped, agents, cancelled, wg, socket, stopPc, loop, connPc,
                   opPc, connVars, peerVars, sent, raced>>

ListenSpawn(l) ==
    /\ listenPc[l] = "spawn"
    /\ wg' = wg + 1
    /\ loop' = "accept"
    /\ ListenGoto(l, "ok")
    /\ UNCHANGED <<started, stopped, agents, listener, cancelled, socket, stopPc, connPc,
                   opPc, connVars, peerVars, sent, raced>>

StopGoto(s, step) == stopPc' = [stopPc EXCEPT ![s] = step]

(* The critical section of Stop, lines 126-132.                             *)
Stop(s) ==
    /\ stopPc[s] = "idle"
    /\ \/ stopped /\ StopGoto(s, "noop") /\ UNCHANGED <<stopped, raced>>
       \/ /\ ~stopped
          /\ stopped' = TRUE
          /\ raced' = \E l \in ListenCall : listenPc[l] \in Listening
          /\ StopGoto(s, "cancel")
    /\ UNCHANGED <<started, agents, listener, cancelled, wg, socket, listenPc, loop, connPc,
                   opPc, connVars, peerVars, sent>>

StopCancel(s) ==
    /\ stopPc[s] = "cancel"
    /\ cancelled' = TRUE
    /\ StopGoto(s, "close")
    /\ UNCHANGED <<started, stopped, agents, listener, wg, socket, listenPc, loop, connPc,
                   opPc, connVars, peerVars, sent, raced>>

StopClose(s) ==
    /\ stopPc[s] = "close"
    /\ socket' = IF listener = "set" THEN "closed" ELSE socket
    /\ StopGoto(s, "wait")
    /\ UNCHANGED <<started, stopped, agents, listener, cancelled, wg, listenPc, loop, connPc,
                   opPc, connVars, peerVars, sent, raced>>

StopWait_NoWait(s) ==
    /\ stopPc[s] = "wait"
    /\ StopGoto(s, "done")
    /\ UNCHANGED <<started, stopped, agents, listener, cancelled, wg, socket, listenPc, loop,
                   connPc, opPc, connVars, peerVars, sent, raced>>

StopWait(s) ==
    /\ stopPc[s] = "wait"
    /\ wg = 0
    /\ StopGoto(s, "done")
    /\ UNCHANGED <<started, stopped, agents, listener, cancelled, wg, socket, listenPc, loop,
                   connPc, opPc, connVars, peerVars, sent, raced>>

-----------------------------------------------------------------------------
(* The accept loop.  With a cancelled context quic-go may still hand out a  *)
(* connection that is waiting in the listener's queue.                      *)

Accept_NoAdd(c) ==
    /\ loop = "accept"
    /\ transport[c] # "none" /\ connPc[c] = "none"
    /\ connPc' = [connPc EXCEPT ![c] = "stream"]
    /\ UNCHANGED <<apiVars, wg, socket, loop, opPc, connVars, peerVars, sent>>

Accept(c) ==
    /\ loop = "accept"
    /\ transport[c] # "none" /\ connPc[c] = "none"
    /\ wg' = wg + 1
    /\ connPc' = [connPc EXCEPT ![c] = "stream"]
    /\ UNCHANGED <<apiVars, socket, loop, opPc, connVars, peerVars, sent>>

AcceptError_OnlyClosed ==
    /\ loop = "accept"
    /\ socket = "closed"
    /\ wg' = wg - 1
    /\ loop' = "done"
    /\ UNCHANGED <<apiVars, socket, connPc, opPc, connVars, peerVars, sent>>

AcceptError ==
    /\ loop = "accept"
    /\ cancelled \/ socket = "closed"
    /\ wg' = wg - 1
    /\ loop' = "done"
    /\ UNCHANGED <<apiVars, socket, connPc, opPc, connVars, peerVars, sent>>

-----------------------------------------------------------------------------
(* handleConn.                                                              *)

ConnGoto(c, step) == connPc' = [connPc EXCEPT ![c] = step]

(* qc.CloseWithError is a no-op on a connection that is closed already.     *)
CloseTransport(c) ==
    /\ transport' = [transport EXCEPT ![c] = "closed"]
    /\ closedBy' = [closedBy EXCEPT ![c] = IF transport[c] = "up" THEN "node" ELSE @]

(* AcceptStream for the control stream: a closed connection fails, else a   *)
(* waiting stream is returned even when the context is cancelled.           *)
HandshakeStream(c) ==
    /\ connPc[c] = "stream"
    /\ \/ /\ transport[c] = "up" /\ hello[c] # "none"
          /\ ConnGoto(c, "hello")
          /\ UNCHANGED connVars
       \/ /\ transport[c] = "closed" \/ (cancelled /\ hello[c] = "none")
          /\ CloseTransport(c)
          /\ ConnGoto(c, "exit")
    /\ UNCHANGED <<apiVars, wg, socket, loop, opPc, peerVars, sent>>

HandshakeHello_Accepts(c) ==
    /\ connPc[c] = "hello"
    /\ hello[c] \in {"good", "bad"}
    /\ ConnGoto(c, "ops")
    /\ UNCHANGED <<apiVars, wg, socket, loop, opPc, connVars, peerVars, sent>>

(* runHandshake waits for the peer's HELLO whatever the context says.  A    *)
(* good HELLO may still be refused once the context is cancelled: resolving *)
(* a did:web key uses it.                                                   *)
HandshakeHello(c) ==
    /\ connPc[c] = "hello"
    /\ \/ /\ hello[c] = "good"
          /\ ConnGoto(c, "ops")
          /\ UNCHANGED connVars
       \/ /\ \/ hello[c] = "bad"
             \/ hello[c] = "good" /\ cancelled
             \/ transport[c] = "closed"
          /\ CloseTransport(c)
          /\ ConnGoto(c, "exit")
    /\ UNCHANGED <<apiVars, wg, socket, loop, opPc, peerVars, sent>>

Waiting(c) == {o \in Op : ConnOf[o] = c /\ frame[o] # "none" /\ opPc[o] = "none"}

AcceptOperation(c) ==
    /\ connPc[c] = "ops"
    /\ transport[c] = "up"
    /\ \E o \in Waiting(c) :
        /\ wg' = wg + 1
        /\ opPc' = [opPc EXCEPT ![o] = "recv"]
    /\ UNCHANGED <<apiVars, socket, loop, connPc, connVars, peerVars, sent>>

AcceptOperationError(c) ==
    /\ connPc[c] = "ops"
    /\ transport[c] = "closed" \/ (cancelled /\ Waiting(c) = {})
    /\ ConnGoto(c, "exit")
    /\ UNCHANGED <<apiVars, wg, socket, loop, opPc, connVars, peerVars, sent>>

(* The deferred calls of handleConn: conn.Close, then wg.Done.              *)
ConnExit(c) ==
    /\ connPc[c] = "exit"
    /\ CloseTransport(c)
    /\ wg' = wg - 1
    /\ ConnGoto(c, "done")
    /\ UNCHANGED <<apiVars, socket, loop, opPc, peerVars, sent>>

-----------------------------------------------------------------------------
(* handleOperation, with the agent's Handle.                                *)

OpGoto(o, step) == opPc' = [opPc EXCEPT ![o] = step]

OpRecv_KeepsWaiting(o) ==
    /\ opPc[o] = "recv"
    /\ \/ frame[o] \in agents /\ OpGoto(o, "handle")
       \/ transport[ConnOf[o]] = "closed" /\ OpGoto(o, "exit")
    /\ UNCHANGED <<apiVars, wg, socket, loop, connPc, connVars, peerVars, sent>>

OpRecv(o) ==
    /\ opPc[o] = "recv"
    /\ \/ /\ frame[o] \in agents
          /\ OpGoto(o, "handle")
       \/ /\ \/ frame[o] = "bad"
             \/ frame[o] \in AgentID \ agents
             \/ transport[ConnOf[o]] = "closed"
          /\ OpGoto(o, "exit")
    /\ UNCHANGED <<apiVars, wg, socket, loop, connPc, connVars, peerVars, sent>>

AgentSend(o) ==
    /\ opPc[o] = "handle"
    /\ sent[o] = "none"
    /\ sent' = [sent EXCEPT ![o] = IF transport[ConnOf[o]] = "up" THEN "ok" ELSE "failed"]
    /\ UNCHANGED <<apiVars, wg, socket, loop, connPc, opPc, connVars, peerVars>>

AgentReturns(o) ==
    /\ opPc[o] = "handle"
    /\ OpGoto(o, "exit")
    /\ UNCHANGED <<apiVars, wg, socket, loop, connPc, connVars, peerVars, sent>>

(* op.Close, then the deferred wg.Done.                                     *)
OpExit(o) ==
    /\ opPc[o] = "exit"
    /\ wg' = wg - 1
    /\ OpGoto(o, "done")
    /\ UNCHANGED <<apiVars, socket, loop, connPc, connVars, peerVars, sent>>

-----------------------------------------------------------------------------
(* Peers.                                                                   *)

PeerDials(c) ==
    /\ socket = "open"
    /\ transport[c] = "none"
    /\ transport' = [transport EXCEPT ![c] = "up"]
    /\ UNCHANGED <<apiVars, wg, socket, loop, connPc, opPc, closedBy, peerVars, sent>>

PeerSendsHello(c) ==
    /\ transport[c] = "up"
    /\ hello[c] \in {"none", "partial"}
    /\ \E h \in {"partial", "good", "bad"} : h # hello[c] /\ hello' = [hello EXCEPT ![c] = h]
    /\ UNCHANGED <<apiVars, wg, socket, loop, connPc, opPc, connVars, frame, sent>>

PeerSendsFrame(o) ==
    /\ transport[ConnOf[o]] = "up"
    /\ hello[ConnOf[o]] # "none"
    /\ frame[o] \in {"none", "partial"}
    /\ \E f \in AgentID \cup {"partial", "bad"} : f # frame[o] /\ frame' = [frame EXCEPT ![o] = f]
    /\ UNCHANGED <<apiVars, wg, socket, loop, connPc, opPc, connVars, hello, sent>>

(* A peer closes, or falls silent and quic-go closes for it after the idle  *)
(* timeout; a peer that goes on sending packets is never timed out.         *)
PeerCloses(c) ==
    /\ transport[c] = "up"
    /\ transport' = [transport EXCEPT ![c] = "closed"]
    /\ closedBy' = [closedBy EXCEPT ![c] = "peer"]
    /\ UNCHANGED <<apiVars, wg, socket, loop, connPc, opPc, peerVars, sent>>

-----------------------------------------------------------------------------
ListenStep(l) == ListenBind(l) \/ ListenStore(l) \/ ListenSpawn(l)
StopStep(s) == StopCancel(s) \/ StopClose(s) \/ StopWait(s)
AcceptLoop == AcceptError \/ \E c \in Conn : Accept(c)
HandleConn(c) ==
    \/ HandshakeStream(c) \/ HandshakeHello(c) \/ AcceptOperation(c)
    \/ AcceptOperationError(c) \/ ConnExit(c)
HandleOperation(o) == OpRecv(o) \/ AgentReturns(o) \/ OpExit(o)

Next ==
    \/ \E id \in AgentID : RegisterAgent(id)
    \/ \E l \in ListenCall : Listen(l) \/ ListenStep(l)
    \/ \E s \in StopCall : Stop(s) \/ StopStep(s)
    \/ AcceptLoop
    \/ \E c \in Conn : HandleConn(c)
    \/ \E o \in Op : HandleOperation(o) \/ AgentSend(o)
    \/ \E c \in Conn : PeerDials(c) \/ PeerSendsHello(c) \/ PeerCloses(c)
    \/ \E o \in Op : PeerSendsFrame(o)

Spec == Init /\ [][Next]_vars

(* Goroutines that can run are run, and an agent's Handle returns.  Nothing *)
(* is assumed of the peers: none need finish a frame or close.              *)
Fairness ==
    /\ \A l \in ListenCall : WF_vars(ListenStep(l))
    /\ \A s \in StopCall : WF_vars(StopStep(s))
    /\ WF_vars(AcceptLoop)
    /\ \A c \in Conn : WF_vars(HandleConn(c))
    /\ \A o \in Op : WF_vars(HandleOperation(o))

FairSpec == Spec /\ Fairness

-----------------------------------------------------------------------------
LoopCount == IF loop = "accept" THEN 1 ELSE 0
LiveConns == {c \in Conn : connPc[c] \in ConnActive}
LiveOps == {o \in Op : opPc[o] \in OpActive}

(* n.wg counts exactly the goroutines that are running: every wg.Add (lines *)
(* 109, 149, 166) is matched by one Done, on every path, so the counter     *)
(* cannot go negative, which would panic.                                   *)
WaitGroupCounts == wg = LoopCount + Cardinality(LiveConns) + Cardinality(LiveOps)

(* When the Stop that does the work returns, and no Listen was under way    *)
(* when it began, nothing of the node is left and nothing starts again: the *)
(* listening socket is closed, no goroutine runs, and every connection that *)
(* was accepted is closed (node.go:125-140).                                *)
StopIsComplete ==
    (\E s \in StopCall : stopPc[s] = "done") /\ ~raced
        => /\ socket # "open"
           /\ loop # "accept"
           /\ LiveConns = {} /\ LiveOps = {}
           /\ \A c \in Conn : connPc[c] = "done" => transport[c] = "closed"

(* The node closes a connection only because its handshake failed or the    *)
(* node is stopping, and runs operations only of peers whose HELLO it       *)
(* accepted, also when streams arrive before the HELLO has been checked.    *)
ConnectionDiscipline ==
    /\ \A c \in Conn : closedBy[c] = "node" => cancelled \/ hello[c] = "bad"
    /\ \A o \in Op : opPc[o] # "none" => hello[ConnOf[o]] = "good"

(* What a peer can hold up for as long as it keeps its connection alive:    *)
(* RecvFrame takes no context, so it waits for the rest of a frame.         *)
HelloWithheld(c) == connPc[c] = "hello" /\ hello[c] = "partial" /\ transport[c] = "up"
FrameWithheld(o) == opPc[o] = "recv" /\ frame[o] = "partial" /\ transport[ConnOf[o]] = "up"

(* Stop returns once it has begun (node.go:125-140), unless a peer withholds*)
(* the rest of its HELLO for ever on a live connection.  Nothing else can   *)
(* hold it up: no operation whose frame never comes, no peer that never     *)
(* opens a stream, no listener that Stop did not see.                       *)
StopReturns ==
    \/ \E c \in Conn : <>[]HelloWithheld(c)
    \/ \A s \in StopCall : stopPc[s] = "cancel" ~> stopPc[s] = "done"

(* Every operation the node accepts is finished, unless its own peer        *)
(* withholds the rest of its first frame for ever: handleOperation reaches  *)
(* op.Close, so a client waiting for an answer sees the end of the stream.  *)
OperationsFinish ==
    \A o \in Op : <>[]FrameWithheld(o) \/ (opPc[o] = "recv" ~> opPc[o] = "done")

-----------------------------------------------------------------------------
(* What the comments and messages of node.go say and the code does not do.  *)

(* node.go:122: "Stop stops the Node. The listener is closed and the accept *)
(* loop exits": once Stop and all calls of Listen have returned, the socket *)
(* is not open.                                                             *)
ListenerClosedByStop ==
    (\E s \in StopCall : stopPc[s] = "done") /\ (\A l \in ListenCall : listenPc[l] \notin Listening)
        => socket # "open"

(* node.go:123: "in-flight Operations are allowed to continue until they    *)
(* complete naturally or their connection's context is cancelled by peer    *)
(* close": an agent's Send fails only when the peer closed the connection.  *)
InFlightOperationsContinue ==
    \A o \in Op : sent[o] = "failed" => closedBy[ConnOf[o]] = "peer"

=============================================================================
