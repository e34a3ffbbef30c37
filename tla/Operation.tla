----------------------------- MODULE Operation ------------------------------
(***************************************************************************)
(* Operations on one connection (operation.go, Conn.Invoke and the serving  *)
(* half of node.go), with this code on both ends and operations opened by   *)
(* both.  A task is a call of Invoke, followed by op.Close and by calls of  *)
(* Recv; it is served by an accepted stream's handleOperation, whose agent  *)
(* answers with some frames and returns, or gives up when a Send fails.     *)
(*                                                                         *)
(* Streams are quic-go's: ordered, independent of each other, numbered by   *)
(* RFC 9000, accepted in the order of their IDs.  A frame on the wire when  *)
(* the connection closes may or may not be received any more; so a Send     *)
(* that succeeds because the loss has not been noticed is one that came     *)
(* before it.                                                               *)
(***************************************************************************)
EXTENDS Integers, Sequences

CONSTANTS
    Task,       \* the calls of Invoke
    Opener,     \* the end that makes the call: "client" or "server"
    Replies,    \* the number of frames the agent answers with
    Wants,      \* the number of frames the caller receives
    Admissions, \* the sets of tasks that the peer's stream limit may let through
    Slow        \* tasks whose agent may never get on with its work

End == {"client", "server"}

NoTask == "no task"

Other(e) == IF e = "client" THEN "server" ELSE "client"

ASSUME OperationAssumption ==
    /\ Opener \in [Task -> End]
    /\ Replies \in [Task -> Nat]
    /\ Wants \in [Task -> Nat \ {0}]
    /\ Admissions \subseteq SUBSET Task
    /\ Slow \subseteq Task
    /\ NoTask \notin Task

VARIABLES
    conn,       \* the connection: "up" or "closed"
    admitted,   \* the tasks whose streams the peer's stream limit lets through
    opened,     \* number of streams that each end has opened
    accepted,   \* number of streams of each end that the other has accepted
    wire,       \* per stream and sending end: frames not received yet, FIN sent?
    callPc,     \* where each task is
    stream,     \* the stream of each task
    opID,       \* op.OpID of each task
    received,   \* the frames each task has received
    served      \* per accepted stream: where handleOperation is, op.OpID, the
                \* task the agent works on, the number of frames it has sent

opVars == <<conn, admitted, opened, accepted, wire, callPc, stream, opID, received, served>>

Outcomes == {"ok", "no stream", "EOF", "ErrProtocolViolation", "failed"}

(* RFC 9000: the n-th bidirectional stream that an end opens.               *)
StreamID(e, n) == 4 * n + (IF e = "client" THEN 0 ELSE 1)

Silent == [frames |-> <<>>, fin |-> FALSE]

(* The handshake has opened and accepted the control stream, stream 0.      *)
OpInit ==
    /\ conn = "up"
    /\ admitted \in Admissions
    /\ opened = [e \in End |-> IF e = "client" THEN 1 ELSE 0]
    /\ accepted = opened
    /\ wire = [id \in {} |-> [e \in End |-> Silent]]
    /\ callPc = [t \in Task |-> "idle"]
    /\ stream = [t \in Task |-> 0]
    /\ opID = [t \in Task |-> 0]
    /\ received = [t \in Task |-> <<>>]
    /\ served = [id \in {} |-> [pc |-> "recv", op |-> 0, task |-> NoTask, sent |-> 0]]

-----------------------------------------------------------------------------
(* Operation.Send, which stamps the frame with the OpID, and Close.         *)

Send(e, id, op, t, n, fin) ==
    /\ conn = "up"
    /\ wire' = [wire EXCEPT ![id][e] =
                   [frames |-> Append(@.frames, [op |-> op, task |-> t, n |-> n]), fin |-> fin]]

CloseStream(e, id) ==
    wire' = IF conn = "up" THEN [wire EXCEPT ![id][e] = [frames |-> @.frames, fin |-> TRUE]] ELSE wire

(* The first frame that end e has not received yet on a stream.             *)
Arrived(e, id) == wire[id][Other(e)].frames # <<>>
First(e, id) == Head(wire[id][Other(e)].frames)
TakeFirst(e, id) ==
    wire' = [wire EXCEPT ![id][Other(e)] = [frames |-> Tail(@.frames), fin |-> @.fin]]
Ended(e, id) == wire[id][Other(e)].fin /\ ~Arrived(e, id)

-----------------------------------------------------------------------------
(* The calling side.                                                        *)

CallGoto(t, step) == callPc' = [callPc EXCEPT ![t] = step]

(* OpenStreamSync waits while the peer's stream limit is reached; it fails  *)
(* when the connection is closed or the context is cancelled.               *)
OpenFails(t) ==
    /\ CallGoto(t, "no stream")
    /\ UNCHANGED <<opened, wire, stream, opID>>

OpenStream(t, id) ==
    /\ conn = "up" /\ t \in admitted
    /\ opened' = [opened EXCEPT ![Opener[t]] = @ + 1]
    /\ wire' = [i \in DOMAIN wire \cup {id} |-> IF i = id THEN [e \in End |-> Silent] ELSE wire[i]]
    /\ stream' = [stream EXCEPT ![t] = id]
    /\ CallGoto(t, "send")

NewOperation_Counter(t) ==
    /\ callPc[t] = "idle"
    /\ \/ OpenFails(t)
       \/ LET e == Opener[t]
          IN  OpenStream(t, StreamID(e, opened[e])) /\ opID' = [opID EXCEPT ![t] = opened[e] + 1]
    /\ UNCHANGED <<conn, admitted, accepted, received, served>>

NewOperation(t) ==
    /\ callPc[t] = "idle"
    /\ \/ OpenFails(t)
       \/ LET id == StreamID(Opener[t], opened[Opener[t]])
          IN  OpenStream(t, id) /\ opID' = [opID EXCEPT ![t] = id]
    /\ UNCHANGED <<conn, admitted, accepted, received, served>>

(* The rest of Invoke, frame 0 being the INVOKE, and the op.Close that its  *)
(* callers go on with (nobody waits for that FIN).  A failed Send closes    *)
(* the operation and Invoke returns the error.                              *)
SendInvoke(t) ==
    /\ callPc[t] = "send"
    /\ \/ Send(Opener[t], stream[t], opID[t], t, 0, TRUE) /\ CallGoto(t, "recv")
       \/ conn = "closed" /\ CallGoto(t, "failed") /\ UNCHANGED wire
    /\ UNCHANGED <<conn, admitted, opened, accepted, stream, opID, received, served>>

RecvReply(t) ==
    LET e == Opener[t]
        f == First(e, stream[t])
    IN  /\ callPc[t] = "recv"
        /\ \/ /\ Arrived(e, stream[t])
              /\ TakeFirst(e, stream[t])
              /\ \/ /\ f.op = opID[t]
                    /\ received' = [received EXCEPT ![t] = Append(@, <<f.task, f.n>>)]
                    /\ CallGoto(t, IF Len(received[t]) + 1 = Wants[t] THEN "ok" ELSE "recv")
                 \/ /\ f.op # opID[t]
                    /\ CallGoto(t, "ErrProtocolViolation")
                    /\ UNCHANGED received
           \/ Ended(e, stream[t]) /\ CallGoto(t, "EOF") /\ UNCHANGED <<wire, received>>
           \/ conn = "closed" /\ CallGoto(t, "failed") /\ UNCHANGED <<wire, received>>
        /\ UNCHANGED <<conn, admitted, opened, accepted, stream, opID, served>>

-----------------------------------------------------------------------------
(* The serving side: the accept loop of an end and its handleOperations.    *)

(* A stream is there for AcceptStream when something has been sent on it or *)
(* on a later stream of the same end.                                       *)
Visible(e) ==
    \E n \in accepted[e] .. opened[e] - 1 : wire[StreamID(e, n)][e] # Silent

AcceptOperation(e) ==
    LET id == StreamID(Other(e), accepted[Other(e)])
    IN  /\ conn = "up" /\ Visible(Other(e))
        /\ accepted' = [accepted EXCEPT ![Other(e)] = @ + 1]
        /\ served' = [i \in DOMAIN served \cup {id} |->
                        IF i = id THEN [pc |-> "recv", op |-> id, task |-> NoTask, sent |-> 0]
                                  ELSE served[i]]
        /\ UNCHANGED <<conn, admitted, opened, wire, callPc, stream, opID, received>>

Server(id) == IF id % 4 = 0 THEN "server" ELSE "client"

ServeGoto(id, step) == served' = [served EXCEPT ![id].pc = step]

(* handleOperation up to the call of the agent's Handle.                    *)
RecvInvoke(id) ==
    LET e == Server(id)
        f == First(e, id)
    IN  /\ served[id].pc = "recv"
        /\ \/ /\ Arrived(e, id)
              /\ TakeFirst(e, id)
              /\ \/ /\ f.op = served[id].op
                    /\ served' = [served EXCEPT ![id] = [@ EXCEPT !.pc = "agent", !.task = f.task]]
                 \/ f.op # served[id].op /\ ServeGoto(id, "close")
           \/ (Ended(e, id) \/ conn = "closed") /\ ServeGoto(id, "close") /\ UNCHANGED wire
        /\ UNCHANGED <<conn, admitted, opened, accepted, callPc, stream, opID, received>>

(* The agent: streamAgent and the worker agents stop at the first failure.  *)
AgentSends(id) ==
    LET s == served[id]
    IN  /\ s.pc = "agent" /\ s.sent < Replies[s.task]
        /\ \/ /\ Send(Server(id), id, s.op, s.task, s.sent + 1, FALSE)
              /\ served' = [served EXCEPT ![id].sent = @ + 1]
           \/ conn = "closed" /\ ServeGoto(id, "close") /\ UNCHANGED wire
        /\ UNCHANGED <<conn, admitted, opened, accepted, callPc, stream, opID, received>>

AgentReturned(s) == s.pc = "close" \/ (s.pc = "agent" /\ s.sent = Replies[s.task])

ServerCloses_WithoutAgent(id) ==
    /\ served[id].pc \in {"agent", "close"}
    /\ CloseStream(Server(id), id)
    /\ ServeGoto(id, "done")
    /\ UNCHANGED <<conn, admitted, opened, accepted, callPc, stream, opID, received>>

ServerCloses(id) ==
    /\ AgentReturned(served[id])
    /\ CloseStream(Server(id), id)
    /\ ServeGoto(id, "done")
    /\ UNCHANGED <<conn, admitted, opened, accepted, callPc, stream, opID, received>>

-----------------------------------------------------------------------------
(* Either end closes the connection, or it is lost.                         *)
ConnCloses ==
    /\ conn = "up"
    /\ conn' = "closed"
    /\ UNCHANGED <<admitted, opened, accepted, wire, callPc, stream, opID, received, served>>

Caller(t) == NewOperation(t) \/ SendInvoke(t) \/ RecvReply(t)
Serve(id) == RecvInvoke(id) \/ AgentSends(id) \/ ServerCloses(id)

OpNext ==
    \/ \E t \in Task : Caller(t)
    \/ \E e \in End : AcceptOperation(e)
    \/ \E id \in DOMAIN served : Serve(id)
    \/ ConnCloses

OpSpec == OpInit /\ [][OpNext]_opVars

-----------------------------------------------------------------------------
(* operation.go:31: OpIDs are "unique per connection and never zero".       *)
(* Hence, however the two ends' operations interleave on a connection, no   *)
(* Recv on either end reports a protocol violation, an agent works on the   *)
(* stream of the task that invoked it, and a task receives its own agent's  *)
(* frames, each once and in order.                                          *)
OperationsAreSeparate ==
    /\ \A t \in Task : callPc[t] # "ErrProtocolViolation"
    /\ \A t \in Task : stream[t] # 0 => \A u \in Task \ {t} : opID[t] \notin {0, opID[u]}
    /\ \A id \in DOMAIN served :
         IF served[id].task = NoTask THEN served[id].pc \in {"close", "done"} => conn = "closed"
                                     ELSE stream[served[id].task] = id
    /\ \A t \in Task : \A i \in DOMAIN received[t] : received[t][i] = <<t, i>>

(* A caller that sees the clean end of the stream (io.EOF, conn.go:172) has *)
(* received all that its agent had to send: a connection that goes away in  *)
(* the middle is never taken for the end of the answer.                     *)
EOFMeansComplete == \A t \in Task : callPc[t] = "EOF" => Len(received[t]) = Replies[t]

=============================================================================
