---------------------------- MODULE PeersProofs -----------------------------
(***************************************************************************)
(* Proofs about operations on one connection (module Operation), for any    *)
(* tasks on both ends, and about the coordinator of cmd/aire-peers (module  *)
(* Peers), for any number of worker agents, with whatever other operations  *)
(* run on the shared connection.                                            *)
(*                                                                          *)
(* The coordinator's steps are steps of the connection's operations or leave*)
(* them alone (ImplementsOperation), so what is proved of operations holds  *)
(* of its calls.                                                            *)
(***************************************************************************)
EXTENDS Peers, TLAPS

Frame == [op : Nat, task : Task, n : Nat]
Direction == [frames : Seq(Frame), fin : BOOLEAN]
Service == [pc : {"recv", "agent", "close", "done"}, op : Nat,
            task : Task \cup {NoTask}, sent : Nat]

TypeOK ==
    /\ conn \in {"up", "closed"}
    /\ opened \in [End -> Nat] /\ accepted \in [End -> Nat]
    /\ DOMAIN wire \subseteq Nat /\ wire \in [DOMAIN wire -> [End -> Direction]]
    /\ callPc \in [Task -> {"idle", "send", "recv"} \cup Outcomes]
    /\ stream \in [Task -> Nat] /\ opID \in [Task -> Nat]
    /\ received \in [Task -> Seq(Task \X Nat)]
    /\ served \in [DOMAIN served -> Service]

(* Streams are numbered one after the other; those accepted were opened.    *)
Numbered ==
    /\ opened["client"] >= 1
    /\ 0 \notin DOMAIN wire
    /\ DOMAIN served \subseteq DOMAIN wire
    /\ \A e \in End : accepted[e] <= opened[e]
    /\ \A e \in End, n \in Nat :
         /\ StreamID(e, n) \in DOMAIN wire => n < opened[e]
         /\ accepted[e] <= n /\ n < opened[e] => StreamID(e, n) \in DOMAIN wire
         /\ StreamID(e, n) \in DOMAIN served => n < accepted[e]

(* A task that has a stream has it alone and uses its ID as the OpID.       *)
Owned ==
    /\ \A t \in Task : stream[t] = 0 <=> callPc[t] \in {"idle", "no stream"}
    /\ \A t \in Task : stream[t] = 0 => opID[t] = 0
    /\ \A t \in Task : stream[t] # 0 =>
         /\ stream[t] \in DOMAIN wire
         /\ opID[t] = stream[t]
         /\ Server(stream[t]) = Other(Opener[t])
    /\ \A t, u \in Task : stream[t] = stream[u] /\ stream[t] # 0 => t = u

(* A frame on a stream bears the stream's ID and belongs to its task.       *)
Stamped ==
    \A id \in DOMAIN wire, e \in End : \A i \in DOMAIN wire[id][e].frames :
        wire[id][e].frames[i].op = id /\ stream[wire[id][e].frames[i].task] = id

(* An accepted stream works for its own task, and not before its INVOKE.    *)
Invoked ==
    /\ \A id \in DOMAIN served :
         /\ served[id].op = id
         /\ served[id].task # NoTask => stream[served[id].task] = id
         /\ served[id].task = NoTask => served[id].sent = 0 /\ served[id].pc # "agent"
         /\ served[id].pc = "recv" => served[id].task = NoTask
         /\ served[id].pc = "close" => conn = "closed"
         /\ served[id].pc = "done" /\ served[id].task = NoTask => conn = "closed"
    /\ \A id \in DOMAIN wire :
         wire[id][Other(Server(id))].fin /\ wire[id][Other(Server(id))].frames = <<>>
             => id \in DOMAIN served /\ served[id].pc # "recv"

(* The replies on a stream follow those that its task has received; the end *)
(* of the stream follows the last one.                                      *)
Follows(t, d, rcvd, id, services) ==
    /\ \A i \in DOMAIN d.frames : d.frames[i].n = Len(rcvd) + i
    /\ id \in DOMAIN services => Len(rcvd) + Len(d.frames) = services[id].sent
    /\ id \notin DOMAIN services => rcvd = <<>> /\ d.frames = <<>>
    /\ d.fin => /\ id \in DOMAIN services
                /\ services[id].pc = "done" /\ services[id].sent = Replies[t]

Answered ==
    /\ \A t \in Task : \A i \in DOMAIN received[t] : received[t][i] = <<t, i>>
    /\ \A t \in Task : stream[t] = 0 => received[t] = <<>>
    /\ \A t \in Task : stream[t] # 0 =>
         Follows(t, wire[stream[t]][Other(Opener[t])], received[t], stream[t], served)

(* How a task has ended, and why one that goes on receiving does so.        *)
Outcome ==
    \A t \in Task :
        /\ callPc[t] # "ErrProtocolViolation"
        /\ callPc[t] = "EOF" => Len(received[t]) = Replies[t]
        /\ callPc[t] = "failed" => conn = "closed"
        /\ callPc[t] # "ok" => Len(received[t]) < Wants[t]

IInv == TypeOK /\ Numbered /\ Owned /\ Stamped /\ Invoked /\ Answered /\ Outcome

-----------------------------------------------------------------------------
(* Stream IDs.                                                              *)

(* A stream ID tells which end opened the stream, and 0 is the control      *)
(* stream.                                                                  *)
LEMMA StreamIDs ==
    ASSUME NEW e \in End, NEW n \in Nat
    PROVE  /\ StreamID(e, n) \in Nat
           /\ Server(StreamID(e, n)) = Other(e)
           /\ e = "client" /\ n >= 1 => StreamID(e, n) # 0
           /\ e = "server" => StreamID(e, n) # 0
BY DEF StreamID, Server, Other, End

(* Streams of different ends, or opened at different times, differ in their *)
(* IDs.                                                                     *)
LEMMA StreamIDsDiffer ==
    ASSUME NEW e \in End, NEW f \in End, NEW m \in Nat, NEW n \in Nat,
           StreamID(e, m) = StreamID(f, n)
    PROVE  e = f /\ m = n
BY DEF StreamID, End

(* There are two ends, and each stream is served by one.                    *)
LEMMA Ends ==
    /\ \A e \in End : Other(e) \in End /\ Other(e) # e /\ Other(Other(e)) = e
    /\ \A id : Server(id) \in End
BY DEF End, Other, Server

(* A stream to which a frame was written is not empty.                      *)
LEMMA AppendedIsNotEmpty ==
    ASSUME NEW S, NEW q \in Seq(S), NEW x \in S
    PROVE  Append(q, x) # <<>>
<1>1. Len(q) \in Nat /\ Len(Append(q, x)) = Len(q) + 1
  OBVIOUS
<1>2. Len(<<>>) = 0
  OBVIOUS
<1>3. ASSUME NEW a, NEW b, Len(a) # Len(b)
      PROVE  a # b
  BY <1>3
<1>4. Len(Append(q, x)) # Len(<<>>)
  BY <1>1, <1>2
<1> QED  BY <1>3, <1>4, Zenon

-----------------------------------------------------------------------------
(* What the steps on a stream do to it, and that they touch no other one.   *)

FrameAdded(id, e, fr, fin) ==
    /\ DOMAIN wire' = DOMAIN wire
    /\ wire' \in [DOMAIN wire -> [End -> Direction]]
    /\ wire'[id][e].frames = Append(wire[id][e].frames, fr)
    /\ wire'[id][e].fin = fin
    /\ \A i \in DOMAIN wire, f \in End : i # id \/ f # e => wire'[i][f] = wire[i][f]

FrameTaken(id, e, o) ==
    /\ DOMAIN wire' = DOMAIN wire
    /\ wire' \in [DOMAIN wire -> [End -> Direction]]
    /\ wire'[id][o].frames = Tail(wire[id][o].frames)
    /\ wire'[id][o].fin = wire[id][o].fin
    /\ \A i \in DOMAIN wire, f \in End : i # id \/ f # o => wire'[i][f] = wire[i][f]
    /\ First(e, id) = wire[id][o].frames[1]
    /\ First(e, id) \in Frame

(* Send puts a frame behind the others in its direction of the stream.      *)
LEMMA SendEffect ==
    ASSUME TypeOK, NEW id \in DOMAIN wire, NEW e \in End, NEW fr \in Frame, NEW fin \in BOOLEAN,
           Send(e, id, fr.op, fr.task, fr.n, fin)
    PROVE  FrameAdded(id, e, fr, fin)
<1> DEFINE d == [frames |-> Append(wire[id][e].frames, fr), fin |-> fin]
<1>1. wire[id] \in [End -> Direction] /\ wire[id][e] \in Direction
  BY DEF TypeOK
<1>2. fr = [op |-> fr.op, task |-> fr.task, n |-> fr.n]
  BY DEF Frame
<1>3. d \in Direction
  BY <1>1 DEF Direction
<1>4. wire' = [wire EXCEPT ![id] = [wire[id] EXCEPT ![e] = d]]
  BY <1>2, Zenon DEF Send
<1> HIDE DEF d
<1>5. [wire[id] EXCEPT ![e] = d] \in [End -> Direction]
  BY <1>1, <1>3
<1>6. /\ DOMAIN wire' = DOMAIN wire
      /\ wire' \in [DOMAIN wire -> [End -> Direction]]
      /\ wire'[id][e] = d
      /\ \A i \in DOMAIN wire, f \in End : i # id \/ f # e => wire'[i][f] = wire[i][f]
  BY <1>1, <1>4, <1>5, Zenon DEF TypeOK
<1> QED  BY <1>6 DEF d, FrameAdded

(* Receiving takes the first frame off the direction of the other end.      *)
LEMMA TakeEffect ==
    ASSUME TypeOK, NEW id \in DOMAIN wire, NEW e \in End, NEW o \in End, o = Other(e),
           Arrived(e, id), TakeFirst(e, id)
    PROVE  FrameTaken(id, e, o)
<1> DEFINE d == [frames |-> Tail(wire[id][o].frames), fin |-> wire[id][o].fin]
<1>1. wire[id] \in [End -> Direction] /\ wire[id][o] \in Direction
  BY DEF TypeOK
<1>2. wire[id][o].frames \in Seq(Frame) /\ wire[id][o].frames # <<>>
  BY <1>1 DEF Direction, Arrived
<1>3. d \in Direction
  BY <1>1, <1>2 DEF Direction
<1>4. wire' = [wire EXCEPT ![id] = [wire[id] EXCEPT ![o] = d]]
  BY DEF TakeFirst
<1>5. First(e, id) = wire[id][o].frames[1] /\ First(e, id) \in Frame
  BY <1>2 DEF First
<1> HIDE DEF d
<1>6. [wire[id] EXCEPT ![o] = d] \in [End -> Direction]
  BY <1>1, <1>3
<1>7. /\ DOMAIN wire' = DOMAIN wire
      /\ wire' \in [DOMAIN wire -> [End -> Direction]]
      /\ wire'[id][o] = d
      /\ \A i \in DOMAIN wire, f \in End : i # id \/ f # o => wire'[i][f] = wire[i][f]
  BY <1>1, <1>4, <1>6 DEF TypeOK
<1> QED  BY <1>5, <1>7 DEF d, FrameTaken

(* Close changes at most the FIN of one direction.                          *)
LEMMA CloseEffect ==
    ASSUME TypeOK, NEW id \in DOMAIN wire, NEW e \in End, CloseStream(e, id)
    PROVE  /\ DOMAIN wire' = DOMAIN wire
           /\ wire' \in [DOMAIN wire -> [End -> Direction]]
           /\ \A i \in DOMAIN wire, f \in End : wire'[i][f].frames = wire[i][f].frames
           /\ \A i \in DOMAIN wire, f \in End : i # id \/ f # e => wire'[i][f] = wire[i][f]
           /\ conn = "closed" => wire' = wire
<1> DEFINE d == [frames |-> wire[id][e].frames, fin |-> TRUE]
<1>1. wire[id] \in [End -> Direction] /\ wire[id][e] \in Direction
  BY DEF TypeOK
<1>2. d \in Direction
  BY <1>1 DEF Direction
<1>3. conn = "up" => wire' = [wire EXCEPT ![id] = [wire[id] EXCEPT ![e] = d]]
  BY DEF CloseStream
<1>4. conn = "closed" => wire' = wire
  BY DEF CloseStream
<1>5. d.frames = wire[id][e].frames
  OBVIOUS
<1> HIDE DEF d
<1>6. [wire[id] EXCEPT ![e] = d] \in [End -> Direction]
  BY <1>1, <1>2
<1>7. CASE conn = "up"
  <2>0. wire' = [wire EXCEPT ![id] = [wire[id] EXCEPT ![e] = d]]
    BY <1>3, <1>7
  <2>1. /\ DOMAIN wire' = DOMAIN wire
        /\ wire' \in [DOMAIN wire -> [End -> Direction]]
        /\ wire'[id][e] = d
        /\ \A i \in DOMAIN wire, f \in End : i # id \/ f # e => wire'[i][f] = wire[i][f]
    BY <1>1, <2>0, <1>6 DEF TypeOK
  <2> QED  BY <1>5, <1>7, <2>1
<1>8. CASE conn = "closed"
  BY <1>4, <1>8 DEF TypeOK
<1> QED  BY <1>7, <1>8 DEF TypeOK

-----------------------------------------------------------------------------
(* The invariant is inductive.                                              *)

(* What a step leaves alone.                                                *)

(* A step that opens and accepts no stream keeps Numbered.                  *)
LEMMA SameNumbers ==
    ASSUME Numbered, UNCHANGED <<opened, accepted>>,
           DOMAIN wire' = DOMAIN wire, DOMAIN served' = DOMAIN served
    PROVE  Numbered'
BY DEF Numbered

(* A step that gives no task a stream keeps Owned.                          *)
LEMMA SameOwners ==
    ASSUME Owned, UNCHANGED <<stream, opID>>, DOMAIN wire' = DOMAIN wire,
           \A t \in Task : callPc'[t] \in {"idle", "no stream"} <=> callPc[t] \in {"idle", "no stream"}
    PROVE  Owned'
BY Zenon DEF Owned

(* A step that moves no frame keeps Stamped.                                *)
LEMMA SameFrames ==
    ASSUME Stamped, UNCHANGED stream, DOMAIN wire' = DOMAIN wire,
           \A i \in DOMAIN wire, f \in End : wire'[i][f].frames = wire[i][f].frames
    PROVE  Stamped'
BY DEF Stamped

(* A step that touches neither services nor INVOKEs keeps Invoked.          *)
LEMMA SameServices ==
    ASSUME Invoked, UNCHANGED <<conn, stream, served>>, DOMAIN wire' = DOMAIN wire,
           \A i \in DOMAIN wire : wire'[i][Other(Server(i))] = wire[i][Other(Server(i))]
    PROVE  Invoked'
BY DEF Invoked

(* The elements of a longer sequence.                                       *)
LEMMA AppendAt ==
    ASSUME NEW S, NEW q \in Seq(S), NEW x \in S
    PROVE  /\ Append(q, x) # <<>> /\ Len(Append(q, x)) = Len(q) + 1
           /\ \A j \in DOMAIN Append(q, x) :
                \/ j = Len(q) + 1 /\ Append(q, x)[j] = x
                \/ j \in DOMAIN q /\ Append(q, x)[j] = q[j]
OBVIOUS

(* The elements behind the first one.                                       *)
LEMMA TailAt ==
    ASSUME NEW S, NEW q \in Seq(S), q # <<>>
    PROVE  /\ Len(Tail(q)) = Len(q) - 1 /\ Len(q) \in Nat
           /\ \A j \in DOMAIN Tail(q) : j \in Nat /\ j + 1 \in DOMAIN q /\ Tail(q)[j] = q[j + 1]
OBVIOUS

(* A frame of the task that has the stream keeps Stamped.                   *)
LEMMA MoreFrames ==
    ASSUME TypeOK, Stamped, UNCHANGED stream,
           NEW id \in DOMAIN wire, NEW e \in End, NEW fr \in Frame, NEW fin \in BOOLEAN,
           fr.op = id, stream[fr.task] = id, FrameAdded(id, e, fr, fin)
    PROVE  Stamped'
<1>1. wire[id][e].frames \in Seq(Frame)
  BY DEF TypeOK, Direction
<1> SUFFICES ASSUME NEW i \in DOMAIN wire, NEW f \in End, NEW j \in DOMAIN wire'[i][f].frames
             PROVE  wire'[i][f].frames[j].op = i /\ stream[wire'[i][f].frames[j].task] = i
  BY DEF Stamped, FrameAdded
<1>2. CASE i # id \/ f # e
  <2>1. wire'[i][f] = wire[i][f]
    BY <1>2, Zenon DEF FrameAdded
  <2> QED  BY <2>1 DEF Stamped
<1>3. CASE i = id /\ f = e
  <2>1. \/ wire'[i][f].frames[j] = fr
        \/ j \in DOMAIN wire[id][e].frames /\ wire'[i][f].frames[j] = wire[id][e].frames[j]
    <3>1. PICK q \in Seq(Frame) : q = wire[id][e].frames /\ wire'[i][f].frames = Append(q, fr)
      BY <1>1, <1>3, Zenon DEF FrameAdded
    <3>2. \A k \in DOMAIN Append(q, fr) :
            Append(q, fr)[k] = fr \/ (k \in DOMAIN q /\ Append(q, fr)[k] = q[k])
      BY AppendAt
    <3> QED  BY <3>1, <3>2, Zenon
  <2> QED  BY <1>3, <2>1 DEF Stamped
<1> QED  BY <1>2, <1>3

(* Taking a frame off a stream keeps Stamped.                               *)
LEMMA FewerFrames ==
    ASSUME TypeOK, Stamped, UNCHANGED stream, DOMAIN wire' = DOMAIN wire,
           NEW id \in DOMAIN wire, NEW e \in End, wire[id][e].frames # <<>>,
           wire'[id][e].frames = Tail(wire[id][e].frames),
           \A i \in DOMAIN wire, f \in End : i # id \/ f # e => wire'[i][f] = wire[i][f]
    PROVE  Stamped'
<1>1. wire[id][e].frames \in Seq(Frame)
  BY ZenonT(60) DEF TypeOK, Direction
<1> SUFFICES ASSUME NEW i \in DOMAIN wire, NEW f \in End, NEW j \in DOMAIN wire'[i][f].frames
             PROVE  wire'[i][f].frames[j].op = i /\ stream[wire'[i][f].frames[j].task] = i
  BY DEF Stamped
<1>2. CASE i # id \/ f # e
  <2>1. wire'[i][f] = wire[i][f]
    BY <1>2, Zenon
  <2> QED  BY <2>1 DEF Stamped
<1>3. CASE i = id /\ f = e
  <2> DEFINE q == wire[id][e].frames
  <2> HIDE DEF q
  <2>0. q \in Seq(Frame) /\ q # <<>> /\ wire'[i][f].frames = Tail(q) /\ j \in DOMAIN Tail(q)
    BY <1>1, <1>3, Zenon DEF q
  <2>2. j + 1 \in DOMAIN q /\ Tail(q)[j] = q[j + 1]
    BY <2>0, TailAt, Zenon
  <2>1. j + 1 \in DOMAIN wire[id][e].frames /\ wire'[i][f].frames[j] = wire[id][e].frames[j + 1]
    BY <2>0, <2>2 DEF q
  <2> QED  BY <1>3, <2>1 DEF Stamped
<1> QED  BY <1>2, <1>3

(* Without streams the invariant holds.                                     *)
LEMMA InitIInv == OpInit => IInv
<1> SUFFICES ASSUME OpInit PROVE IInv
  OBVIOUS
<1> USE OperationAssumption
<1>1. DOMAIN wire = {} /\ DOMAIN served = {}
  BY DEF OpInit
<1>2. /\ opened \in [End -> Nat] /\ opened["client"] = 1 /\ opened["server"] = 0
      /\ accepted = opened
  BY DEF OpInit, End
<1>3. TypeOK
  BY <1>1, <1>2 DEF OpInit, TypeOK, Outcomes
<1>4. Numbered
  BY <1>1, <1>2 DEF Numbered, End
<1>5. Owned /\ Stamped /\ Invoked
  BY <1>1, Zenon DEF OpInit, Owned, Stamped, Invoked
<1>6. Answered /\ Outcome
  BY <1>1 DEF OpInit, Answered, Outcome
<1> QED  BY <1>3, <1>4, <1>5, <1>6 DEF IInv

(* NewOperation keeps the invariant: the stream is a new one.               *)
LEMMA NewOperationIInv ==
    ASSUME IInv, NEW t \in Task, NewOperation(t)
    PROVE  IInv'
<1> USE OperationAssumption
<1> DEFINE e == Opener[t]
           id == StreamID(e, opened[e])
<1>0. TypeOK /\ Numbered /\ Owned /\ Stamped /\ Invoked /\ Answered /\ Outcome
  BY DEF IInv
<1>1. stream[t] = 0 /\ callPc[t] = "idle" /\ opID[t] = 0 /\ received[t] = <<>>
  BY <1>0, Zenon DEF NewOperation, Owned, Answered
<1>2. UNCHANGED <<conn, accepted, received, served>>
  BY DEF NewOperation
<1>3. CASE OpenFails(t)
  <2>1. /\ UNCHANGED <<opened, wire, stream, opID>>
        /\ callPc' = [callPc EXCEPT ![t] = "no stream"]
    BY <1>3, Zenon DEF OpenFails, CallGoto
  <2>2. TypeOK'
    BY <1>0, <1>2, <2>1, Zenon DEF TypeOK, Outcomes
  <2>3. Numbered'
    BY <1>0, <1>2, <2>1, Zenon DEF Numbered
  <2>8. Stamped'
    BY <1>0, <2>1, SameFrames, Zenon
  <2>6. Invoked'
    BY <1>0, <1>2, <2>1, Zenon DEF Invoked
  <2>7. Answered'
    BY <1>0, <1>2, <2>1, Zenon DEF Answered
  <2>4. Owned'
    BY <1>0, <1>1, <2>1, Zenon DEF Owned, TypeOK
  <2>5. Outcome'
    <3>1. callPc'[t] = "no stream" /\ \A u \in Task : u # t => callPc'[u] = callPc[u]
      BY <1>0, <2>1, Zenon DEF TypeOK
    <3> QED  BY <1>0, <1>1, <1>2, <3>1, Zenon DEF Outcome
  <2> QED  BY <2>2, <2>3, <2>4, <2>5, <2>6, <2>7, <2>8 DEF IInv
<1>4. CASE OpenStream(t, id) /\ opID' = [opID EXCEPT ![t] = id]
  <2>1. e \in End /\ opened[e] \in Nat
    BY <1>0, Zenon DEF TypeOK
  <2>2. id \in Nat /\ Server(id) = Other(e)
    BY <2>1, StreamIDs
  <2>3. id # 0
    <3>1. e = "client" \/ e = "server"
      BY <2>1 DEF End
    <3> QED  BY <2>1, <3>1, <1>0, StreamIDs DEF Numbered
  <2>4. id \notin DOMAIN wire /\ id \notin DOMAIN served
    BY <1>0, <2>1 DEF Numbered
  <2> HIDE DEF id, e
  <2>5. /\ opened' = [opened EXCEPT ![e] = @ + 1]
        /\ wire' = [i \in DOMAIN wire \cup {id} |-> IF i = id THEN [f \in End |-> Silent] ELSE wire[i]]
        /\ stream' = [stream EXCEPT ![t] = id]
        /\ callPc' = [callPc EXCEPT ![t] = "send"]
        /\ opID' = [opID EXCEPT ![t] = id]
    BY <1>4 DEF OpenStream, CallGoto, e
  <2>6. [f \in End |-> Silent] \in [End -> Direction]
    BY DEF Silent, Direction
  <2>7. /\ DOMAIN wire' = DOMAIN wire \cup {id}
        /\ wire' \in [DOMAIN wire \cup {id} -> [End -> Direction]]
        /\ \A f \in End : wire'[id][f] = Silent
        /\ \A i \in DOMAIN wire : wire'[i] = wire[i]
    BY <1>0, <2>4, <2>5, <2>6 DEF TypeOK
  <2>8. /\ stream'[t] = id /\ opID'[t] = id /\ callPc'[t] = "send"
        /\ \A u \in Task : u # t => /\ stream'[u] = stream[u] /\ opID'[u] = opID[u]
                                     /\ callPc'[u] = callPc[u]
    BY <1>0, <2>5 DEF TypeOK
  <2>9. TypeOK'
    <3>1. opened' \in [End -> Nat] /\ stream' \in [Task -> Nat] /\ opID' \in [Task -> Nat]
      BY <1>0, <2>1, <2>2, <2>5, SMTT(30) DEF TypeOK
    <3>2. callPc' \in [Task -> {"idle", "send", "recv"} \cup Outcomes]
      BY <1>0, <2>5 DEF TypeOK
    <3> QED  BY <1>0, <1>2, <2>2, <2>7, <3>1, <3>2, ZenonT(60) DEF TypeOK
  <2>10. Numbered'
    <3>1. /\ opened'[e] = opened[e] + 1
          /\ \A f \in End : f # e => opened'[f] = opened[f]
          /\ \A f \in End : opened[f] \in Nat /\ accepted[f] \in Nat
      BY <1>0, <2>1, <2>5 DEF TypeOK
    <3>2. ASSUME NEW f \in End, NEW n \in Nat
          PROVE  StreamID(f, n) = id <=> f = e /\ n = opened[e]
      BY <2>1, StreamIDsDiffer DEF id
    <3>3. opened'["client"] >= 1
      BY <1>0, <3>1 DEF Numbered, End
    <3>4. \A f \in End : accepted[f] <= opened'[f]
      BY <1>0, <3>1 DEF Numbered
    <3>5. ASSUME NEW f \in End, NEW n \in Nat
          PROVE  /\ StreamID(f, n) \in DOMAIN wire' => n < opened'[f]
                 /\ accepted[f] <= n /\ n < opened'[f] => StreamID(f, n) \in DOMAIN wire'
      <4>1. StreamID(f, n) \in DOMAIN wire' <=>
              StreamID(f, n) \in DOMAIN wire \/ (f = e /\ n = opened[e])
        BY <2>7, <3>2, Zenon
      <4> QED  BY <4>1, <1>0, <3>1 DEF Numbered
    <3> QED  BY <1>0, <1>2, <2>3, <2>7, <3>3, <3>4, <3>5, Zenon DEF Numbered
  <2>11. Owned'
    <3>1. \A u \in Task : stream[u] # id
      BY <1>0, <2>3, <2>4, Zenon DEF Owned
    <3>2. \A u \in Task : /\ stream'[u] = 0 <=> callPc'[u] \in {"idle", "no stream"}
                          /\ stream'[u] = 0 => opID'[u] = 0
      BY <1>0, <2>3, <2>8, Zenon DEF Owned
    <3>3. ASSUME NEW u \in Task, stream'[u] # 0
          PROVE  /\ stream'[u] \in DOMAIN wire' /\ opID'[u] = stream'[u]
                 /\ Server(stream'[u]) = Other(Opener[u])
      <4>1. CASE u = t
        BY <2>2, <2>7, <2>8, <4>1 DEF e
      <4>2. CASE u # t
        BY <1>0, <2>7, <2>8, <3>3, <4>2, Zenon DEF Owned
      <4> QED  BY <4>1, <4>2, Zenon
    <3>4. ASSUME NEW u \in Task, NEW v \in Task, stream'[u] = stream'[v], stream'[u] # 0
          PROVE  u = v
      <4>1. CASE u = t \/ v = t
        BY <2>8, <3>1, <3>4, <4>1
      <4>2. CASE u # t /\ v # t
        <5>1. stream[u] = stream[v] /\ stream[u] # 0
          BY <2>8, <3>4, <4>2
        <5> QED  BY <1>0, <5>1, Zenon DEF Owned
      <4> QED  BY <4>1, <4>2
    <3> QED  BY <3>2, <3>3, <3>4, Zenon DEF Owned
  <2>12. Stamped'
    <3> SUFFICES ASSUME NEW i \in DOMAIN wire', NEW f \in End, NEW j \in DOMAIN wire'[i][f].frames
                 PROVE  wire'[i][f].frames[j].op = i /\ stream'[wire'[i][f].frames[j].task] = i
      BY Zenon DEF Stamped
    <3>1. i # id /\ i \in DOMAIN wire /\ wire'[i] = wire[i]
      BY <2>7 DEF Silent
    <3>2. wire[i][f].frames \in Seq(Frame) /\ wire[i][f].frames[j] \in Frame
      BY <1>0, <3>1, SMTT(30) DEF TypeOK, Direction
    <3>3. wire[i][f].frames[j].op = i /\ stream[wire[i][f].frames[j].task] = i
      BY <1>0, <3>1, Zenon DEF Stamped
    <3>4. i # 0
      BY <1>0, <3>1, Zenon DEF Numbered
    <3> QED  BY <1>1, <2>8, <3>1, <3>2, <3>3, <3>4, Zenon DEF Frame
  <2>13. Invoked'
    <3>1. ASSUME NEW i \in DOMAIN served, served[i].task # NoTask
          PROVE  stream'[served[i].task] = i
      <4>1. served[i].task \in Task /\ stream[served[i].task] = i
        BY <1>0, <3>1, Zenon DEF TypeOK, Service, Invoked
      <4>2. i # 0
        BY <1>0 DEF Numbered
      <4> QED  BY <1>1, <2>8, <4>1, <4>2, Zenon
    <3>2. ASSUME NEW i \in DOMAIN wire'
          PROVE  wire'[i][Other(Server(i))].fin /\ wire'[i][Other(Server(i))].frames = <<>>
                     => i \in DOMAIN served /\ served[i].pc # "recv"
      <4>1. CASE i = id
        BY <2>7, <4>1, Ends DEF Silent
      <4>2. CASE i \in DOMAIN wire
        BY <1>0, <2>7, <4>2, Zenon DEF Invoked
      <4> QED  BY <2>7, <4>1, <4>2, Zenon
    <3> QED  BY <1>0, <1>2, <3>1, <3>2, Zenon DEF Invoked
  <2>14. Answered'
    <3>1. ASSUME NEW u \in Task, stream'[u] # 0
          PROVE  Follows(u, wire'[stream'[u]][Other(Opener[u])], received[u], stream'[u], served)
      <4>1. CASE u = t
        <5>1. wire'[id][Other(Opener[t])] = Silent
          BY <2>1, <2>7, Ends, Zenon DEF e
        <5>2. Follows(t, Silent, <<>>, id, served)
          BY <2>4 DEF Silent, Follows
        <5> QED  BY <1>1, <2>8, <4>1, <5>1, <5>2, Zenon
      <4>2. CASE u # t
        <5>1. stream'[u] = stream[u] /\ stream[u] \in DOMAIN wire /\ wire'[stream[u]] = wire[stream[u]]
          BY <1>0, <2>7, <2>8, <3>1, <4>2, ZenonT(60) DEF Owned
        <5> QED  BY <1>0, <3>1, <5>1 DEF Answered
      <4> QED  BY <4>1, <4>2, Zenon
    <3>2. \A u \in Task : stream'[u] = 0 => received[u] = <<>>
      BY <1>0, <2>3, <2>8, Zenon DEF Answered
    <3> QED  BY <1>0, <1>2, <3>1, <3>2, Zenon DEF Answered
  <2>15. Outcome'
    BY <1>0, <1>1, <1>2, <2>8, Zenon DEF Outcome
  <2> QED  BY <2>9, <2>10, <2>11, <2>12, <2>13, <2>14, <2>15, Zenon DEF IInv
<1> QED  BY <1>3, <1>4 DEF NewOperation

(* A call that returns without a frame.                                     *)
LEMMA CallEnds ==
    ASSUME IInv, NEW t \in Task, NEW p \in {"EOF", "failed"},
           UNCHANGED <<conn, opened, accepted, wire, stream, opID, received, served>>,
           callPc[t] \in {"send", "recv"}, CallGoto(t, p),
           p = "EOF" => Len(received[t]) = Replies[t], p = "failed" => conn = "closed"
    PROVE  IInv'
<1>0. TypeOK /\ Numbered /\ Owned /\ Stamped /\ Invoked /\ Answered /\ Outcome
  BY DEF IInv
<1>1. callPc'[t] = p /\ \A u \in Task : u # t => callPc'[u] = callPc[u]
  BY <1>0 DEF CallGoto, TypeOK
<1>2. TypeOK'
  BY <1>0, Zenon DEF TypeOK, CallGoto, Outcomes
<1>3. Numbered' /\ Stamped'
  BY <1>0, SameNumbers, SameFrames
<1>4. Owned'
  BY <1>0, <1>1, SameOwners, Zenon
<1>5. Invoked'
  BY <1>0, ZenonT(60) DEF Invoked
<1>6. Answered'
  BY <1>0, Zenon DEF Answered
<1>7. Outcome'
  BY <1>0, <1>1 DEF Outcome
<1> QED  BY <1>2, <1>3, <1>4, <1>5, <1>6, <1>7, Zenon DEF IInv

(* Sending the INVOKE keeps the invariant.                                  *)
LEMMA SendInvokeIInv ==
    ASSUME IInv, NEW t \in Task, SendInvoke(t)
    PROVE  IInv'
<1> USE OperationAssumption
<1>0. TypeOK /\ Numbered /\ Owned /\ Stamped /\ Invoked /\ Answered /\ Outcome
  BY Zenon DEF IInv
<1>1. UNCHANGED <<conn, opened, accepted, stream, opID, received, served>> /\ callPc[t] = "send"
  BY DEF SendInvoke
<1>2. PICK e \in End, id \in DOMAIN wire :
        e = Opener[t] /\ id = stream[t] /\ id # 0 /\ opID[t] = id /\ Server(id) = Other(e)
  BY <1>0, <1>1, Zenon DEF Owned
<1>3. CASE conn = "closed" /\ CallGoto(t, "failed") /\ UNCHANGED wire
  BY <1>1, <1>3, CallEnds
<1>4. CASE Send(e, id, opID[t], t, 0, TRUE) /\ CallGoto(t, "recv")
  <2>1. opID[t] \in Nat /\ 0 \in Nat /\ TRUE \in BOOLEAN
    BY <1>0, Zenon DEF TypeOK
  <2>12. PICK fr \in Frame : /\ fr = [op |-> opID[t], task |-> t, n |-> 0]
                             /\ fr.op = id /\ stream[fr.task] = id
    <3>1. [op |-> opID[t], task |-> t, n |-> 0] \in Frame
      BY <2>1 DEF Frame
    <3> QED  BY <1>2, <3>1, Zenon
  <2>13. PICK fin \in BOOLEAN : FrameAdded(id, e, fr, fin)
    <3>1. PICK fin \in BOOLEAN : Send(e, id, fr.op, fr.task, fr.n, fin)
      <4>1. fr.op = opID[t] /\ fr.task = t /\ fr.n = 0
        BY <2>12, Zenon
      <4> QED  BY <1>4, <4>1, Zenon
    <3> QED  BY <1>0, <3>1, SendEffect
  <2>2. /\ DOMAIN wire' = DOMAIN wire
        /\ wire' \in [DOMAIN wire -> [End -> Direction]]
        /\ wire'[id][e].frames = Append(wire[id][e].frames, fr)
        /\ \A i \in DOMAIN wire, f \in End : i # id \/ f # e => wire'[i][f] = wire[i][f]
    BY <2>13 DEF FrameAdded
  <2>3. callPc'[t] = "recv" /\ \A u \in Task : u # t => callPc'[u] = callPc[u]
    BY <1>0, <1>4, ZenonT(60) DEF CallGoto, TypeOK
  <2>4. wire[id][e].frames \in Seq(Frame)
    BY <1>0, <1>2 DEF TypeOK, Direction
  <2>5. TypeOK'
    BY <1>0, <1>1, <1>4, <2>2, Zenon DEF TypeOK, CallGoto
  <2>6. Numbered'
    BY <1>0, <1>1, <2>2, SameNumbers
  <2>7. Owned'
    BY <1>0, <1>1, <2>2, <2>3, SameOwners, Zenon
  <2>8. Stamped'
    <3>1. TypeOK /\ Stamped /\ UNCHANGED stream /\ id \in DOMAIN wire /\ e \in End
      BY <1>0, <1>1, <1>2, ZenonT(60)
    <3> QED  BY <3>1, <2>12, <2>13, MoreFrames
  <2>9. Invoked'
    <3>1. ASSUME NEW i \in DOMAIN wire
          PROVE  wire'[i][Other(Server(i))].fin /\ wire'[i][Other(Server(i))].frames = <<>>
                     => i \in DOMAIN served /\ served[i].pc # "recv"
      <4>1. CASE i = id
        <5>1. Other(Server(i)) = e
          BY <1>2, <4>1, Ends, Zenon
        <5>2. wire'[id][e].frames # <<>>
          <6>1. Append(wire[id][e].frames, fr) # <<>>
            <7> DEFINE q == wire[id][e].frames
            <7> HIDE DEF q
            <7>1. q \in Seq(Frame)
              BY <2>4 DEF q
            <7>2. Append(q, fr) # <<>>
              BY <7>1, AppendedIsNotEmpty, Zenon
            <7> QED  BY <7>2 DEF q
          <6> QED  BY <2>2, <6>1, Zenon
        <5> QED  BY <4>1, <5>1, <5>2, Zenon
      <4>2. CASE i # id
        <5>1. wire'[i][Other(Server(i))] = wire[i][Other(Server(i))]
          BY <2>2, <4>2, Ends, Zenon
        <5> QED  BY <1>0, <5>1, Zenon DEF Invoked
      <4> QED  BY <4>1, <4>2, Zenon
    <3> QED  BY <1>0, <1>1, <2>2, <3>1, Zenon DEF Invoked
  <2>10. Answered'
    <3>1. ASSUME NEW u \in Task, stream[u] # 0
          PROVE  wire'[stream[u]][Other(Opener[u])] = wire[stream[u]][Other(Opener[u])]
      <4>1. stream[u] \in DOMAIN wire /\ Other(Opener[u]) \in End
        BY <1>0, <3>1, Ends, Zenon DEF Owned
      <4>2. stream[u] # id \/ Other(Opener[u]) # e
        BY <1>0, <1>2, <3>1, Ends, Zenon DEF Owned
      <4> QED  BY <2>2, <4>1, <4>2
    <3> QED  BY <1>0, <1>1, <3>1, Zenon DEF Answered
  <2>11. Outcome'
    BY <1>0, <1>1, <2>3, Zenon DEF Outcome
  <2> QED  BY <2>5, <2>6, <2>7, <2>8, <2>9, <2>10, <2>11, Zenon DEF IInv
<1> QED  BY <1>2, <1>3, <1>4, Zenon DEF SendInvoke

(* A task takes the next reply from its stream.                             *)
LEMMA FollowsTail ==
    ASSUME NEW t, NEW d \in Direction, NEW d2 \in Direction, NEW rcvd \in Seq(Task \X Nat),
           NEW id, NEW services, NEW x \in Task \X Nat,
           d.frames # <<>>, d2.frames = Tail(d.frames), d2.fin = d.fin,
           Follows(t, d, rcvd, id, services)
    PROVE  /\ Follows(t, d2, Append(rcvd, x), id, services)
           /\ d.frames[1].n = Len(rcvd) + 1
<1> DEFINE q == d.frames
<1> HIDE DEF q
<1>1. q \in Seq(Frame) /\ q # <<>> /\ d2.frames = Tail(q)
  BY Zenon DEF Direction, q
<1>2. /\ Len(Tail(q)) = Len(q) - 1 /\ Len(q) \in Nat
      /\ \A j \in DOMAIN Tail(q) : j \in Nat /\ j + 1 \in DOMAIN q /\ Tail(q)[j] = q[j + 1]
  BY <1>1, TailAt, Zenon
<1>3. Len(Append(rcvd, x)) = Len(rcvd) + 1 /\ Len(rcvd) \in Nat
  OBVIOUS
<1>4. /\ \A i \in DOMAIN q : q[i].n = Len(rcvd) + i
      /\ id \in DOMAIN services /\ Len(rcvd) + Len(q) = services[id].sent
      /\ d.fin => services[id].pc = "done" /\ services[id].sent = Replies[t]
  BY <1>1, Zenon DEF Follows, q
<1>5. 1 \in DOMAIN q
  BY <1>1
<1>6. \A j \in DOMAIN Tail(q) : Tail(q)[j].n = Len(Append(rcvd, x)) + j
  <2> SUFFICES ASSUME NEW j \in DOMAIN Tail(q) PROVE Tail(q)[j].n = Len(Append(rcvd, x)) + j
    BY Zenon
  <2>1. j \in Nat /\ Tail(q)[j] = q[j + 1] /\ q[j + 1].n = Len(rcvd) + (j + 1)
    BY <1>2, <1>4
  <2> QED  BY <1>3, <2>1
<1>7. Len(Append(rcvd, x)) + Len(Tail(q)) = services[id].sent
  <2> DEFINE more == Len(Append(rcvd, x))
             rest == Len(Tail(q))
             l == Len(rcvd)
             m == Len(q)
  <2> HIDE DEF more, rest, l, m
  <2>2. more = l + 1 /\ rest = m - 1 /\ l \in Nat /\ m \in Nat
    BY <1>2, <1>3, Zenon DEF more, rest, l, m
  <2>3. more + rest = l + m
    BY <2>2
  <2>1. Len(Append(rcvd, x)) + Len(Tail(q)) = Len(rcvd) + Len(q)
    BY <2>3, Zenon DEF more, rest, l, m
  <2> QED  BY <1>4, <2>1, Zenon
<1>8. Follows(t, d2, Append(rcvd, x), id, services)
  BY <1>1, <1>4, <1>6, <1>7, ZenonT(60) DEF Follows
<1> QED  BY <1>4, <1>5, <1>8 DEF q

(* A call of Recv keeps the invariant: it returns the next reply of its own *)
(* task.                                                                    *)
LEMMA RecvReplyIInv ==
    ASSUME IInv, NEW t \in Task, RecvReply(t)
    PROVE  IInv'
<1> USE OperationAssumption
<1>0. TypeOK /\ Numbered /\ Owned /\ Stamped /\ Invoked /\ Answered /\ Outcome
  BY ZenonT(60) DEF IInv
<1>1. UNCHANGED <<conn, opened, accepted, stream, opID, served>> /\ callPc[t] = "recv"
  BY DEF RecvReply
<1>2. PICK e \in End, o \in End, id \in DOMAIN wire :
        /\ e = Opener[t] /\ o = Other(e) /\ o # e
        /\ id = stream[t] /\ id # 0 /\ opID[t] = id /\ Server(id) = o
  BY <1>0, <1>1, Ends, Zenon DEF Owned
<1>3. wire[id][o] \in Direction /\ received[t] \in Seq(Task \X Nat)
  BY <1>0, SMTT(30) DEF TypeOK
<1>4. Follows(t, wire[id][o], received[t], id, served)
  <2>1. stream[t] # 0 /\ stream[t] = id /\ Other(Opener[t]) = o
    BY <1>2
  <2>2. Follows(t, wire[stream[t]][Other(Opener[t])], received[t], stream[t], served)
    BY <1>0, <2>1, Zenon DEF Answered
  <2> QED  BY <2>1, <2>2, Zenon
<1>5. CASE Ended(e, id) /\ CallGoto(t, "EOF") /\ UNCHANGED <<wire, received>>
  <2>1. wire[id][o].fin /\ wire[id][o].frames = <<>>
    BY <1>2, <1>5, Zenon DEF Ended, Arrived
  <2>2. Len(received[t]) + Len(wire[id][o].frames) = Replies[t] /\ Len(received[t]) \in Nat
    BY <1>3, <1>4, <2>1 DEF Follows
  <2>3. Len(received[t]) = Replies[t]
    BY <2>1, <2>2
  <2> QED  BY <1>1, <1>5, <2>3, CallEnds, Zenon
<1>6. CASE conn = "closed" /\ CallGoto(t, "failed") /\ UNCHANGED <<wire, received>>
  BY <1>1, <1>6, CallEnds, Zenon
<1>7. CASE /\ Arrived(e, id) /\ TakeFirst(e, id)
           /\ \/ /\ First(e, id).op = opID[t]
                 /\ received' = [received EXCEPT ![t] = Append(@, <<First(e, id).task, First(e, id).n>>)]
                 /\ CallGoto(t, IF Len(received[t]) + 1 = Wants[t] THEN "ok" ELSE "recv")
              \/ First(e, id).op # opID[t]
  <2>1. /\ DOMAIN wire' = DOMAIN wire
        /\ wire' \in [DOMAIN wire -> [End -> Direction]]
        /\ wire'[id][o].frames = Tail(wire[id][o].frames)
        /\ wire'[id][o].fin = wire[id][o].fin
        /\ \A i \in DOMAIN wire, f \in End : i # id \/ f # o => wire'[i][f] = wire[i][f]
        /\ First(e, id) = wire[id][o].frames[1]
        /\ First(e, id) \in Frame
    <3>1. FrameTaken(id, e, o)
      BY <1>0, <1>2, <1>7, TakeEffect, Zenon
    <3> QED  BY <3>1, Zenon DEF FrameTaken
  <2>2. wire[id][o].frames # <<>> /\ wire[id][o].frames \in Seq(Frame)
    BY <1>2, <1>3, <1>7, ZenonT(60) DEF Arrived, Direction
  <2>3. PICK fr \in Frame : /\ fr = First(e, id) /\ fr.op = id /\ stream[fr.task] = id
    <3>1. 1 \in DOMAIN wire[id][o].frames
      BY <2>2
    <3> QED  BY <1>0, <2>1, <3>1 DEF Stamped
  <2>4. fr.task = t /\ fr.n \in Nat
    <3>1. fr.task \in Task /\ fr.n \in Nat
      BY DEF Frame
    <3>2. stream[fr.task] = stream[t] /\ stream[t] # 0
      BY <1>2, <2>3
    <3> QED  BY <1>0, <3>1, <3>2, Zenon DEF Owned
  <2>5. PICK x \in Task \X Nat : x = <<t, fr.n>>
    BY <2>4, Zenon
  <2>6. PICK p \in {"ok", "recv"} :
          /\ CallGoto(t, p) /\ received' = [received EXCEPT ![t] = Append(@, x)]
          /\ p = "recv" => Len(received[t]) + 1 # Wants[t]
    <3>1. First(e, id).op = opID[t]
      BY <1>2, <2>3
    <3>2. x = <<First(e, id).task, First(e, id).n>>
      BY <2>3, <2>4, <2>5, ZenonT(60)
    <3> QED  BY <1>7, <3>1, <3>2, Zenon
  <2>7. /\ Follows(t, wire'[id][o], received'[t], id, served)
        /\ fr.n = Len(received[t]) + 1
        /\ received'[t] = Append(received[t], x)
        /\ \A u \in Task : u # t => received'[u] = received[u]
    <3>1. wire'[id][o] \in Direction
      BY <2>1
    <3>2. received'[t] = Append(received[t], x) /\ \A u \in Task : u # t => received'[u] = received[u]
      BY <1>0, <2>6, Zenon DEF TypeOK
    <3>3. /\ Follows(t, wire'[id][o], Append(received[t], x), id, served)
          /\ wire[id][o].frames[1].n = Len(received[t]) + 1
      <4>1. PICK d \in Direction, d2 \in Direction, rcvd \in Seq(Task \X Nat) :
              d = wire[id][o] /\ d2 = wire'[id][o] /\ rcvd = received[t]
        BY <1>3, <3>1, Zenon
      <4>2. d.frames # <<>> /\ d2.frames = Tail(d.frames) /\ d2.fin = d.fin
        BY <2>1, <2>2, <4>1, Zenon
      <4>3. Follows(t, d, rcvd, id, served)
        BY <1>4, <4>1, Zenon
      <4>4. Follows(t, d2, Append(rcvd, x), id, served) /\ d.frames[1].n = Len(rcvd) + 1
        BY <4>2, <4>3, FollowsTail, SMTT(30)
      <4> QED  BY <4>1, <4>4, Zenon
    <3> QED  BY <2>1, <2>3, <3>2, <3>3, Zenon
  <2>8. callPc'[t] = p /\ \A u \in Task : u # t => callPc'[u] = callPc[u]
    BY <1>0, <2>6 DEF CallGoto, TypeOK
  <2>9. TypeOK'
    <3>1. received' \in [Task -> Seq(Task \X Nat)]
      BY <1>0, <1>3, <2>6 DEF TypeOK
    <3>2. callPc' \in [Task -> {"idle", "send", "recv"} \cup Outcomes]
      BY <1>0, <2>6, Zenon DEF TypeOK, CallGoto, Outcomes
    <3> QED  BY <1>0, <1>1, <2>1, <3>1, <3>2, Zenon DEF TypeOK
  <2>10. Numbered'
    BY <1>0, <1>1, <2>1, SameNumbers, Zenon
  <2>11. Owned'
    BY <1>0, <1>1, <2>1, <2>8, SameOwners, Zenon
  <2>12. Stamped'
    BY <1>0, <1>1, <2>1, <2>2, FewerFrames
  <2>13. Invoked'
    <3>1. ASSUME NEW i \in DOMAIN wire
          PROVE  wire'[i][Other(Server(i))] = wire[i][Other(Server(i))]
      <4>1. Other(Server(i)) \in End /\ (i = id => Other(Server(i)) # o)
        BY <1>2, Ends, Zenon
      <4> QED  BY <2>1, <4>1, ZenonT(60)
    <3> QED  BY <1>0, <1>1, <2>1, <3>1, SameServices, Zenon
  <2>14. Answered'
    <3>1. ASSUME NEW u \in Task, NEW i \in DOMAIN received'[u]
          PROVE  received'[u][i] = <<u, i>>
      <4>1. CASE u # t
        BY <1>0, <2>7, <4>1, ZenonT(60) DEF Answered
      <4>2. CASE u = t
        <5>1. \/ i = Len(received[t]) + 1 /\ received'[t][i] = x
              \/ i \in DOMAIN received[t] /\ received'[t][i] = received[t][i]
          <6>1. PICK rcvd \in Seq(Task \X Nat) : rcvd = received[t] /\ received'[t] = Append(rcvd, x)
            BY <1>3, <2>7, Zenon
          <6>2. i \in DOMAIN Append(rcvd, x)
            BY <4>2, <6>1
          <6>3. \/ i = Len(rcvd) + 1 /\ Append(rcvd, x)[i] = x
                \/ i \in DOMAIN rcvd /\ Append(rcvd, x)[i] = rcvd[i]
            <7> DEFINE S == Task \X Nat
            <7>1. rcvd \in Seq(S) /\ x \in S
              OBVIOUS
            <7> HIDE DEF S
            <7> QED  BY <6>2, <7>1, AppendAt, ZenonT(60)
          <6> QED  BY <6>1, <6>3, Zenon
        <5> QED  BY <1>0, <2>5, <2>7, <4>2, <5>1, Zenon DEF Answered
      <4> QED  BY <4>1, <4>2, Zenon
    <3>2. ASSUME NEW u \in Task, stream[u] # 0
          PROVE  Follows(u, wire'[stream[u]][Other(Opener[u])], received'[u], stream[u], served)
      <4>1. CASE u = t
        BY <1>2, <2>7, <4>1, Zenon
      <4>2. CASE u # t
        <5>1. stream[u] \in DOMAIN wire /\ stream[u] # id /\ Other(Opener[u]) \in End
          BY <1>0, <1>2, <3>2, <4>2, Ends, Zenon DEF Owned
        <5>2. wire'[stream[u]][Other(Opener[u])] = wire[stream[u]][Other(Opener[u])]
          BY <2>1, <5>1
        <5> QED  BY <1>0, <2>7, <3>2, <4>2, <5>2, Zenon DEF Answered
      <4> QED  BY <4>1, <4>2
    <3>3. \A u \in Task : stream[u] = 0 => received'[u] = <<>>
      BY <1>0, <1>2, <2>7, Zenon DEF Answered
    <3> QED  BY <1>1, <3>1, <3>2, <3>3, Zenon DEF Answered
  <2>15. Outcome'
    <3>1. Len(received'[t]) = Len(received[t]) + 1 /\ Len(received[t]) \in Nat
      BY <1>3, <2>7
    <3>2. Len(received[t]) < Wants[t] /\ Wants[t] \in Nat
      BY <1>0, <1>1, Zenon DEF Outcome
    <3>3. p = "recv" => Len(received'[t]) < Wants[t]
      BY <2>6, <3>1, <3>2
    <3> QED  BY <1>0, <1>1, <2>7, <2>8, <3>3, Zenon DEF Outcome
  <2> QED  BY <2>9, <2>10, <2>11, <2>12, <2>13, <2>14, <2>15 DEF IInv
<1> QED  BY <1>2, <1>5, <1>6, <1>7 DEF RecvReply

(* AcceptOperation keeps the invariant: it takes the OpID from the stream.  *)
LEMMA AcceptOperationIInv ==
    ASSUME IInv, NEW e \in End, AcceptOperation(e)
    PROVE  IInv'
<1> USE OperationAssumption
<1>0. TypeOK /\ Numbered /\ Owned /\ Stamped /\ Invoked /\ Answered /\ Outcome
  BY Zenon DEF IInv
<1>1. UNCHANGED <<conn, opened, wire, callPc, stream, opID, received>>
  BY DEF AcceptOperation
<1>2. PICK o \in End, k \in Nat, id \in Nat, new \in Service :
        /\ o = Other(e) /\ k = accepted[o] /\ id = StreamID(o, k)
        /\ new = [pc |-> "recv", op |-> id, task |-> NoTask, sent |-> 0]
  <2>1. Other(e) \in End /\ accepted[Other(e)] \in Nat
    BY <1>0, Ends, Zenon DEF TypeOK
  <2>2. StreamID(Other(e), accepted[Other(e)]) \in Nat
    BY <2>1, StreamIDs, Zenon
  <2>3. \A i \in Nat : [pc |-> "recv", op |-> i, task |-> NoTask, sent |-> 0] \in Service
    BY Zenon DEF Service
  <2> QED  BY <2>1, <2>2, <2>3, Zenon
<1>3. k < opened[o] /\ opened[o] \in Nat
  BY <1>0, <1>2 DEF AcceptOperation, Visible, TypeOK
<1>4. id \in DOMAIN wire /\ id \notin DOMAIN served
  BY <1>0, <1>2, <1>3, SMTT(30) DEF Numbered
<1>5. /\ accepted' = [accepted EXCEPT ![o] = k + 1]
      /\ served' = [i \in DOMAIN served \cup {id} |-> IF i = id THEN new ELSE served[i]]
  BY <1>2, Zenon DEF AcceptOperation
<1>6. /\ DOMAIN served' = DOMAIN served \cup {id}
      /\ served' \in [DOMAIN served \cup {id} -> Service]
      /\ served'[id] = new
      /\ \A i \in DOMAIN served : i # id /\ served'[i] = served[i]
  BY <1>0, <1>4, <1>5 DEF TypeOK
<1>7. TypeOK'
  <2>1. accepted' \in [End -> Nat]
    BY <1>0, <1>5 DEF TypeOK
  <2> QED  BY <1>0, <1>1, <1>6, <2>1, Zenon DEF TypeOK
<1>8. Numbered'
  <2>1. /\ accepted'[o] = k + 1 /\ accepted[o] = k
        /\ \A f \in End : f # o => accepted'[f] = accepted[f]
        /\ \A f \in End : accepted[f] \in Nat
    BY <1>0, <1>2, <1>5, Zenon DEF TypeOK
  <2>2. \A f \in End : accepted'[f] <= opened[f]
    BY <1>0, <1>3, <2>1 DEF Numbered
  <2>3. ASSUME NEW f \in End, NEW n \in Nat
        PROVE  /\ accepted'[f] <= n /\ n < opened[f] => StreamID(f, n) \in DOMAIN wire
               /\ StreamID(f, n) \in DOMAIN served' => n < accepted'[f]
    <3>1. StreamID(f, n) = id => f = o /\ n = k
      BY <1>2, StreamIDsDiffer, SMTT(30)
    <3>2. accepted[f] <= accepted'[f] /\ accepted'[f] \in Nat /\ accepted[f] \in Nat
      BY <2>1
    <3> QED  BY <1>0, <1>6, <2>1, <3>1, <3>2 DEF Numbered
  <2> QED  BY <1>0, <1>1, <1>4, <1>6, <2>2, <2>3, Zenon DEF Numbered
<1>9. Owned' /\ Stamped'
  BY <1>0, <1>1, SameOwners, SameFrames, Zenon
<1>10. Invoked'
  <2>1. ASSUME NEW i \in DOMAIN served'
        PROVE  /\ served'[i].op = i
               /\ served'[i].task # NoTask => stream[served'[i].task] = i
               /\ served'[i].task = NoTask => served'[i].sent = 0 /\ served'[i].pc # "agent"
               /\ served'[i].pc = "recv" => served'[i].task = NoTask
               /\ served'[i].pc = "close" => conn = "closed"
               /\ served'[i].pc = "done" /\ served'[i].task = NoTask => conn = "closed"
    <3>1. CASE i = id
      <4>1. served'[i] = new
        BY <1>6, <3>1, Zenon
      <4>2. new.op = id /\ new.task = NoTask /\ new.sent = 0 /\ new.pc = "recv"
        BY <1>2
      <4> QED  BY <3>1, <4>1, <4>2, Zenon
    <3>2. CASE i \in DOMAIN served
      BY <1>0, <1>6, <3>2, ZenonT(60) DEF Invoked
    <3> QED  BY <1>6, <3>1, <3>2, Zenon
  <2>2. ASSUME NEW i \in DOMAIN wire, wire[i][Other(Server(i))].fin,
               wire[i][Other(Server(i))].frames = <<>>
        PROVE  i \in DOMAIN served' /\ served'[i].pc # "recv"
    BY <1>0, <1>6, <2>2, Zenon DEF Invoked
  <2> QED  BY <1>1, <2>1, <2>2, Zenon DEF Invoked
<1>11. Answered'
  <2>1. ASSUME NEW u \in Task, stream[u] # 0
        PROVE  Follows(u, wire[stream[u]][Other(Opener[u])], received[u], stream[u], served')
    <3>1. PICK d : d = wire[stream[u]][Other(Opener[u])]
      BY Zenon
    <3>2. Follows(u, d, received[u], stream[u], served)
      BY <1>0, <2>1, <3>1, Zenon DEF Answered
    <3>3. CASE stream[u] = id
      <4>1. received[u] = <<>> /\ d.frames = <<>> /\ ~d.fin
        BY <1>4, <3>2, <3>3, Zenon DEF Follows
      <4>2. stream[u] \in DOMAIN served' /\ served'[stream[u]].sent = 0
        BY <1>2, <1>6, <3>3
      <4> QED  BY <3>1, <4>1, <4>2, SMTT(30) DEF Follows
    <3>4. CASE stream[u] # id
      <4>1. /\ stream[u] \in DOMAIN served' <=> stream[u] \in DOMAIN served
            /\ stream[u] \in DOMAIN served => served'[stream[u]] = served[stream[u]]
        BY <1>6, <3>4, Zenon
      <4> QED  BY <3>1, <3>2, <4>1, Zenon DEF Follows
    <3> QED  BY <3>3, <3>4, Zenon
  <2> QED  BY <1>0, <1>1, <2>1, ZenonT(60) DEF Answered
<1>12. Outcome'
  BY <1>0, <1>1 DEF Outcome
<1> QED  BY <1>7, <1>8, <1>9, <1>10, <1>11, <1>12, Zenon DEF IInv

(* ServeGoto changes where one service is.                                  *)
LEMMA GotoEffect ==
    ASSUME TypeOK, NEW id \in DOMAIN served, NEW p \in {"close", "done"}, ServeGoto(id, p)
    PROVE  /\ DOMAIN served' = DOMAIN served
           /\ served' \in [DOMAIN served -> Service]
           /\ served'[id].pc = p /\ served'[id].op = served[id].op
           /\ served'[id].task = served[id].task /\ served'[id].sent = served[id].sent
           /\ \A i \in DOMAIN served : i # id => served'[i] = served[i]
BY Zenon DEF TypeOK, ServeGoto, Service

(* A step of the service of one stream.                                     *)
LEMMA AnsweredStep ==
    ASSUME Numbered, Owned, Answered, UNCHANGED <<stream, received>>, NEW id \in DOMAIN served,
           DOMAIN served' = DOMAIN served,
           \A i \in DOMAIN served : i # id => served'[i] = served[i],
           \A i \in DOMAIN wire : i # id => wire'[i][Server(i)] = wire[i][Server(i)],
           \A u \in Task : stream[u] = id =>
               Follows(u, wire'[id][Server(id)], received[u], id, served')
    PROVE  Answered'
<1>1. ASSUME NEW u \in Task, stream[u] # 0
      PROVE  Follows(u, wire'[stream[u]][Other(Opener[u])], received[u], stream[u], served')
  <2>1. stream[u] \in DOMAIN wire /\ Server(stream[u]) = Other(Opener[u])
    BY <1>1, ZenonT(60) DEF Owned
  <2>2. CASE stream[u] = id
    BY <2>1, <2>2, Zenon
  <2>3. CASE stream[u] # id
    <3>1. PICK d : d = wire[stream[u]][Other(Opener[u])] /\ d = wire'[stream[u]][Other(Opener[u])]
      BY <2>1, <2>3
    <3>2. Follows(u, d, received[u], stream[u], served)
      BY <1>1, <3>1, Zenon DEF Answered
    <3>3. Follows(u, d, received[u], stream[u], served')
      BY <2>3, <3>2, Zenon DEF Follows
    <3> QED  BY <3>1, <3>3, ZenonT(60)
  <2> QED  BY <2>2, <2>3, Zenon
<1> QED  BY <1>1 DEF Answered

(* A step of one service, and of its stream only, keeps Invoked.            *)
LEMMA InvokedStep ==
    ASSUME Invoked, UNCHANGED <<conn, stream>>, NEW id \in DOMAIN served,
           DOMAIN wire' = DOMAIN wire, DOMAIN served' = DOMAIN served,
           \A i \in DOMAIN served : i # id => served'[i] = served[i],
           \A i \in DOMAIN wire : i # id => wire'[i][Other(Server(i))] = wire[i][Other(Server(i))],
           served'[id].op = id, served'[id].pc # "recv",
           served'[id].task # NoTask => stream[served'[id].task] = id,
           served'[id].task = NoTask => served'[id].sent = 0 /\ served'[id].pc # "agent",
           served'[id].pc = "close" => conn = "closed",
           served'[id].pc = "done" /\ served'[id].task = NoTask => conn = "closed"
    PROVE  Invoked'
<1>1. ASSUME NEW i \in DOMAIN served
      PROVE  /\ served'[i].op = i
             /\ served'[i].task # NoTask => stream[served'[i].task] = i
             /\ served'[i].task = NoTask => served'[i].sent = 0 /\ served'[i].pc # "agent"
             /\ served'[i].pc = "recv" => served'[i].task = NoTask
             /\ served'[i].pc = "close" => conn = "closed"
             /\ served'[i].pc = "done" /\ served'[i].task = NoTask => conn = "closed"
  <2>1. CASE i = id
    BY <2>1, Zenon
  <2>2. CASE i # id
    BY <2>2, SMTT(30) DEF Invoked
  <2> QED  BY <2>1, <2>2, Zenon
<1>2. ASSUME NEW i \in DOMAIN wire, wire'[i][Other(Server(i))].fin,
             wire'[i][Other(Server(i))].frames = <<>>
      PROVE  i \in DOMAIN served /\ served'[i].pc # "recv"
  <2>1. CASE i = id
    BY <2>1, Zenon
  <2>2. CASE i # id
    BY <1>2, <2>2, ZenonT(60) DEF Invoked
  <2> QED  BY <2>1, <2>2
<1> QED  BY <1>1, <1>2, Zenon DEF Invoked

(* Closing the stream of a service keeps the invariant.                     *)
LEMMA ServerClosesIInv ==
    ASSUME IInv, NEW id \in DOMAIN served, ServerCloses(id)
    PROVE  IInv'
<1> USE OperationAssumption
<1>0. TypeOK /\ Numbered /\ Owned /\ Stamped /\ Invoked /\ Answered /\ Outcome
  BY Zenon DEF IInv
<1>1. UNCHANGED <<conn, opened, accepted, callPc, stream, opID, received>>
  BY Zenon DEF ServerCloses
<1>2. id \in DOMAIN wire /\ id # 0 /\ Server(id) \in End /\ Other(Server(id)) # Server(id)
  BY <1>0, Ends DEF Numbered
<1>3. /\ DOMAIN wire' = DOMAIN wire
      /\ wire' \in [DOMAIN wire -> [End -> Direction]]
      /\ \A i \in DOMAIN wire, f \in End : wire'[i][f].frames = wire[i][f].frames
      /\ \A i \in DOMAIN wire, f \in End : i # id \/ f # Server(id) => wire'[i][f] = wire[i][f]
      /\ conn = "closed" => wire' = wire
  BY <1>0, <1>2, CloseEffect, Zenon DEF ServerCloses
<1>4. /\ DOMAIN served' = DOMAIN served
      /\ served' \in [DOMAIN served -> Service]
      /\ served'[id].pc = "done" /\ served'[id].op = served[id].op
      /\ served'[id].task = served[id].task /\ served'[id].sent = served[id].sent
      /\ \A i \in DOMAIN served : i # id => served'[i] = served[i]
  BY <1>0, GotoEffect, Zenon DEF ServerCloses
<1>5. \/ conn = "closed"
      \/ served[id].task \in Task /\ served[id].sent = Replies[served[id].task]
  BY <1>0, ZenonT(60) DEF ServerCloses, AgentReturned, Invoked, TypeOK, Service
<1>6. TypeOK'
  BY <1>0, <1>1, <1>3, <1>4, Zenon DEF TypeOK
<1>7. Numbered' /\ Owned' /\ Stamped'
  BY <1>0, <1>1, <1>3, <1>4, SameNumbers, SameOwners, SameFrames, Zenon
<1>8. Invoked'
  <2>1. \A i \in DOMAIN wire : i # id => wire'[i][Other(Server(i))] = wire[i][Other(Server(i))]
    BY <1>3, Ends, Zenon
  <2>2. /\ served[id].op = id
        /\ served[id].task # NoTask => stream[served[id].task] = id
        /\ served[id].task = NoTask => served[id].sent = 0
    BY <1>0, Zenon DEF Invoked
  <2>3. served[id].task = NoTask => conn = "closed"
    BY <1>5
  <2> QED  BY <1>0, <1>1, <1>3, <1>4, <2>1, <2>2, <2>3, InvokedStep, ZenonT(60)
<1>9. Answered'
  <2>1. \A i \in DOMAIN wire : i # id => wire'[i][Server(i)] = wire[i][Server(i)]
    BY <1>3, Ends, Zenon
  <2>2. ASSUME NEW u \in Task, stream[u] = id
        PROVE  Follows(u, wire'[id][Server(id)], received[u], id, served')
    <3>1. PICK d, d2 : d = wire[id][Server(id)] /\ d2 = wire'[id][Server(id)]
      OBVIOUS
    <3>2. Follows(u, d, received[u], id, served)
      BY <1>0, <1>2, <2>2, <3>1, Zenon DEF Answered, Owned
    <3>3. d2.frames = d.frames
      BY <1>2, <1>3, <3>1
    <3>4. CASE conn = "closed"
      <4>1. d2 = d
        BY <1>3, <3>1, <3>4
      <4> QED  BY <1>4, <3>1, <3>2, <4>1, ZenonT(60) DEF Follows
    <3>5. CASE served[id].task \in Task /\ served[id].sent = Replies[served[id].task]
      <4>1. stream[served[id].task] = id
        BY <1>0, <3>5, Zenon DEF Invoked
      <4>2. served[id].task = u
        BY <1>0, <1>2, <2>2, <3>5, <4>1, ZenonT(60) DEF Owned
      <4> QED  BY <1>4, <3>1, <3>2, <3>3, <3>5, <4>2, Zenon DEF Follows
    <3> QED  BY <1>5, <3>4, <3>5, Zenon
  <2> QED  BY <1>0, <1>1, <1>4, <2>1, <2>2, AnsweredStep, Zenon
<1>10. Outcome'
  BY <1>0, <1>1, Zenon DEF Outcome
<1> QED  BY <1>6, <1>7, <1>8, <1>9, <1>10, Zenon DEF IInv

(* A service that notices the closed connection and goes on to its close.   *)
LEMMA ServiceGivesUp ==
    ASSUME IInv, NEW id \in DOMAIN served, conn = "closed", ServeGoto(id, "close"),
           served[id].pc \in {"recv", "agent"},
           UNCHANGED <<conn, opened, accepted, wire, callPc, stream, opID, received>>
    PROVE  IInv'
<1> USE OperationAssumption
<1>0. TypeOK /\ Numbered /\ Owned /\ Stamped /\ Invoked /\ Answered /\ Outcome
  BY Zenon DEF IInv
<1>1. /\ DOMAIN served' = DOMAIN served
      /\ served' \in [DOMAIN served -> Service]
      /\ served'[id].pc = "close" /\ served'[id].op = served[id].op
      /\ served'[id].task = served[id].task /\ served'[id].sent = served[id].sent
      /\ \A i \in DOMAIN served : i # id => served'[i] = served[i]
  BY <1>0, GotoEffect
<1>2. TypeOK'
  BY <1>0, <1>1, Zenon DEF TypeOK
<1>3. Numbered' /\ Owned' /\ Stamped'
  BY <1>0, <1>1, SameNumbers, SameOwners, SameFrames, ZenonT(60)
<1>4. Invoked'
  <2>1. /\ served[id].op = id
        /\ served[id].task # NoTask => stream[served[id].task] = id
        /\ served[id].task = NoTask => served[id].sent = 0
    BY <1>0, Zenon DEF Invoked
  <2> QED  BY <1>0, <1>1, <2>1, InvokedStep
<1>5. Answered'
  <2>1. ASSUME NEW u \in Task, stream[u] = id
        PROVE  Follows(u, wire[id][Server(id)], received[u], id, served')
    <3>1. PICK d : d = wire[id][Server(id)]
      BY Zenon
    <3>2. Follows(u, d, received[u], id, served)
      BY <1>0, <2>1, <3>1, ZenonT(60) DEF Answered, Owned, Numbered
    <3> QED  BY <1>1, <3>1, <3>2, Zenon DEF Follows
  <2> QED  BY <1>0, <1>1, <2>1, AnsweredStep, Zenon
<1>6. Outcome'
  BY <1>0, Zenon DEF Outcome
<1> QED  BY <1>2, <1>3, <1>4, <1>5, <1>6, Zenon DEF IInv

(* Receiving the INVOKE keeps the invariant.                                *)
LEMMA RecvInvokeIInv ==
    ASSUME IInv, NEW id \in DOMAIN served, RecvInvoke(id)
    PROVE  IInv'
<1> USE OperationAssumption
<1>0. TypeOK /\ Numbered /\ Owned /\ Stamped /\ Invoked /\ Answered /\ Outcome
  BY DEF IInv
<1>1. UNCHANGED <<conn, opened, accepted, callPc, stream, opID, received>> /\ served[id].pc = "recv"
  BY DEF RecvInvoke
<1>2. PICK e \in End, o \in End : e = Server(id) /\ o = Other(e) /\ o # e
  BY Ends
<1>3. /\ id \in DOMAIN wire /\ id # 0
      /\ served[id].op = id /\ served[id].task = NoTask /\ served[id].sent = 0
  BY <1>0, <1>1, ZenonT(60) DEF Numbered, Invoked
<1>4. CASE (Ended(e, id) \/ conn = "closed") /\ ServeGoto(id, "close") /\ UNCHANGED wire
  <2>1. ~Ended(e, id)
    BY <1>0, <1>1, <1>2, <1>3, Zenon DEF Invoked, Ended, Arrived
  <2> QED  BY <1>1, <1>4, <2>1, ServiceGivesUp
<1>5. CASE /\ Arrived(e, id) /\ TakeFirst(e, id)
           /\ \/ /\ First(e, id).op = served[id].op
                 /\ served' = [served EXCEPT ![id] = [@ EXCEPT !.pc = "agent", !.task = First(e, id).task]]
              \/ First(e, id).op # served[id].op
  <2>1. /\ DOMAIN wire' = DOMAIN wire
        /\ wire' \in [DOMAIN wire -> [End -> Direction]]
        /\ wire'[id][o].frames = Tail(wire[id][o].frames)
        /\ \A i \in DOMAIN wire, f \in End : i # id \/ f # o => wire'[i][f] = wire[i][f]
        /\ First(e, id) = wire[id][o].frames[1]
        /\ First(e, id) \in Frame
    <3>1. FrameTaken(id, e, o)
      BY <1>0, <1>2, <1>3, <1>5, TakeEffect, Zenon
    <3> QED  BY <3>1, Zenon DEF FrameTaken
  <2>2. wire[id][o].frames # <<>> /\ wire[id][o].frames \in Seq(Frame)
    BY <1>0, <1>2, <1>3, <1>5 DEF Arrived, Direction, TypeOK
  <2>3. PICK fr \in Frame : fr = First(e, id) /\ fr.op = id /\ stream[fr.task] = id
    <3>0. ASSUME NEW q \in Seq(Frame), q # <<>> PROVE 1 \in DOMAIN q
      BY <3>0
    <3>1. 1 \in DOMAIN wire[id][o].frames
      BY <2>2, <3>0, Zenon
    <3>2. wire[id][o].frames[1].op = id /\ stream[wire[id][o].frames[1].task] = id
      BY <1>0, <1>3, <3>1, Zenon DEF Stamped
    <3> QED  BY <2>1, <3>2, Zenon
  <2>4. PICK task \in Task : task = fr.task /\ stream[task] = id
    BY <2>3 DEF Frame
  <2>5. served' = [served EXCEPT ![id] = [@ EXCEPT !.pc = "agent", !.task = task]]
    BY <1>3, <1>5, <2>3, <2>4
  <2>6. /\ DOMAIN served' = DOMAIN served
        /\ served' \in [DOMAIN served -> Service]
        /\ served'[id].pc = "agent" /\ served'[id].op = served[id].op
        /\ served'[id].task = task /\ served'[id].sent = served[id].sent
        /\ \A i \in DOMAIN served : i # id => served'[i] = served[i]
    <3>1. PICK old \in Service : old = served[id]
      BY <1>0 DEF TypeOK
    <3>2. PICK new \in Service : /\ new = [old EXCEPT !.pc = "agent", !.task = task]
                                 /\ new.pc = "agent" /\ new.task = task
                                 /\ new.op = old.op /\ new.sent = old.sent
      <4>1. [old EXCEPT !.pc = "agent", !.task = task] \in Service
        BY Zenon DEF Service
      <4>2. /\ [old EXCEPT !.pc = "agent", !.task = task].pc = "agent"
            /\ [old EXCEPT !.pc = "agent", !.task = task].task = task
            /\ [old EXCEPT !.pc = "agent", !.task = task].op = old.op
            /\ [old EXCEPT !.pc = "agent", !.task = task].sent = old.sent
        BY DEF Service
      <4> QED  BY <4>1, <4>2, Zenon
    <3>3. served' = [served EXCEPT ![id] = new]
      BY <2>5, <3>1, <3>2
    <3> QED  BY <1>0, <3>1, <3>2, <3>3, Zenon DEF TypeOK
  <2>7. TypeOK'
    BY <1>0, <1>1, <2>1, <2>6, Zenon DEF TypeOK
  <2>8. Numbered' /\ Owned'
    BY <1>0, <1>1, <2>1, <2>6, SameNumbers, SameOwners, ZenonT(60)
  <2>9. Stamped'
    <3>1. TypeOK /\ Stamped /\ UNCHANGED stream /\ id \in DOMAIN wire /\ o \in End
      BY <1>0, <1>1, <1>3, ZenonT(60)
    <3>2. /\ DOMAIN wire' = DOMAIN wire /\ wire[id][o].frames # <<>>
          /\ wire'[id][o].frames = Tail(wire[id][o].frames)
          /\ \A i \in DOMAIN wire, f \in End : i # id \/ f # o => wire'[i][f] = wire[i][f]
      BY <2>1, <2>2
    <3> QED
      BY <3>1, <3>2, FewerFrames, SMTT(30)
  <2>10. Invoked'
    <3>1. \A i \in DOMAIN wire : i # id => wire'[i][Other(Server(i))] = wire[i][Other(Server(i))]
      BY <2>1, Ends, Zenon
    <3>2. served'[id].op = id /\ served'[id].task # NoTask /\ stream[served'[id].task] = id
      BY <1>3, <2>4, <2>6, Zenon
    <3> QED  BY <1>0, <1>1, <2>1, <2>6, <3>1, <3>2, InvokedStep, Zenon
  <2>11. Answered'
    <3>1. \A i \in DOMAIN wire : wire'[i][Server(i)] = wire[i][Server(i)]
      <4> SUFFICES ASSUME NEW i \in DOMAIN wire PROVE wire'[i][Server(i)] = wire[i][Server(i)]
        BY Zenon
      <4>1. Server(i) \in End /\ (i # id \/ Server(i) # o)
        BY <1>2, Ends
      <4> QED  BY <2>1, <4>1, ZenonT(60)
    <3>2. ASSUME NEW u \in Task, stream[u] = id
          PROVE  Follows(u, wire'[id][Server(id)], received[u], id, served')
      <4>1. PICK d : d = wire[id][Server(id)] /\ d = wire'[id][Server(id)]
        BY <1>3, <3>1, Zenon
      <4>2. Follows(u, d, received[u], id, served)
        <5>1. Server(id) = Other(Opener[u])
          BY <1>0, <1>3, <3>2, Zenon DEF Owned
        <5>2. Follows(u, wire[stream[u]][Other(Opener[u])], received[u], stream[u], served)
          BY <1>0, <1>3, <3>2, Zenon DEF Answered
        <5> QED  BY <3>2, <4>1, <5>1, <5>2, Zenon
      <4>3. ~d.fin
        BY <1>1, <4>2 DEF Follows
      <4> QED  BY <2>6, <4>1, <4>2, <4>3, Zenon DEF Follows
    <3> QED  BY <1>0, <1>1, <2>6, <3>1, <3>2, AnsweredStep, Zenon
  <2>12. Outcome'
    BY <1>0, <1>1, Zenon DEF Outcome
  <2> QED  BY <2>7, <2>8, <2>9, <2>10, <2>11, <2>12 DEF IInv
<1> QED  BY <1>2, <1>4, <1>5 DEF RecvInvoke

(* The agent puts the next reply on its stream.                             *)
LEMMA FollowsAppend ==
    ASSUME NEW t, NEW d \in Direction, NEW d2 \in Direction, NEW rcvd \in Seq(Task \X Nat),
           NEW id, NEW services, NEW services2, NEW fr \in Frame,
           id \in DOMAIN services, id \in DOMAIN services2,
           services2[id].sent = services[id].sent + 1, services[id].sent \in Nat,
           d2.frames = Append(d.frames, fr), ~d2.fin, fr.n = services[id].sent + 1,
           Follows(t, d, rcvd, id, services)
    PROVE  Follows(t, d2, rcvd, id, services2)
<1>1. PICK q \in Seq(Frame) : q = d.frames /\ d2.frames = Append(q, fr)
  BY DEF Direction
<1>2. PICK k \in Nat, l \in Nat : k = Len(rcvd) /\ l = Len(q)
  <2>1. Len(rcvd) \in Nat /\ Len(q) \in Nat
    BY SMTT(30)
  <2> QED  BY <2>1, Zenon
<1>3. /\ \A i \in DOMAIN q : q[i].n = k + i
      /\ k + l = services[id].sent
  BY <1>1, <1>2, Zenon DEF Follows
<1>4. /\ Len(Append(q, fr)) = l + 1
      /\ \A j \in DOMAIN Append(q, fr) :
           \/ j = l + 1 /\ Append(q, fr)[j] = fr
           \/ j \in DOMAIN q /\ Append(q, fr)[j] = q[j]
  BY <1>2, AppendAt
<1>5. PICK q2 : q2 = Append(q, fr)
  BY Zenon
<1>6. \A j \in DOMAIN q2 : q2[j].n = k + j
  <2> SUFFICES ASSUME NEW j \in DOMAIN q2 PROVE q2[j].n = k + j
    BY Zenon
  <2>1. CASE j = l + 1 /\ q2[j] = fr
    BY <1>3, <2>1
  <2>2. CASE j \in DOMAIN q /\ q2[j] = q[j]
    BY <1>3, <2>2, ZenonT(60)
  <2> QED  BY <1>4, <1>5, <2>1, <2>2, Zenon
<1>7. Len(q2) = l + 1 /\ k + (l + 1) = services2[id].sent
  BY <1>3, <1>4, <1>5
<1> QED  BY <1>1, <1>2, <1>5, <1>6, <1>7, ZenonT(60) DEF Follows

(* A reply of the agent keeps the invariant.                                *)
LEMMA AgentSendsIInv ==
    ASSUME IInv, NEW id \in DOMAIN served, AgentSends(id)
    PROVE  IInv'
<1> USE OperationAssumption
<1>0. TypeOK /\ Numbered /\ Owned /\ Stamped /\ Invoked /\ Answered /\ Outcome
  BY DEF IInv
<1>1. UNCHANGED <<conn, opened, accepted, callPc, stream, opID, received>> /\ served[id].pc = "agent"
  BY DEF AgentSends
<1>2. PICK e \in End : e = Server(id) /\ Other(e) # e
  BY Ends, ZenonT(60)
<1>3. /\ id \in DOMAIN wire /\ id # 0
      /\ served[id].op = id /\ served[id].task # NoTask /\ stream[served[id].task] = id
      /\ served[id].task \in Task /\ served[id].sent \in Nat /\ id \in Nat
  BY <1>0, <1>1 DEF Numbered, Invoked, TypeOK, Service
<1>4. CASE conn = "closed" /\ ServeGoto(id, "close") /\ UNCHANGED wire
  BY <1>1, <1>4, ServiceGivesUp
<1>5. CASE /\ Send(e, id, served[id].op, served[id].task, served[id].sent + 1, FALSE)
           /\ served' = [served EXCEPT ![id].sent = @ + 1]
  <2>1. PICK task \in Task, n \in Nat :
          task = served[id].task /\ n = served[id].sent + 1 /\ stream[task] = id
    BY <1>3
  <2>2. PICK fr \in Frame : /\ fr = [op |-> id, task |-> task, n |-> n]
                            /\ fr.op = id /\ stream[fr.task] = id /\ fr.n = n
    <3>1. [op |-> id, task |-> task, n |-> n] \in Frame
      BY <1>3, Zenon DEF Frame
    <3> QED  BY <2>1, <3>1, Zenon
  <2>12. PICK fin \in BOOLEAN : fin = FALSE /\ FrameAdded(id, e, fr, fin)
    <3>1. PICK fin \in BOOLEAN : fin = FALSE /\ Send(e, id, fr.op, fr.task, fr.n, fin)
      <4>1. fr.op = id /\ fr.task = task /\ fr.n = n
        BY <2>2, Zenon
      <4> QED  BY <1>3, <1>5, <2>1, <4>1, ZenonT(60)
    <3>2. TypeOK /\ id \in DOMAIN wire /\ Send(e, id, fr.op, fr.task, fr.n, fin)
      BY <1>0, <1>3, <3>1, Zenon
    <3>3. FrameAdded(id, e, fr, fin)
      BY <3>2, SendEffect, SMTT(30)
    <3> QED  BY <3>1, <3>3
  <2>3. /\ DOMAIN wire' = DOMAIN wire
        /\ wire' \in [DOMAIN wire -> [End -> Direction]]
        /\ wire'[id][e].frames = Append(wire[id][e].frames, fr)
        /\ ~wire'[id][e].fin
        /\ \A i \in DOMAIN wire, f \in End : i # id \/ f # e => wire'[i][f] = wire[i][f]
    BY <2>12 DEF FrameAdded
  <2>4. /\ DOMAIN served' = DOMAIN served
        /\ served' \in [DOMAIN served -> Service]
        /\ served'[id].pc = "agent" /\ served'[id].op = id
        /\ served'[id].task = task /\ served'[id].sent = n
        /\ \A i \in DOMAIN served : i # id => served'[i] = served[i]
    <3>1. PICK old \in Service : old = served[id]
      BY <1>0 DEF TypeOK
    <3>2. PICK new \in Service : /\ new = [old EXCEPT !.sent = n] /\ new.sent = n
                                 /\ new.op = old.op /\ new.task = old.task /\ new.pc = old.pc
      <4>1. [old EXCEPT !.sent = n] \in Service
        BY DEF Service
      <4>2. /\ [old EXCEPT !.sent = n].sent = n
            /\ [old EXCEPT !.sent = n].op = old.op
            /\ [old EXCEPT !.sent = n].task = old.task
            /\ [old EXCEPT !.sent = n].pc = old.pc
        BY DEF Service
      <4> QED  BY <4>1, <4>2, Zenon
    <3>3. served' = [served EXCEPT ![id] = new]
      BY <1>5, <2>1, <3>1, <3>2, Zenon
    <3> QED  BY <1>0, <1>1, <1>3, <2>1, <3>1, <3>2, <3>3, Zenon DEF TypeOK
  <2>5. TypeOK'
    BY <1>0, <1>1, <2>3, <2>4, Zenon DEF TypeOK
  <2>6. Numbered' /\ Owned'
    BY <1>0, <1>1, <2>3, <2>4, SameNumbers, SameOwners, ZenonT(60)
  <2>7. Stamped'
    <3>1. TypeOK /\ Stamped /\ UNCHANGED stream /\ id \in DOMAIN wire
      BY <1>0, <1>1, <1>3, ZenonT(60)
    <3>2. fr.op = id /\ stream[fr.task] = id
      BY <2>2, Zenon
    <3> QED  BY <3>1, <3>2, <2>12, MoreFrames, Zenon
  <2>8. Invoked'
    <3>1. \A i \in DOMAIN wire : i # id => wire'[i][Other(Server(i))] = wire[i][Other(Server(i))]
      BY <2>3, Ends, Zenon
    <3>2. served'[id].op = id /\ served'[id].task # NoTask /\ stream[served'[id].task] = id
      BY <2>1, <2>4, Zenon
    <3> QED  BY <1>0, <1>1, <2>3, <2>4, <3>1, <3>2, InvokedStep, Zenon
  <2>9. Answered'
    <3>1. \A i \in DOMAIN wire : i # id => wire'[i][Server(i)] = wire[i][Server(i)]
      BY <2>3, Ends, ZenonT(60)
    <3>2. ASSUME NEW u \in Task, stream[u] = id
          PROVE  Follows(u, wire'[id][e], received[u], id, served')
      <4>1. PICK d \in Direction, d2 \in Direction, rcvd \in Seq(Task \X Nat) :
              d = wire[id][e] /\ d2 = wire'[id][e] /\ rcvd = received[u]
        <5>1. wire[id][e] \in Direction
          BY <1>0, <1>3 DEF TypeOK
        <5>3. received[u] \in Seq(Task \X Nat)
          BY <1>0, Zenon DEF TypeOK
        <5>2. wire'[id][e] \in Direction
          <6>1. wire' \in [DOMAIN wire -> [End -> Direction]] /\ id \in DOMAIN wire
            BY <1>3, <2>3, Zenon
          <6>2. wire'[id] \in [End -> Direction]
            BY <6>1, Zenon
          <6> QED  BY <1>3, <6>2, Zenon
        <5> QED  BY <5>1, <5>2, <5>3, Zenon
      <4>2. Follows(u, d, rcvd, id, served)
        <5>1. e = Other(Opener[u])
          BY <1>0, <1>2, <1>3, <3>2, Zenon DEF Owned
        <5>2. Follows(u, wire[stream[u]][Other(Opener[u])], received[u], stream[u], served)
          BY <1>0, <1>3, <3>2, ZenonT(60) DEF Answered
        <5> QED  BY <3>2, <4>1, <5>1, <5>2, Zenon
      <4>3. d2.frames = Append(d.frames, fr) /\ ~d2.fin
        BY <2>3, <4>1, ZenonT(60)
      <4>4. /\ id \in DOMAIN served' /\ served'[id].sent = served[id].sent + 1
            /\ fr.n = served[id].sent + 1
        BY <2>1, <2>2, <2>4, Zenon
      <4>5. Follows(u, d2, rcvd, id, served')
        BY <1>3, <4>2, <4>3, <4>4, FollowsAppend, Zenon
      <4> QED  BY <4>1, <4>5, ZenonT(60)
    <3> QED  BY <1>0, <1>1, <1>2, <2>4, <3>1, <3>2, AnsweredStep, Zenon
  <2>10. Outcome'
    BY <1>0, <1>1, Zenon DEF Outcome
  <2> QED  BY <2>5, <2>6, <2>7, <2>8, <2>9, <2>10, Zenon DEF IInv
<1> QED  BY <1>2, <1>4, <1>5, Zenon DEF AgentSends

(* Losing the connection keeps the invariant.                               *)
LEMMA ConnClosesIInv ==
    ASSUME IInv, ConnCloses
    PROVE  IInv'
<1>0. TypeOK /\ Numbered /\ Owned /\ Stamped /\ Invoked /\ Answered /\ Outcome
  BY DEF IInv
<1>1. /\ conn' = "closed"
      /\ UNCHANGED <<opened, accepted, wire, callPc, stream, opID, received, served>>
  BY Zenon DEF ConnCloses
<1>2. TypeOK'
  BY <1>0, <1>1, Zenon DEF TypeOK
<1>3. Numbered' /\ Owned' /\ Stamped'
  BY <1>0, <1>1, SameNumbers, SameOwners, SameFrames
<1>4. Invoked'
  BY <1>0, <1>1, Zenon DEF Invoked
<1>5. Answered'
  BY <1>0, <1>1, Zenon DEF Answered
<1>6. Outcome'
  BY <1>0, <1>1, Zenon DEF Outcome
<1> QED  BY <1>2, <1>3, <1>4, <1>5, <1>6 DEF IInv

(* So does a step of something else.                                        *)
LEMMA StutterIInv ==
    ASSUME IInv, UNCHANGED opVars
    PROVE  IInv'
<1>0. TypeOK /\ Numbered /\ Owned /\ Stamped /\ Invoked /\ Answered /\ Outcome
  BY Zenon DEF IInv
<1>1. UNCHANGED <<conn, opened, accepted, wire, callPc, stream, opID, received, served>>
  BY Zenon DEF opVars
<1>2. TypeOK'
  BY <1>0, <1>1, Zenon DEF TypeOK
<1>3. Numbered' /\ Owned' /\ Stamped'
  BY <1>0, <1>1, SameNumbers, SameOwners, SameFrames, Zenon
<1>4. Invoked'
  BY <1>0, <1>1, SameServices, Zenon
<1>5. Answered'
  BY <1>0, <1>1, Zenon DEF Answered
<1>6. Outcome'
  BY <1>0, <1>1, Zenon DEF Outcome
<1> QED  BY <1>2, <1>3, <1>4, <1>5, <1>6, Zenon DEF IInv

(* Every step keeps the invariant.                                          *)
LEMMA NextIInv == IInv /\ [OpNext]_opVars => IInv'
<1> SUFFICES ASSUME IInv, [OpNext]_opVars PROVE IInv'
  BY Zenon
<1>1. ASSUME NEW t \in Task, Caller(t) PROVE IInv'
  BY <1>1, NewOperationIInv, SendInvokeIInv, RecvReplyIInv, Zenon DEF Caller
<1>2. ASSUME NEW e \in End, AcceptOperation(e) PROVE IInv'
  BY <1>2, AcceptOperationIInv, Zenon
<1>3. ASSUME NEW id \in DOMAIN served, Serve(id) PROVE IInv'
  BY <1>3, RecvInvokeIInv, AgentSendsIInv, ServerClosesIInv, Zenon DEF Serve
<1>4. CASE ConnCloses
  BY <1>4, ConnClosesIInv, Zenon
<1>5. CASE UNCHANGED opVars
  BY <1>5, StutterIInv
<1> QED  BY <1>1, <1>2, <1>3, <1>4, <1>5, Zenon DEF OpNext

(* The invariant of the operations holds in every state.                    *)
LEMMA Invariance == OpSpec => []IInv
<1>1. OpInit => IInv
  BY InitIInv, Zenon
<1>2. IInv /\ [OpNext]_opVars => IInv'
  BY NextIInv, ZenonT(60)
<1> QED  BY <1>1, <1>2, PTL DEF OpSpec

(* The invariant says that operations are kept apart.                       *)
LEMMA IInvSeparates == IInv => OperationsAreSeparate
<1> SUFFICES ASSUME IInv PROVE OperationsAreSeparate
  OBVIOUS
<1>0. TypeOK /\ Numbered /\ Owned /\ Stamped /\ Invoked /\ Answered /\ Outcome
  BY DEF IInv
<1>1. \A t \in Task : callPc[t] # "ErrProtocolViolation"
  BY <1>0, Zenon DEF Outcome
<1>2. ASSUME NEW t \in Task, stream[t] # 0, NEW u \in Task \ {t}
      PROVE  opID[t] \notin {0, opID[u]}
  <2>1. opID[t] = stream[t] /\ (stream[u] = 0 => opID[u] = 0) /\ (stream[u] # 0 => opID[u] = stream[u])
    BY <1>0, <1>2, Zenon DEF Owned
  <2>2. stream[u] # stream[t]
    BY <1>0, <1>2, Zenon DEF Owned
  <2> QED  BY <1>2, <2>1, <2>2
<1>3. ASSUME NEW id \in DOMAIN served
      PROVE  IF served[id].task = NoTask THEN served[id].pc \in {"close", "done"} => conn = "closed"
                                         ELSE stream[served[id].task] = id
  BY <1>0 DEF Invoked
<1>4. \A t \in Task : \A i \in DOMAIN received[t] : received[t][i] = <<t, i>>
  BY <1>0, Zenon DEF Answered
<1> QED  BY <1>1, <1>2, <1>3, <1>4 DEF OperationsAreSeparate

(* operation.go:31: for any operations that the two ends open, OpIDs are    *)
(* unique and not zero, Recv never reports a protocol violation, an agent   *)
(* works on its own stream, and a caller gets its agent's frames in order.  *)
THEOREM OperationsDoNotMix == OpSpec => []OperationsAreSeparate
<1>1. IInv => OperationsAreSeparate
  BY IInvSeparates
<1> QED  BY <1>1, Invariance, PTL

(* conn.go:172: a caller that gets io.EOF has received every frame that its *)
(* agent had to send, whenever the connection may close.                    *)
THEOREM EOFIsTheWholeAnswer == OpSpec => []EOFMeansComplete
<1>1. IInv => EOFMeansComplete
  BY DEF IInv, Outcome, EOFMeansComplete
<1> QED  BY <1>1, Invariance, PTL

-----------------------------------------------------------------------------
(* The coordinator.                                                         *)

(* Every step of the coordinator is a step of the connection's operations   *)
(* or leaves them alone.                                                    *)
LEMMA ImplementsOperation == Spec => OpSpec
<1>1. Init => OpInit
  BY Zenon DEF Init
<1>2. [Next]_vars => [OpNext]_opVars
  <2> SUFFICES ASSUME [Next]_vars PROVE [OpNext]_opVars
    BY Zenon
  <2>1. ASSUME NEW t \in Task, Invoking(t) PROVE OpNext
    BY <2>1, Zenon DEF Invoking, OpNext
  <2>2. ASSUME NEW e \in End, Accepting(e) PROVE OpNext
    BY <2>2 DEF Accepting, OpNext
  <2>3. ASSUME NEW id \in DOMAIN served, Serving(id) PROVE OpNext
    BY <2>3 DEF Serving, OpNext
  <2>4. CASE Losing
    BY <2>4, Zenon DEF Losing, OpNext
  <2>5. CASE LinkCloses \/ Coordinator \/ CloseOut \/ ClientRecv
    BY <2>5 DEF LinkCloses, Coordinator, Spawn, SpawnCloser, Forward, CloseOut, ClientRecv
  <2>6. ASSUME NEW w \in Worker, Finishing(w) PROVE UNCHANGED opVars
    BY <2>6, Zenon DEF Finishing, WorkerPut, WorkerFails, WorkerDone
  <2>7. CASE UNCHANGED vars
    BY <2>7 DEF vars
  <2> QED  BY <2>1, <2>2, <2>3, <2>4, <2>5, <2>6, <2>7, Zenon DEF Next
<1> QED  BY <1>1, <1>2, PTL DEF Spec, OpSpec

(* operation.go:31, in the fan-out: the workers' operations and those that  *)
(* the other node opens on the shared connection never mix.                 *)
THEOREM FanOutDoesNotMix == Spec => []OperationsAreSeparate
BY ImplementsOperation, OperationsDoNotMix, PTL

(* conn.go:172, in the fan-out: a worker's io.EOF is never a lost answer.   *)
THEOREM FanOutSeesWholeAnswers == Spec => []EOFMeansComplete
BY ImplementsOperation, EOFIsTheWholeAnswer, PTL

-----------------------------------------------------------------------------
(* The coordinator's invariant.                                             *)

INSTANCE FiniteSetTheorems

(* The workers that wg counts, and those that have put their chunk.         *)
Live == {w \in Worker : workerPc[w] \in {"running", "exit"}}
Delivered == {w \in Worker : workerPc[w] \in {"exit", "done"} /\ callPc[w] = "ok"}

Elems(q) == {q[i] : i \in DOMAIN q}
Once(q) == \A i, j \in DOMAIN q : q[i] = q[j] => i = j

CoordType ==
    /\ spawned \in Nat /\ spawned <= Len(Targets)
    /\ workerPc \in [Worker -> {"none", "running", "exit", "done"}]
    /\ out \in Seq(Worker) /\ toClient \in Seq(Worker) /\ got \in Seq(Worker)
    /\ link \in {"up", "closed"} /\ client \in {"recv", "complete", "failed"}

(* The channel is closed behind the last worker.                            *)
Counted ==
    /\ \A i \in DOMAIN Targets : workerPc[Targets[i]] = "none" <=> i > spawned
    /\ wg = Cardinality(Live)
    /\ coord = "spawn" <=> closer = "none"
    /\ closer # "none" => spawned = Len(Targets)
    /\ closer = "done" => Live = {}
    /\ ~panicked

(* A chunk is in one place, and in no place twice.                          *)
Conserved ==
    /\ Once(got) /\ Once(toClient) /\ Once(out)
    /\ Elems(got) \cap Elems(toClient) = {}
    /\ Elems(got) \cap Elems(out) = {}
    /\ Elems(toClient) \cap Elems(out) = {}
    /\ Elems(got) \cup Elems(toClient) \cup Elems(out) \subseteq Delivered
    /\ link = "up" => Delivered \subseteq Elems(got) \cup Elems(toClient) \cup Elems(out)

NoStream == \E w \in Worker : callPc[w] = "no stream"

Finished ==
    /\ \A w \in Worker : workerPc[w] \in {"exit", "done"} => callPc[w] \in Outcomes
    /\ client = "complete" => Len(got) = Len(Targets)
    /\ client = "recv" => Len(got) < Len(Targets)
    /\ coord = "returned" => link = "closed" \/ (out = <<>> /\ closer = "done")
    /\ client = "failed" => conn = "closed" \/ link = "closed" \/ NoStream

CInv == CoordType /\ Counted /\ Conserved /\ Finished

(* There are as many workers as targets.                                    *)
LEMMA WorkersFinite ==
    /\ IsFiniteSet(Worker)
    /\ Cardinality(Worker) = Len(Targets)
    /\ Worker \subseteq Task
<1>1. DOMAIN Targets = 1 .. Len(Targets) /\ Len(Targets) \in Nat
  BY PeersAssumption
<1>2. IsFiniteSet(DOMAIN Targets) /\ Cardinality(DOMAIN Targets) = Len(Targets)
  <2>1. PICK n \in Nat : n = Len(Targets) /\ DOMAIN Targets = 1 .. n
    BY <1>1, Zenon
  <2>2. IsFiniteSet(1 .. n) /\ Cardinality(1 .. n) = IF 1 > n THEN 0 ELSE n - 1 + 1
    BY FS_Interval
  <2> QED  BY <2>1, <2>2
<1>3. Targets \in Surjection(DOMAIN Targets, Worker) /\ Targets \in Injection(DOMAIN Targets, Worker)
  BY PeersAssumption, SMTT(30) DEF Surjection, Injection, IsInjective, Worker
<1>4. IsFiniteSet(Worker) /\ Cardinality(Worker) = Cardinality(DOMAIN Targets)
  BY <1>2, <1>3, FS_Surjection, ZenonT(60)
<1>5. Worker \subseteq Task
  BY PeersAssumption, SMTT(30) DEF Worker
<1> QED  BY <1>2, <1>4, <1>5, Zenon

(* Running workers can be counted, before and after a step.                 *)
LEMMA LiveFinite == IsFiniteSet(Live) /\ IsFiniteSet(Live')
BY WorkersFinite, FS_Subset, Zenon DEF Live

(* Putting a chunk into a channel that does not hold it.                    *)
LEMMA AppendElems ==
    ASSUME NEW S, NEW q \in Seq(S), NEW x \in S
    PROVE  /\ Append(q, x) \in Seq(S)
           /\ Elems(Append(q, x)) = Elems(q) \cup {x}
           /\ Once(q) /\ x \notin Elems(q) => Once(Append(q, x))
<1>0. Append(q, x) \in Seq(S)
  OBVIOUS
<1>1. PICK r \in Seq(S) : r = Append(q, x)
  BY <1>0, Zenon
<1>2. PICK m \in Nat : m = Len(q)
  OBVIOUS
<1>3. /\ \A j \in DOMAIN r : (j = m + 1 /\ r[j] = x) \/ (j \in DOMAIN q /\ r[j] = q[j])
      /\ \A j \in DOMAIN q : j \in DOMAIN r /\ r[j] = q[j]
      /\ m + 1 \in DOMAIN r /\ r[m + 1] = x
  BY <1>1, <1>2
<1>4. Elems(r) = Elems(q) \cup {x}
  BY <1>3, Zenon DEF Elems
<1>5. Once(q) /\ x \notin Elems(q) => Once(r)
  BY <1>3, Zenon DEF Elems, Once
<1> QED  BY <1>1, <1>4, <1>5, Zenon

(* Taking a chunk off a channel.                                            *)
LEMMA TailElems ==
    ASSUME NEW S, NEW q \in Seq(S), q # <<>>, Once(q)
    PROVE  /\ Tail(q) \in Seq(S) /\ Head(q) \in S
           /\ Elems(q) = Elems(Tail(q)) \cup {Head(q)}
           /\ Head(q) \notin Elems(Tail(q))
           /\ Once(Tail(q))
<1>0. Tail(q) \in Seq(S) /\ Head(q) \in S
  OBVIOUS
<1>1. PICK r \in Seq(S), x \in S : r = Tail(q) /\ x = Head(q)
  BY <1>0, Zenon
<1>2. /\ \A j \in DOMAIN r : j \in Nat /\ j # 0 /\ j + 1 \in DOMAIN q /\ r[j] = q[j + 1]
      /\ \A j \in DOMAIN q : j \in Nat /\ (j = 1 \/ (j - 1 \in DOMAIN r /\ r[j - 1] = q[j]))
      /\ 1 \in DOMAIN q /\ q[1] = x
  BY <1>1, SMTT(30)
<1>3. Elems(q) = Elems(r) \cup {x}
  BY <1>2 DEF Elems
<1>4. x \notin Elems(r)
  BY <1>2 DEF Elems, Once
<1>5. Once(r)
  BY <1>2, SMTT(30) DEF Once
<1> QED  BY <1>1, <1>3, <1>4, <1>5, ZenonT(60)

-----------------------------------------------------------------------------
(* The invariant is inductive.                                              *)

(* Before the first worker starts, the coordinator's invariant holds.       *)
LEMMA InitCInv == Init => CInv
<1> SUFFICES ASSUME Init PROVE CInv
  OBVIOUS
<1>1. Len(Targets) \in Nat /\ Len(Targets) > 0 /\ \A i \in DOMAIN Targets : i > 0 /\ Targets[i] \in Worker
  BY PeersAssumption DEF Worker
<1>2. Live = {} /\ Delivered = {}
  BY Zenon DEF Init, Live, Delivered
<1>3. CoordType
  BY <1>1 DEF Init, CoordType
<1>4. Counted
  BY <1>1, <1>2, FS_EmptySet, Zenon DEF Init, Counted
<1>5. Elems(<<>>) = {} /\ Once(<<>>)
  BY DEF Elems, Once
<1>6. Conserved
  BY <1>2, <1>5, Zenon DEF Init, Conserved
<1>7. Finished
  BY <1>1, Zenon DEF Init, Finished
<1> QED  BY <1>3, <1>4, <1>6, <1>7 DEF CInv

(* A step of the operations on the shared connection.                       *)
LEMMA OperationStep ==
    ASSUME CInv, UNCHANGED coordVars, conn = "closed" => conn' = "closed",
           \A w \in Worker : workerPc[w] \in {"exit", "done"} \/ callPc[w] \in Outcomes
                               => callPc'[w] = callPc[w]
    PROVE  CInv'
<1>0. CoordType /\ Counted /\ Conserved /\ Finished
  BY Zenon DEF CInv
<1>1. UNCHANGED <<spawned, workerPc, wg, closer, out, panicked, coord, link, toClient, got, client>>
  BY Zenon DEF coordVars
<1>2. Live' = Live /\ Delivered' = Delivered
  BY <1>1, Zenon DEF Live, Delivered
<1>3. CoordType'
  BY <1>0, <1>1, ZenonT(60) DEF CoordType
<1>4. Counted'
  BY <1>0, <1>1, <1>2, Zenon DEF Counted
<1>5. Conserved'
  BY <1>0, <1>1, <1>2, Zenon DEF Conserved
<1>6. NoStream => NoStream'
  BY Zenon DEF NoStream, Outcomes
<1>7. Finished'
  BY <1>0, <1>1, <1>6, Zenon DEF Finished
<1> QED  BY <1>3, <1>4, <1>5, <1>7, ZenonT(60) DEF CInv

(* A step of one call changes no other call, and no call that has ended.    *)
LEMMA CallerEffect ==
    ASSUME IInv, NEW t \in Task, Caller(t)
    PROVE  /\ callPc[t] \notin Outcomes
           /\ \A u \in Task : u # t => callPc'[u] = callPc[u]
           /\ UNCHANGED conn
<1>1. callPc \in [Task -> {"idle", "send", "recv"} \cup Outcomes]
  BY DEF IInv, TypeOK
<1>2. PICK p : callPc' = [callPc EXCEPT ![t] = p]
  BY Zenon DEF Caller, NewOperation, OpenFails, OpenStream, SendInvoke, RecvReply, CallGoto
<1>3. callPc[t] \in {"idle", "send", "recv"} /\ UNCHANGED conn
  BY Zenon DEF Caller, NewOperation, SendInvoke, RecvReply
<1> QED  BY <1>1, <1>2, <1>3, Zenon DEF Outcomes

(* A step of a call keeps the coordinator's invariant.                      *)
LEMMA InvokingCInv ==
    ASSUME IInv, CInv, NEW t \in Task, Invoking(t)
    PROVE  CInv'
<1>1. Caller(t) /\ UNCHANGED coordVars /\ (t \in Worker => workerPc[t] = "running")
  BY SMTT(30) DEF Invoking
<1>2. /\ callPc[t] \notin Outcomes
      /\ \A u \in Task : u # t => callPc'[u] = callPc[u]
      /\ UNCHANGED conn
  BY <1>1, CallerEffect, Zenon
<1>3. Worker \subseteq Task
  BY WorkersFinite, Zenon
<1>4. \A w \in Worker : workerPc[w] \in {"exit", "done"} \/ callPc[w] \in Outcomes
                         => callPc'[w] = callPc[w]
  BY <1>1, <1>2, <1>3, ZenonT(60)
<1> QED  BY <1>1, <1>2, <1>4, OperationStep, ZenonT(60)

(* So does what the other end and the connection do.                        *)
LEMMA OtherOperationCInv ==
    ASSUME CInv, (\E e \in End : Accepting(e)) \/ (\E id \in DOMAIN served : Serving(id)) \/ Losing
    PROVE  CInv'
<1>1. UNCHANGED <<callPc, coordVars>> /\ (conn = "closed" => conn' = "closed")
  BY Zenon DEF Accepting, AcceptOperation, Serving, Serve, RecvInvoke, AgentSends, ServerCloses, Losing,
         ConnCloses
<1> QED  BY <1>1, OperationStep, Zenon

(* wg.Add and the start of a worker keep the invariant.                     *)
LEMMA SpawnCInv ==
    ASSUME CInv, Spawn
    PROVE  CInv'
<1>0. CoordType /\ Counted /\ Conserved /\ Finished
  BY Zenon DEF CInv
<1>1. PICK k \in Nat : k = spawned + 1 /\ k \in DOMAIN Targets /\ Targets[k] \in Worker
  BY <1>0, PeersAssumption DEF Spawn, CoordType, Worker
<1>2. PICK w \in Worker : w = Targets[k] /\ workerPc[w] = "none"
  BY <1>0, <1>1, SMTT(30) DEF Counted, CoordType
<1>3. /\ coord = "spawn" /\ spawned' = k /\ wg' = wg + 1
      /\ workerPc' = [workerPc EXCEPT ![w] = "running"]
      /\ UNCHANGED <<callPc, conn, closer, out, panicked, coord, link, toClient, got, client>>
  BY <1>1, <1>2, Zenon DEF Spawn, StartWorker, opVars
<1>4. /\ workerPc'[w] = "running"
      /\ \A v \in Worker : v # w => workerPc'[v] = workerPc[v]
  BY <1>0, <1>3, Zenon DEF CoordType
<1>5. Live' = Live \cup {w} /\ w \notin Live /\ Delivered' = Delivered
  BY <1>2, <1>3, <1>4, Zenon DEF Live, Delivered
<1>6. CoordType'
  BY <1>0, <1>1, <1>3, PeersAssumption, SMTT(30) DEF CoordType
<1>7. Counted'
  <2>1. ASSUME NEW i \in DOMAIN Targets
        PROVE  workerPc'[Targets[i]] = "none" <=> i > k
    <3>1. Targets[i] \in Worker /\ i \in Nat /\ (Targets[i] = w => i = k)
      BY <1>1, <1>2, PeersAssumption, SMTT(30) DEF Worker
    <3>2. workerPc[Targets[i]] = "none" <=> i > spawned
      BY <1>0, Zenon DEF Counted
    <3> QED  BY <1>0, <1>1, <1>2, <1>4, <3>1, <3>2, SMTT(30) DEF CoordType
  <2>2. wg' = Cardinality(Live')
    BY <1>0, <1>3, <1>5, LiveFinite, FS_AddElement, Zenon DEF Counted
  <2>3. closer = "none"
    BY <1>0, <1>3, Zenon DEF Counted
  <2> QED  BY <1>0, <1>3, <2>1, <2>2, <2>3, Zenon DEF Counted
<1>8. Conserved'
  BY <1>0, <1>3, <1>5, Zenon DEF Conserved
<1>9. Finished'
  BY <1>0, <1>3, <1>4, Zenon DEF Finished, NoStream
<1> QED  BY <1>6, <1>7, <1>8, <1>9, ZenonT(60) DEF CInv

(* Starting the goroutine that closes the channel keeps the invariant.      *)
LEMMA SpawnCloserCInv ==
    ASSUME CInv, SpawnCloser
    PROVE  CInv'
<1>0. CoordType /\ Counted /\ Conserved /\ Finished
  BY Zenon DEF CInv
<1>1. /\ coord = "spawn" /\ spawned = Len(Targets) /\ closer' = "wait" /\ coord' = "range"
      /\ UNCHANGED <<callPc, conn, spawned, workerPc, wg, out, panicked, link, toClient, got, client>>
  BY Zenon DEF SpawnCloser, opVars
<1>2. Live' = Live /\ Delivered' = Delivered
  BY <1>1 DEF Live, Delivered
<1>3. CoordType'
  BY <1>0, <1>1, Zenon DEF CoordType
<1>4. Counted'
  BY <1>0, <1>1, <1>2, ZenonT(60) DEF Counted
<1>5. Conserved'
  BY <1>0, <1>1, <1>2, Zenon DEF Conserved
<1>6. Finished'
  BY <1>0, <1>1, Zenon DEF Finished, NoStream
<1> QED  BY <1>3, <1>4, <1>5, <1>6, ZenonT(60) DEF CInv

(* A worker that puts its chunk keeps the invariant: the channel is open.   *)
LEMMA WorkerPutCInv ==
    ASSUME CInv, NEW w \in Worker, WorkerPut(w)
    PROVE  CInv'
<1>0. CoordType /\ Counted /\ Conserved /\ Finished
  BY SMTT(30) DEF CInv
<1>1. /\ workerPc[w] = "running" /\ callPc[w] = "ok"
      /\ out' = Append(out, w)
      /\ panicked' = (panicked \/ closer = "done")
      /\ workerPc' = [workerPc EXCEPT ![w] = "exit"]
      /\ UNCHANGED <<callPc, conn, spawned, wg, closer, coord, link, toClient, got, client>>
  BY Zenon DEF WorkerPut, opVars
<1>2. /\ workerPc'[w] = "exit"
      /\ \A v \in Worker : v # w => workerPc'[v] = workerPc[v]
  BY <1>0, <1>1, ZenonT(60) DEF CoordType
<1>3. Live' = Live /\ w \in Live /\ closer # "done"
  BY <1>0, <1>1, <1>2, ZenonT(60) DEF Live, Counted
<1>4. Delivered' = Delivered \cup {w} /\ w \notin Delivered
  BY <1>1, <1>2 DEF Delivered
<1>5. w \notin Elems(got) /\ w \notin Elems(toClient) /\ w \notin Elems(out)
  BY <1>0, <1>4, Zenon DEF Conserved
<1>6. out' \in Seq(Worker) /\ Elems(out') = Elems(out) \cup {w} /\ Once(out')
  BY <1>0, <1>1, <1>5, AppendElems, ZenonT(60) DEF CoordType, Conserved
<1>7. CoordType'
  BY <1>0, <1>1, <1>6, ZenonT(60) DEF CoordType
<1>8. Counted'
  <2>1. \A i \in DOMAIN Targets : Targets[i] \in Worker
    BY PeersAssumption DEF Worker
  <2> QED  BY <1>0, <1>1, <1>2, <1>3, <2>1, Zenon DEF Counted
<1>9. Conserved'
  BY <1>0, <1>1, <1>4, <1>5, <1>6, Zenon DEF Conserved
<1>10. Finished'
  BY <1>0, <1>1, <1>2, <1>3, Zenon DEF Finished, NoStream, Outcomes
<1> QED  BY <1>7, <1>8, <1>9, <1>10, ZenonT(60) DEF CInv

(* A worker that gives up keeps the invariant.                              *)
LEMMA WorkerFailsCInv ==
    ASSUME CInv, NEW w \in Worker, WorkerFails(w)
    PROVE  CInv'
<1>0. CoordType /\ Counted /\ Conserved /\ Finished
  BY Zenon DEF CInv
<1>1. /\ workerPc[w] = "running" /\ callPc[w] \in Outcomes \ {"ok"}
      /\ workerPc' = [workerPc EXCEPT ![w] = "exit"]
      /\ UNCHANGED <<callPc, conn, spawned, wg, closer, out, panicked, coord, link, toClient, got, client>>
  BY Zenon DEF WorkerFails, opVars
<1>2. /\ workerPc'[w] = "exit"
      /\ \A v \in Worker : v # w => workerPc'[v] = workerPc[v]
  BY <1>0, <1>1, Zenon DEF CoordType
<1>3. Live' = Live /\ Delivered' = Delivered
  BY <1>1, <1>2, Zenon DEF Live, Delivered
<1>4. CoordType'
  BY <1>0, <1>1, ZenonT(60) DEF CoordType
<1>5. Counted'
  <2>1. \A i \in DOMAIN Targets : Targets[i] \in Worker
    BY PeersAssumption, ZenonT(60) DEF Worker
  <2> QED  BY <1>0, <1>1, <1>2, <1>3, <2>1, ZenonT(60) DEF Counted
<1>6. Conserved'
  BY <1>0, <1>1, <1>3, ZenonT(60) DEF Conserved
<1>7. Finished'
  BY <1>0, <1>1, <1>2, Zenon DEF Finished, NoStream
<1> QED  BY <1>4, <1>5, <1>6, <1>7, Zenon DEF CInv

(* wg.Done keeps the invariant: one running worker less.                    *)
LEMMA WorkerDoneCInv ==
    ASSUME CInv, NEW w \in Worker, WorkerDone(w)
    PROVE  CInv'
<1>0. CoordType /\ Counted /\ Conserved /\ Finished
  BY Zenon DEF CInv
<1>1. /\ workerPc[w] = "exit" /\ wg' = wg - 1
      /\ workerPc' = [workerPc EXCEPT ![w] = "done"]
      /\ UNCHANGED <<callPc, conn, spawned, closer, out, panicked, coord, link, toClient, got, client>>
  BY Zenon DEF WorkerDone, opVars
<1>2. /\ workerPc'[w] = "done"
      /\ \A v \in Worker : v # w => workerPc'[v] = workerPc[v]
  BY <1>0, <1>1, Zenon DEF CoordType
<1>3. Live' = Live \ {w} /\ w \in Live /\ Delivered' = Delivered
  BY <1>1, <1>2, Zenon DEF Live, Delivered
<1>4. CoordType'
  BY <1>0, <1>1, Zenon DEF CoordType
<1>5. Counted'
  <2>1. \A i \in DOMAIN Targets : Targets[i] \in Worker
    BY PeersAssumption, Zenon DEF Worker
  <2>2. wg' = Cardinality(Live')
    BY <1>0, <1>1, <1>3, LiveFinite, FS_RemoveElement, ZenonT(60) DEF Counted
  <2> QED  BY <1>0, <1>1, <1>2, <1>3, <2>1, <2>2, ZenonT(60) DEF Counted
<1>6. Conserved'
  BY <1>0, <1>1, <1>3, ZenonT(60) DEF Conserved
<1>7. Finished'
  BY <1>0, <1>1, <1>2, Zenon DEF Finished, NoStream
<1> QED  BY <1>4, <1>5, <1>6, <1>7, ZenonT(60) DEF CInv

(* Closing the channel keeps the invariant: no worker is left.              *)
LEMMA CloseOutCInv ==
    ASSUME CInv, CloseOut
    PROVE  CInv'
<1>0. CoordType /\ Counted /\ Conserved /\ Finished
  BY Zenon DEF CInv
<1>1. /\ closer = "wait" /\ wg = 0 /\ closer' = "done"
      /\ UNCHANGED <<callPc, conn, spawned, workerPc, wg, out, panicked, coord, link, toClient, got, client>>
  BY Zenon DEF CloseOut, opVars
<1>2. Live' = Live /\ Delivered' = Delivered
  BY <1>1, Zenon DEF Live, Delivered
<1>3. Live = {}
  BY <1>0, <1>1, LiveFinite, FS_EmptySet, Zenon DEF Counted
<1>4. CoordType'
  BY <1>0, <1>1, Zenon DEF CoordType
<1>5. Counted'
  BY <1>0, <1>1, <1>2, <1>3, ZenonT(60) DEF Counted
<1>6. Conserved'
  BY <1>0, <1>1, <1>2, Zenon DEF Conserved
<1>7. Finished'
  BY <1>0, <1>1, Zenon DEF Finished, NoStream
<1> QED  BY <1>4, <1>5, <1>6, <1>7, ZenonT(60) DEF CInv

(* Losing the connection to the client keeps the invariant.                 *)
LEMMA LinkClosesCInv ==
    ASSUME CInv, LinkCloses
    PROVE  CInv'
<1>0. CoordType /\ Counted /\ Conserved /\ Finished
  BY Zenon DEF CInv
<1>1. /\ link' = "closed"
      /\ UNCHANGED <<callPc, conn, spawned, workerPc, wg, closer, out, panicked, coord, toClient, got, client>>
  BY Zenon DEF LinkCloses, opVars
<1>2. Live' = Live /\ Delivered' = Delivered
  BY <1>1 DEF Live, Delivered
<1>3. CoordType'
  BY <1>0, <1>1, Zenon DEF CoordType
<1>4. Counted'
  BY <1>0, <1>1, <1>2, ZenonT(60) DEF Counted
<1>5. Conserved'
  BY <1>0, <1>1, <1>2, Zenon DEF Conserved
<1>6. Finished'
  BY <1>0, <1>1, Zenon DEF Finished, NoStream
<1> QED  BY <1>3, <1>4, <1>5, <1>6, ZenonT(60) DEF CInv

(* The loop that sends on to the client keeps the invariant.                *)
LEMMA ForwardCInv ==
    ASSUME CInv, Forward
    PROVE  CInv'
<1>0. CoordType /\ Counted /\ Conserved /\ Finished
  BY Zenon DEF CInv
<1>1. /\ coord = "range" /\ closer # "none"
      /\ UNCHANGED <<callPc, conn, spawned, workerPc, wg, closer, panicked, link, got, client>>
  BY <1>0, ZenonT(60) DEF Forward, opVars, Counted
<1>2. Live' = Live /\ Delivered' = Delivered
  BY <1>1, Zenon DEF Live, Delivered
<1>3. coord' \in {"range", "returned"}
  BY <1>1, ZenonT(60) DEF Forward, SendToClient
<1>4. Counted'
  BY <1>0, <1>1, <1>2, <1>3, Zenon DEF Counted
<1>5. CASE out = <<>>
  <2>1. closer = "done" /\ coord' = "returned" /\ UNCHANGED <<out, toClient>>
    BY <1>5, Zenon DEF Forward
  <2>2. CoordType' /\ Conserved'
    BY <1>0, <1>1, <1>2, <2>1, Zenon DEF CoordType, Conserved
  <2>3. Finished'
    BY <1>0, <1>1, <1>5, <2>1, Zenon DEF Finished, NoStream
  <2> QED  BY <1>4, <2>2, <2>3, Zenon DEF CInv
<1>6. CASE out # <<>>
  <2>1. out' = Tail(out) /\ SendToClient(Head(out))
    BY <1>6, Zenon DEF Forward
  <2>2. PICK w \in Worker : w = Head(out) /\ w \notin Elems(out') /\ Elems(out) = Elems(out') \cup {w}
    BY <1>0, <1>6, <2>1, TailElems, ZenonT(60) DEF CoordType, Conserved
  <2>3. out' \in Seq(Worker) /\ Once(out')
    BY <1>0, <1>6, <2>1, TailElems, ZenonT(60) DEF CoordType, Conserved
  <2>4. CASE link = "up"
    <3>1. toClient' = Append(toClient, w) /\ coord' = "range"
      BY <1>1, <2>1, <2>2, <2>4, ZenonT(60) DEF SendToClient
    <3>2. w \notin Elems(toClient)
      BY <1>0, <2>2, Zenon DEF Conserved
    <3>3. toClient' \in Seq(Worker) /\ Elems(toClient') = Elems(toClient) \cup {w} /\ Once(toClient')
      BY <1>0, <3>1, <3>2, AppendElems, SMTT(30) DEF CoordType, Conserved
    <3>4. CoordType'
      BY <1>0, <1>1, <2>3, <3>3, Zenon DEF CoordType
    <3>5. Conserved'
      BY <1>0, <1>1, <1>2, <2>2, <2>3, <3>3, ZenonT(60) DEF Conserved
    <3>6. Finished'
      BY <1>0, <1>1, <3>1, Zenon DEF Finished, NoStream
    <3> QED  BY <1>4, <3>4, <3>5, <3>6, ZenonT(60) DEF CInv
  <2>5. CASE link = "closed"
    <3>1. toClient' = toClient
      BY <2>1, <2>5, Zenon DEF SendToClient
    <3>2. CoordType'
      BY <1>0, <1>1, <2>3, <3>1, ZenonT(60) DEF CoordType
    <3>3. Conserved'
      BY <1>0, <1>1, <1>2, <2>2, <2>3, <2>5, <3>1, ZenonT(60) DEF Conserved
    <3>4. Finished'
      BY <1>0, <1>1, <2>5, Zenon DEF Finished, NoStream
    <3> QED  BY <1>4, <3>2, <3>3, <3>4, Zenon DEF CInv
  <2> QED  BY <1>0, <2>4, <2>5, Zenon DEF CoordType
<1> QED  BY <1>5, <1>6, Zenon

(* A sequence without repetitions is as long as the set of its elements.    *)
LEMMA OnceCount ==
    ASSUME NEW S, NEW q \in Seq(S), Once(q)
    PROVE  Cardinality(Elems(q)) = Len(q)
<1>1. PICK n \in Nat : n = Len(q) /\ DOMAIN q = 1 .. n
  OBVIOUS
<1>2. IsFiniteSet(1 .. n) /\ Cardinality(1 .. n) = IF 1 > n THEN 0 ELSE n - 1 + 1
  BY FS_Interval
<1>3. q \in Surjection(DOMAIN q, Elems(q)) /\ q \in Injection(DOMAIN q, Elems(q))
  BY DEF Surjection, Injection, IsInjective, Elems, Once
<1>4. Cardinality(Elems(q)) = Cardinality(DOMAIN q)
  BY <1>1, <1>2, <1>3, FS_Surjection, ZenonT(60)
<1> QED  BY <1>1, <1>2, <1>4

(* When the coordinator has returned and nothing was lost, the client has   *)
(* received every chunk.                                                    *)
LEMMA NothingMissing ==
    ASSUME IInv, CInv, coord = "returned", toClient = <<>>, link = "up", conn # "closed", ~NoStream
    PROVE  Len(got) = Len(Targets)
<1>0. CoordType /\ Counted /\ Conserved /\ Finished
  BY Zenon DEF CInv
<1>1. out = <<>> /\ closer = "done" /\ Live = {} /\ spawned = Len(Targets)
  BY <1>0, Zenon DEF Finished, Counted
<1>2. ASSUME NEW w \in Worker
      PROVE  w \in Delivered
  <2>1. PICK i \in DOMAIN Targets : w = Targets[i]
    BY Zenon DEF Worker
  <2>2. i \in Nat /\ i <= Len(Targets) /\ Len(Targets) \in Nat
    BY PeersAssumption
  <2>3. workerPc[w] # "none"
    BY <1>0, <1>1, <2>1, <2>2, SMTT(30) DEF Counted
  <2>4. workerPc[w] = "done"
    BY <1>0, <1>1, <2>3, Zenon DEF CoordType, Live
  <2>5. callPc[w] \in Outcomes /\ callPc[w] # "no stream"
    BY <1>0, <2>4, ZenonT(60) DEF Finished, NoStream
  <2>6. w \in Task /\ Wants[w] = 1 /\ Replies[w] = 1
    BY WorkersFinite, PeersAssumption, ZenonT(60)
  <2>7. /\ callPc[w] # "ErrProtocolViolation" /\ callPc[w] # "failed"
        /\ callPc[w] = "EOF" => Len(received[w]) = 1
        /\ callPc[w] # "ok" => Len(received[w]) < 1
    BY <2>6, Zenon DEF IInv, Outcome
  <2>8. callPc[w] # "EOF"
    <3> SUFFICES ASSUME callPc[w] = "EOF" PROVE FALSE
      BY Zenon
    <3>1. Len(received[w]) = 1 /\ Len(received[w]) < 1
      BY <2>7, Zenon
    <3> QED  BY <3>1
  <2>9. callPc[w] = "ok"
    BY <2>5, <2>7, <2>8, Zenon DEF Outcomes
  <2> QED  BY <2>4, <2>9, ZenonT(60) DEF Delivered
<1>3. Elems(<<>>) = {}
  BY DEF Elems
<1>4. Elems(got) = Worker
  BY <1>0, <1>1, <1>2, <1>3, ZenonT(60) DEF Conserved, Delivered
<1> QED  BY <1>0, <1>4, OnceCount, WorkersFinite, ZenonT(60) DEF CoordType, Conserved

(* A call of Recv by the client keeps the invariant.                        *)
LEMMA ClientRecvCInv ==
    ASSUME IInv, CInv, ClientRecv
    PROVE  CInv'
<1>0. CoordType /\ Counted /\ Conserved /\ Finished
  BY Zenon DEF CInv
<1>1. /\ client = "recv"
      /\ UNCHANGED <<callPc, conn, spawned, workerPc, wg, closer, out, panicked, coord, link>>
  BY DEF ClientRecv, opVars
<1>2. Live' = Live /\ Delivered' = Delivered
  BY <1>1, ZenonT(60) DEF Live, Delivered
<1>3. Counted'
  BY <1>0, <1>1, <1>2, Zenon DEF Counted
<1>4. CASE UNCHANGED <<got, toClient>> /\ client' = "failed"
                /\ (link = "closed" \/ (toClient = <<>> /\ coord = "returned"))
  <2>1. CoordType' /\ Conserved'
    BY <1>0, <1>1, <1>2, <1>4, Zenon DEF CoordType, Conserved
  <2>2. Len(got) < Len(Targets) /\ Len(got) \in Nat /\ Len(Targets) \in Nat
    <3>1. Len(got) < Len(Targets) /\ got \in Seq(Worker)
      BY <1>0, <1>1, Zenon DEF Finished, CoordType
    <3> QED  BY <3>1, PeersAssumption, SMTT(30)
  <2>3. link = "closed" \/ conn = "closed" \/ NoStream
    BY <1>0, <1>4, <2>2, NothingMissing DEF CoordType
  <2>4. Finished'
    BY <1>0, <1>1, <1>4, <2>3, Zenon DEF Finished, NoStream
  <2> QED  BY <1>3, <2>1, <2>4, ZenonT(60) DEF CInv
<1>5. CASE /\ toClient # <<>>
           /\ got' = Append(got, Head(toClient)) /\ toClient' = Tail(toClient)
           /\ client' = IF Len(got) + 1 = Len(Targets) THEN "complete" ELSE "recv"
  <2>1. PICK w \in Worker : /\ w = Head(toClient) /\ w \notin Elems(toClient')
                            /\ Elems(toClient) = Elems(toClient') \cup {w}
    BY <1>0, <1>5, TailElems, ZenonT(60) DEF CoordType, Conserved
  <2>2. toClient' \in Seq(Worker) /\ Once(toClient')
    BY <1>0, <1>5, TailElems, ZenonT(60) DEF CoordType, Conserved
  <2>3. w \notin Elems(got) /\ got' = Append(got, w)
    BY <1>0, <1>5, <2>1, ZenonT(60) DEF Conserved
  <2>4. got' \in Seq(Worker) /\ Elems(got') = Elems(got) \cup {w} /\ Once(got')
    BY <1>0, <2>3, AppendElems DEF CoordType, Conserved
  <2>5. Len(got') = Len(got) + 1 /\ Len(got) \in Nat /\ Len(got) < Len(Targets) /\ Len(Targets) \in Nat
    <3>1. ASSUME NEW s \in Seq(Worker), NEW x \in Worker PROVE Len(Append(s, x)) = Len(s) + 1 /\ Len(s) \in Nat
      OBVIOUS
    <3>2. got \in Seq(Worker)
      BY <1>0, Zenon DEF CoordType
    <3>3. Len(got') = Len(got) + 1 /\ Len(got) \in Nat
      BY <2>3, <3>1, <3>2, ZenonT(60)
    <3>4. Len(got) < Len(Targets)
      BY <1>0, <1>1, Zenon DEF Finished
    <3>5. Len(Targets) \in Nat
      BY PeersAssumption, SMTT(30)
    <3> QED
      BY <3>3, <3>4, <3>5, Zenon
  <2>6. CoordType'
    BY <1>0, <1>1, <1>5, <2>2, <2>4, ZenonT(60) DEF CoordType
  <2>7. Conserved'
    BY <1>0, <1>1, <1>2, <2>1, <2>2, <2>4, ZenonT(60) DEF Conserved
  <2>8. /\ client' = "complete" => Len(got') = Len(Targets)
        /\ client' = "recv" => Len(got') < Len(Targets)
        /\ client' # "failed"
    BY <1>5, <2>5
  <2>9. Finished'
    BY <1>0, <1>1, <2>8, Zenon DEF Finished, NoStream
  <2> QED  BY <1>3, <2>6, <2>7, <2>9, ZenonT(60) DEF CInv
<1> QED  BY <1>4, <1>5, Zenon DEF ClientRecv

(* Every step keeps the coordinator's invariant.                            *)
LEMMA NextCInv == IInv /\ CInv /\ [Next]_vars => CInv'
<1> SUFFICES ASSUME IInv, CInv, [Next]_vars PROVE CInv'
  BY Zenon
<1>1. ASSUME NEW t \in Task, Invoking(t) PROVE CInv'
  BY <1>1, InvokingCInv, Zenon
<1>2. CASE (\E e \in End : Accepting(e)) \/ (\E id \in DOMAIN served : Serving(id)) \/ Losing
  BY <1>2, OtherOperationCInv, Zenon
<1>3. CASE Coordinator
  BY <1>3, SpawnCInv, SpawnCloserCInv, ForwardCInv, Zenon DEF Coordinator
<1>4. CASE LinkCloses \/ CloseOut \/ ClientRecv
  BY <1>4, LinkClosesCInv, CloseOutCInv, ClientRecvCInv, ZenonT(60)
<1>5. ASSUME NEW w \in Worker, Finishing(w) PROVE CInv'
  BY <1>5, WorkerPutCInv, WorkerFailsCInv, WorkerDoneCInv, ZenonT(60) DEF Finishing
<1>6. CASE UNCHANGED vars
  <2>1. UNCHANGED <<callPc, conn, coordVars>>
    BY <1>6 DEF vars, opVars
  <2> QED  BY <2>1, OperationStep, Zenon
<1> QED  BY <1>1, <1>2, <1>3, <1>4, <1>5, <1>6, ZenonT(60) DEF Next

(* The coordinator's invariant holds in every state.                        *)
LEMMA CoordinatorInvariance == Spec => []CInv
<1>1. Spec => []IInv
  BY ImplementsOperation, Invariance, PTL
<1> QED  BY <1>1, InitCInv, NextCInv, PTL DEF Spec

-----------------------------------------------------------------------------
(* main.go:121: with any number of workers, none sends on the channel after *)
(* it is closed, because wg counts exactly the workers that are not done.   *)
THEOREM ClosedAfterTheLastWorker == Spec => []NoSendOnClosedChannel
<1>1. CInv => NoSendOnClosedChannel
  BY DEF CInv, Counted, NoSendOnClosedChannel
<1> QED  BY <1>1, CoordinatorInvariance, PTL

(* main.go:83-89 and 123-128: a client that completes has the answer of     *)
(* every worker exactly once, and one that fails lost a connection or a     *)
(* worker got no stream.                                                    *)
THEOREM EveryChunkOrALoss == Spec => []AllChunksOrLoss
<1>1. CInv => AllChunksOrLoss
  <2> SUFFICES ASSUME CInv PROVE AllChunksOrLoss
    OBVIOUS
  <2>1. ASSUME client = "complete" PROVE Elems(got) = Worker
    <3>1. Elems(got) \subseteq Worker /\ Once(got) /\ got \in Seq(Worker) /\ Len(got) = Len(Targets)
      BY <2>1, Zenon DEF CInv, Conserved, CoordType, Finished, Delivered
    <3>2. Cardinality(Elems(got)) = Cardinality(Worker)
      BY <3>1, OnceCount, WorkersFinite, Zenon
    <3> QED  BY <3>1, <3>2, WorkersFinite, FS_Subset, ZenonT(60)
  <2>2. client = "failed" => conn = "closed" \/ link = "closed" \/ NoStream
    BY Zenon DEF CInv, Finished
  <2> QED  BY <2>1, <2>2, Zenon DEF AllChunksOrLoss, Elems, NoStream
<1> QED  BY <1>1, CoordinatorInvariance, PTL

=============================================================================
