----------------------------- MODULE NodeProofs -----------------------------
(***************************************************************************)
(* Proofs about the life of a Node, for any number of calls, connections,   *)
(* operations and agents.                                                   *)
(*                                                                         *)
(* The argument: n.wg counts the running goroutines (WaitGroupCounts), so   *)
(* when Stop finds it zero none is left.  Only a running goroutine or a     *)
(* call of Listen starts another one, and after n.stopped is set no Listen  *)
(* begins; so if none was under way (StopExcludesListen) the counter stays  *)
(* zero.                                                                    *)
(***************************************************************************)
EXTENDS Node, FiniteSetTheorems, TLAPS

(* A Stop that has set n.stopped shuts out every Listen that had not begun. *)
StopExcludesListen ==
    /\ \A s \in StopCall : stopPc[s] \in {"cancel", "close", "wait", "done"} => stopped
    /\ stopped /\ ~raced => \A l \in ListenCall : listenPc[l] \notin Listening

(* An open socket belongs to n.listener or to the Listen about to store it. *)
OpenSocketIsKnown ==
    socket = "open" => listener = "set" \/ \E l \in ListenCall : listenPc[l] = "store"

(* What Stop has achieved at each of its steps.                             *)
StopProgress ==
    \A s \in StopCall :
        ~raced => /\ stopPc[s] \in {"wait", "done"} => socket # "open"
                  /\ stopPc[s] = "done" => wg = 0

(* A connection whose goroutine has ended is closed.                        *)
DoneIsClosed == \A c \in Conn : connPc[c] = "done" => transport[c] = "closed"

(* At most one Listen gets past its critical section; it starts the loop.   *)
SingleListen ==
    /\ \A l \in ListenCall : listenPc[l] \in Listening \cup {"ok"} => started
    /\ \A l, m \in ListenCall :
         listenPc[l] \in Listening \cup {"ok"} /\ listenPc[m] \in Listening \cup {"ok"} => l = m
    /\ loop = "accept" => \E l \in ListenCall : listenPc[l] = "ok"

IInv ==
    /\ TypeOK
    /\ SingleListen
    /\ WaitGroupCounts
    /\ StopExcludesListen
    /\ OpenSocketIsKnown
    /\ StopProgress
    /\ DoneIsClosed

-----------------------------------------------------------------------------
(* Updating a function at one place.                                        *)
LEMMA Update ==
    ASSUME NEW S, NEW T, NEW f \in [S -> T], NEW x \in S, NEW v \in T,
           NEW g, g = [f EXCEPT ![x] = v]
    PROVE  g \in [S -> T] /\ g[x] = v /\ \A y \in S \ {x} : g[y] = f[y]
OBVIOUS

(* A goroutine that starts or ends changes the number of live ones by one.  *)
LEMMA CardAdd ==
    ASSUME NEW S, IsFiniteSet(S), NEW x, x \notin S
    PROVE  Cardinality(S \cup {x}) = Cardinality(S) + 1
BY FS_AddElement

(* A set without one of its elements.                                       *)
LEMMA CardRemove ==
    ASSUME NEW S, IsFiniteSet(S), NEW x \in S
    PROVE  Cardinality(S \ {x}) = Cardinality(S) - 1
BY FS_RemoveElement

(* Running goroutines can be counted.                                       *)
LEMMA LiveFinite ==
    /\ IsFiniteSet(LiveConns) /\ Cardinality(LiveConns) \in Nat
    /\ IsFiniteSet(LiveOps) /\ Cardinality(LiveOps) \in Nat
<1>1. IsFiniteSet(LiveConns) /\ IsFiniteSet(LiveOps)
  BY NodeAssumption, FS_Subset DEF LiveConns, LiveOps
<1> QED
  BY <1>1, FS_CardinalityType

(* A zero counter means that no goroutine of the node is running.           *)
LEMMA ZeroMeansQuiet ==
    ASSUME WaitGroupCounts, wg = 0
    PROVE  loop # "accept" /\ LiveConns = {} /\ LiveOps = {}
<1>1. LoopCount \in {0, 1} /\ (LoopCount = 0 => loop # "accept")
  BY DEF LoopCount
<1>2. LoopCount = 0 /\ Cardinality(LiveConns) = 0 /\ Cardinality(LiveOps) = 0
  BY <1>1, LiveFinite DEF WaitGroupCounts
<1> QED
  BY <1>1, <1>2, LiveFinite, FS_EmptySet

-----------------------------------------------------------------------------
(* A new node satisfies the invariant.                                      *)
LEMMA InitIInv == Init => IInv
<1> SUFFICES ASSUME Init PROVE IInv
  OBVIOUS
<1>1. TypeOK
  BY Zenon DEF Init, TypeOK, ListenStates, StopStates, Listening, ConnActive, OpActive, NotInvoke
<1>2. WaitGroupCounts
  <2>1. LiveConns = {} /\ LiveOps = {} /\ LoopCount = 0 /\ wg = 0
    BY DEF Init, LiveConns, LiveOps, LoopCount, ConnActive, OpActive
  <2> QED
    BY <2>1, FS_EmptySet DEF WaitGroupCounts
<1>3. StopExcludesListen /\ OpenSocketIsKnown /\ StopProgress /\ DoneIsClosed /\ SingleListen
  BY DEF Init, StopExcludesListen, OpenSocketIsKnown, StopProgress, DoneIsClosed, SingleListen, Listening
<1> QED
  BY <1>1, <1>2, <1>3 DEF IInv

-----------------------------------------------------------------------------
(* WaitGroupCounts, for a step that starts or ends no goroutine, or one.    *)
LEMMA CountSame ==
    ASSUME WaitGroupCounts, wg' = wg, LoopCount' = LoopCount,
           LiveConns' = LiveConns, LiveOps' = LiveOps
    PROVE  WaitGroupCounts' /\ wg' \in Nat
<1>1. LoopCount \in Nat
  BY DEF LoopCount
<1>2. wg \in Nat
  BY <1>1, LiveFinite DEF WaitGroupCounts
<1> QED
  BY <1>2 DEF WaitGroupCounts

(* The accept loop is counted while it runs.                                *)
LEMMA CountLoop ==
    ASSUME WaitGroupCounts, LiveConns' = LiveConns, LiveOps' = LiveOps,
           \/ wg' = wg + 1 /\ loop # "accept" /\ loop' = "accept"
           \/ wg' = wg - 1 /\ loop = "accept" /\ loop' # "accept"
    PROVE  WaitGroupCounts' /\ wg' \in Nat
<1>1. LoopCount \in {0, 1} /\ LoopCount' \in {0, 1} /\ wg' = wg + LoopCount' - LoopCount
  BY LiveFinite DEF LoopCount, WaitGroupCounts
<1>2. wg = LoopCount + Cardinality(LiveConns) + Cardinality(LiveOps)
  BY DEF WaitGroupCounts
<1>3. wg' = LoopCount' + Cardinality(LiveConns) + Cardinality(LiveOps)
  BY <1>1, <1>2, LiveFinite
<1> QED
  BY <1>1, <1>3, LiveFinite DEF WaitGroupCounts

(* A handleConn is counted while it runs.                                   *)
LEMMA CountConn ==
    ASSUME WaitGroupCounts, TypeOK, LoopCount' = LoopCount, LiveOps' = LiveOps,
           NEW c \in Conn, NEW step, connPc' = [connPc EXCEPT ![c] = step],
           \/ wg' = wg + 1 /\ connPc[c] \notin ConnActive /\ step \in ConnActive
           \/ wg' = wg - 1 /\ connPc[c] \in ConnActive /\ step \notin ConnActive
    PROVE  WaitGroupCounts' /\ wg' \in Nat
<1>1. LoopCount \in Nat
  BY DEF LoopCount
<1>2. wg = LoopCount + Cardinality(LiveConns) + Cardinality(LiveOps)
  BY DEF WaitGroupCounts
<1>3. CASE wg' = wg + 1 /\ connPc[c] \notin ConnActive /\ step \in ConnActive
  <2>1. c \notin LiveConns /\ LiveConns' = LiveConns \cup {c}
    BY <1>3 DEF LiveConns, TypeOK
  <2>2. Cardinality(LiveConns') = Cardinality(LiveConns) + 1
    BY <2>1, LiveFinite, CardAdd
  <2> QED
    BY <1>1, <1>2, <1>3, <2>2, LiveFinite DEF WaitGroupCounts
<1>4. CASE wg' = wg - 1 /\ connPc[c] \in ConnActive /\ step \notin ConnActive
  <2>1. c \in LiveConns /\ LiveConns' = LiveConns \ {c}
    BY <1>4 DEF LiveConns, TypeOK
  <2>2. Cardinality(LiveConns') = Cardinality(LiveConns) - 1
    BY <2>1, LiveFinite, CardRemove
  <2>3. Cardinality(LiveConns') \in Nat
    BY <2>1, LiveFinite, FS_Subset, FS_CardinalityType
  <2> QED
    BY <1>1, <1>2, <1>4, <2>2, <2>3, LiveFinite DEF WaitGroupCounts
<1> QED
  BY <1>3, <1>4

(* A handleOperation is counted while it runs.                              *)
LEMMA CountOp ==
    ASSUME WaitGroupCounts, TypeOK, LoopCount' = LoopCount, LiveConns' = LiveConns,
           NEW o \in Op, NEW step, opPc' = [opPc EXCEPT ![o] = step],
           \/ wg' = wg + 1 /\ opPc[o] \notin OpActive /\ step \in OpActive
           \/ wg' = wg - 1 /\ opPc[o] \in OpActive /\ step \notin OpActive
    PROVE  WaitGroupCounts' /\ wg' \in Nat
<1>1. LoopCount \in Nat
  BY DEF LoopCount
<1>2. wg = LoopCount + Cardinality(LiveConns) + Cardinality(LiveOps)
  BY DEF WaitGroupCounts
<1>3. CASE wg' = wg + 1 /\ opPc[o] \notin OpActive /\ step \in OpActive
  <2>1. o \notin LiveOps /\ LiveOps' = LiveOps \cup {o}
    BY <1>3 DEF LiveOps, TypeOK
  <2>2. Cardinality(LiveOps') = Cardinality(LiveOps) + 1
    BY <2>1, LiveFinite, CardAdd
  <2> QED
    BY <1>1, <1>2, <1>3, <2>2, LiveFinite DEF WaitGroupCounts
<1>4. CASE wg' = wg - 1 /\ opPc[o] \in OpActive /\ step \notin OpActive
  <2>1. o \in LiveOps /\ LiveOps' = LiveOps \ {o}
    BY <1>4 DEF LiveOps, TypeOK
  <2>2. Cardinality(LiveOps') = Cardinality(LiveOps) - 1
    BY <2>1, LiveFinite, CardRemove
  <2>3. Cardinality(LiveOps') \in Nat
    BY <2>1, LiveFinite, FS_Subset, FS_CardinalityType
  <2> QED
    BY <1>1, <1>2, <1>4, <2>2, <2>3, LiveFinite DEF WaitGroupCounts
<1> QED
  BY <1>3, <1>4

-----------------------------------------------------------------------------
(* A step of a goroutine or of a peer leaves RegisterAgent, Listen and Stop *)
(* where they are; a goroutine that steps is counted, so wg is not zero.    *)
LEMMA BackgroundStep ==
    ASSUME IInv, UNCHANGED <<apiVars, socket>>, loop' \in {loop, "done"},
           wg' = wg \/ wg # 0
    PROVE  StopExcludesListen' /\ OpenSocketIsKnown' /\ StopProgress' /\ SingleListen'
<1> USE DEF IInv, apiVars
<1>1. StopExcludesListen'
  BY DEF StopExcludesListen
<1>2. OpenSocketIsKnown'
  BY DEF OpenSocketIsKnown
<1>3. StopProgress'
  BY DEF StopProgress
<1>4. SingleListen'
  BY DEF SingleListen
<1> QED
  BY <1>1, <1>2, <1>3, <1>4

(* A goroutine that is running is counted.                                  *)
LEMMA RunningIsCounted ==
    ASSUME WaitGroupCounts
    PROVE  /\ loop = "accept" => wg # 0
           /\ \A c \in Conn : connPc[c] \in ConnActive => wg # 0
           /\ \A o \in Op : opPc[o] \in OpActive => wg # 0
<1> SUFFICES ASSUME wg = 0
             PROVE  /\ loop # "accept"
                    /\ \A c \in Conn : connPc[c] \notin ConnActive
                    /\ \A o \in Op : opPc[o] \notin OpActive
  OBVIOUS
<1>1. loop # "accept" /\ LiveConns = {} /\ LiveOps = {}
  BY ZeroMeansQuiet
<1> QED
  BY <1>1 DEF LiveConns, LiveOps

(* RegisterAgent and the calls of Listen and Stop preserve the invariant.   *)
LEMMA ApiIInv ==
    ASSUME IInv,
           \/ \E id \in AgentID : RegisterAgent(id)
           \/ \E l \in ListenCall : Listen(l) \/ ListenStep(l)
           \/ \E s \in StopCall : Stop(s) \/ StopStep(s)
    PROVE  IInv'
<1> USE DEF IInv
<1>1. ASSUME NEW id \in AgentID, RegisterAgent(id) PROVE IInv'
  <2> USE <1>1 DEF RegisterAgent, connVars, peerVars
  <2>1. WaitGroupCounts' /\ wg' \in Nat
    BY CountSame DEF LoopCount, LiveConns, LiveOps
  <2>2. TypeOK'
    BY <2>1 DEF TypeOK
  <2> QED
    BY <2>1, <2>2, Zenon DEF StopExcludesListen, OpenSocketIsKnown, StopProgress, DoneIsClosed, SingleListen
<1>2. ASSUME NEW l \in ListenCall, Listen(l) PROVE IInv'
  <2>0. /\ listenPc[l] = "idle"
        /\ \E st \in {"already started", "stopped", "bind"} : listenPc' = [listenPc EXCEPT ![l] = st]
        /\ started => started'
        /\ started' \in BOOLEAN
        /\ UNCHANGED <<listener, wg, socket, loop>>
        /\ UNCHANGED <<stopped, agents, cancelled, stopPc, connPc, opPc, transport, closedBy,
                       hello, frame, sent, raced>>
    BY <1>2 DEF Listen, ListenGoto, connVars, peerVars, TypeOK
  <2>1. /\ listenPc' \in [ListenCall -> ListenStates]
        /\ listenPc'[l] \in {"already started", "stopped", "bind"}
        /\ \A m \in ListenCall \ {l} : listenPc'[m] = listenPc[m]
    <3>1. PICK st \in {"already started", "stopped", "bind"} : listenPc' = [listenPc EXCEPT ![l] = st]
      BY <2>0
    <3>2. listenPc \in [ListenCall -> ListenStates] /\ st \in ListenStates
      BY DEF TypeOK, ListenStates, Listening
    <3> QED
      BY <3>1, <3>2, Update
  <2>2. listenPc'[l] = "bind" => ~started /\ ~stopped /\ started'
    BY <1>2, <2>1 DEF Listen, ListenGoto, TypeOK
  <2>3. WaitGroupCounts' /\ wg' \in Nat
    BY <2>0, CountSame DEF LoopCount, LiveConns, LiveOps
  <2>4. TypeOK'
    BY <2>0, <2>1, <2>3 DEF TypeOK
  <2>5. StopExcludesListen'
    BY <2>0, <2>1, <2>2 DEF StopExcludesListen, Listening
  <2>6. OpenSocketIsKnown'
    BY <2>0, <2>1 DEF OpenSocketIsKnown
  <2>7. StopProgress' /\ DoneIsClosed'
    BY <2>0 DEF StopProgress, DoneIsClosed
  <2>8. SingleListen'
    BY <2>0, <2>1, <2>2, ZenonT(60) DEF SingleListen, Listening
  <2> QED
    BY <2>3, <2>4, <2>5, <2>6, <2>7, <2>8, ZenonT(60)
<1>3. ASSUME NEW l \in ListenCall, ListenBind(l) PROVE IInv'
  <2>0. /\ listenPc[l] = "bind"
        /\ \E st \in {"store", "failed"} : listenPc' = [listenPc EXCEPT ![l] = st]
        /\ UNCHANGED <<started, listener, wg, loop>>
        /\ UNCHANGED <<stopped, agents, cancelled, stopPc, connPc, opPc, transport, closedBy,
                       hello, frame, sent, raced>>
    BY <1>3 DEF ListenBind, ListenGoto, connVars, peerVars
  <2>1. /\ listenPc' \in [ListenCall -> ListenStates]
        /\ listenPc'[l] \in {"store", "failed"}
        /\ \A m \in ListenCall \ {l} : listenPc'[m] = listenPc[m]
    <3>1. PICK st \in {"store", "failed"} : listenPc' = [listenPc EXCEPT ![l] = st]
      BY <2>0, Zenon
    <3>2. listenPc \in [ListenCall -> ListenStates] /\ st \in ListenStates
      BY DEF TypeOK, ListenStates, Listening
    <3> QED
      BY <3>1, <3>2, Update
  <2>9. socket' = "open" \/ socket' = socket
    BY <1>3, Zenon DEF ListenBind
  <2>10. socket' = "open" => socket = "open" \/ listenPc'[l] = "store"
    BY <1>3, <2>1, ZenonT(60) DEF ListenBind, ListenGoto, TypeOK
  <2>2. (stopped => raced) /\ loop # "accept"
    BY <2>0 DEF StopExcludesListen, SingleListen, Listening
  <2>3. WaitGroupCounts' /\ wg' \in Nat
    BY <2>0, CountSame, Zenon DEF LoopCount, LiveConns, LiveOps
  <2>4. TypeOK'
    BY <2>0, <2>1, <2>3, <2>9, ZenonT(60) DEF TypeOK
  <2>5. StopExcludesListen'
    BY <2>0, <2>1, <2>2, Zenon DEF StopExcludesListen, Listening
  <2>6. OpenSocketIsKnown'
    BY <2>0, <2>1, <2>10, Zenon DEF OpenSocketIsKnown
  <2>7. StopProgress' /\ DoneIsClosed'
    BY <2>0, <2>2, Zenon DEF StopProgress, DoneIsClosed, StopExcludesListen
  <2>8. SingleListen'
    BY <2>0, <2>1 DEF SingleListen, Listening
  <2> QED
    BY <2>3, <2>4, <2>5, <2>6, <2>7, <2>8
<1>4. ASSUME NEW l \in ListenCall, ListenStore(l) PROVE IInv'
  <2>0. /\ listenPc[l] = "store"
        /\ \E st \in {"spawn"} : listenPc' = [listenPc EXCEPT ![l] = st]
        /\ UNCHANGED <<started, wg, socket, loop>>
        /\ listener' = "set"
        /\ UNCHANGED <<stopped, agents, cancelled, stopPc, connPc, opPc, transport, closedBy,
                       hello, frame, sent, raced>>
    BY <1>4 DEF ListenStore, ListenGoto, connVars, peerVars
  <2>1. /\ listenPc' \in [ListenCall -> ListenStates]
        /\ listenPc'[l] \in {"spawn"}
        /\ \A m \in ListenCall \ {l} : listenPc'[m] = listenPc[m]
    <3>1. PICK st \in {"spawn"} : listenPc' = [listenPc EXCEPT ![l] = st]
      BY <2>0
    <3>2. listenPc \in [ListenCall -> ListenStates] /\ st \in ListenStates
      BY DEF TypeOK, ListenStates, Listening
    <3> QED
      BY <3>1, <3>2, Update
  <2>2. (stopped => raced) /\ loop # "accept"
    BY <2>0, Zenon DEF StopExcludesListen, SingleListen, Listening
  <2>3. WaitGroupCounts' /\ wg' \in Nat
    BY <2>0, CountSame, Zenon DEF LoopCount, LiveConns, LiveOps
  <2>4. TypeOK'
    BY <2>0, <2>1, <2>3, ZenonT(60) DEF TypeOK
  <2>5. StopExcludesListen'
    BY <2>0, <2>1, <2>2, Zenon DEF StopExcludesListen, Listening
  <2>6. OpenSocketIsKnown'
    BY <2>0, <2>1, Zenon DEF OpenSocketIsKnown
  <2>7. StopProgress' /\ DoneIsClosed'
    BY <2>0, <2>2, Zenon DEF StopProgress, DoneIsClosed, StopExcludesListen
  <2>8. SingleListen'
    BY <2>0, <2>1, ZenonT(60) DEF SingleListen, Listening
  <2> QED
    BY <2>3, <2>4, <2>5, <2>6, <2>7, <2>8, Zenon
<1>5. ASSUME NEW l \in ListenCall, ListenSpawn(l) PROVE IInv'
  <2>0. /\ listenPc[l] = "spawn"
        /\ \E st \in {"ok"} : listenPc' = [listenPc EXCEPT ![l] = st]
        /\ UNCHANGED <<started, listener, socket>>
        /\ wg' = wg + 1 /\ loop' = "accept"
        /\ UNCHANGED <<stopped, agents, cancelled, stopPc, connPc, opPc, transport, closedBy,
                       hello, frame, sent, raced>>
    BY <1>5, Zenon DEF ListenSpawn, ListenGoto, connVars, peerVars
  <2>1. /\ listenPc' \in [ListenCall -> ListenStates]
        /\ listenPc'[l] \in {"ok"}
        /\ \A m \in ListenCall \ {l} : listenPc'[m] = listenPc[m]
    <3>1. PICK st \in {"ok"} : listenPc' = [listenPc EXCEPT ![l] = st]
      BY <2>0, Zenon
    <3>2. listenPc \in [ListenCall -> ListenStates] /\ st \in ListenStates
      BY DEF TypeOK, ListenStates, Listening
    <3> QED
      BY <3>1, <3>2, Update, Zenon
  <2>2. (stopped => raced) /\ loop # "accept"
    BY <2>0, Zenon DEF StopExcludesListen, SingleListen, Listening
  <2>3. WaitGroupCounts' /\ wg' \in Nat
    BY <2>0, <2>2, CountLoop, Zenon DEF LiveConns, LiveOps
  <2>4. TypeOK'
    BY <2>0, <2>1, <2>3, Zenon DEF TypeOK
  <2>5. StopExcludesListen'
    BY <2>0, <2>1, <2>2, Zenon DEF StopExcludesListen, Listening
  <2>6. OpenSocketIsKnown'
    BY <2>0, <2>1, Zenon DEF OpenSocketIsKnown
  <2>7. StopProgress' /\ DoneIsClosed'
    BY <2>0, <2>2, Zenon DEF StopProgress, DoneIsClosed, StopExcludesListen
  <2>8. SingleListen'
    BY <2>0, <2>1, ZenonT(60) DEF SingleListen, Listening
  <2> QED
    BY <2>3, <2>4, <2>5, <2>6, <2>7, <2>8, Zenon
<1>6. ASSUME NEW s \in StopCall, Stop(s) \/ StopStep(s) PROVE IInv'
  <2>0. /\ UNCHANGED <<started, agents, listener, wg, listenPc, loop, connPc, opPc, transport,
                       closedBy, hello, frame, sent>>
        /\ \E st \in {"cancel", "close", "wait", "done", "noop"} : stopPc' = [stopPc EXCEPT ![s] = st]
    BY <1>6, Zenon DEF Stop, StopStep, StopCancel, StopClose, StopWait, StopGoto, connVars, peerVars
  <2>1. /\ stopPc' \in [StopCall -> StopStates]
        /\ \A t \in StopCall \ {s} : stopPc'[t] = stopPc[t]
    <3>1. PICK st \in {"cancel", "close", "wait", "done", "noop"} : stopPc' = [stopPc EXCEPT ![s] = st]
      BY <2>0, Zenon
    <3>2. stopPc \in [StopCall -> StopStates] /\ st \in StopStates
      BY Zenon DEF TypeOK, StopStates
    <3> QED
      BY <3>1, <3>2, Update
  <2>2. WaitGroupCounts' /\ wg' \in Nat
    BY <2>0, CountSame, ZenonT(60) DEF LoopCount, LiveConns, LiveOps
  <2>3. SingleListen' /\ DoneIsClosed'
    BY <2>0 DEF SingleListen, DoneIsClosed
  <2>4. CASE Stop(s)
    <3>1. /\ UNCHANGED <<cancelled, socket>>
          /\ stopPc[s] = "idle" /\ stopPc'[s] \in {"noop", "cancel"}
          /\ stopped' = TRUE
          /\ stopped => raced' = raced
          /\ raced' \in BOOLEAN
          /\ ~stopped /\ ~raced' => \A l \in ListenCall : listenPc[l] \notin Listening
      BY <2>4, ZenonT(60) DEF Stop, StopGoto, TypeOK
    <3>2. TypeOK'
      BY <2>0, <2>1, <2>2, <3>1 DEF TypeOK
    <3>3. StopExcludesListen'
      BY <2>0, <2>1, <3>1 DEF StopExcludesListen
    <3>4. OpenSocketIsKnown'
      BY <2>0, <3>1, Zenon DEF OpenSocketIsKnown
    <3>5. StopProgress'
      BY <2>0, <2>1, <3>1 DEF StopProgress, StopExcludesListen
    <3> QED
      BY <2>2, <2>3, <3>2, <3>3, <3>4, <3>5
  <2>5. CASE StopCancel(s)
    <3>1. /\ UNCHANGED <<stopped, raced, socket>>
          /\ cancelled' = TRUE
          /\ stopPc[s] = "cancel" /\ stopPc'[s] = "close"
      BY <2>5, Zenon DEF StopCancel, StopGoto, TypeOK
    <3>2. TypeOK'
      BY <2>0, <2>1, <2>2, <3>1, ZenonT(60) DEF TypeOK
    <3> QED
      BY <2>0, <2>1, <2>2, <2>3, <3>1, <3>2, Zenon DEF StopExcludesListen, OpenSocketIsKnown, StopProgress
  <2>6. CASE StopClose(s)
    <3>1. /\ UNCHANGED <<stopped, raced, cancelled>>
          /\ socket' = IF listener = "set" THEN "closed" ELSE socket
          /\ stopPc[s] = "close" /\ stopPc'[s] = "wait"
      BY <2>6, ZenonT(60) DEF StopClose, StopGoto, TypeOK
    <3>2. TypeOK'
      BY <2>0, <2>1, <2>2, <3>1, ZenonT(60) DEF TypeOK
    <3>3. StopExcludesListen'
      BY <2>0, <2>1, <3>1, Zenon DEF StopExcludesListen
    <3>4. OpenSocketIsKnown'
      BY <2>0, <3>1, Zenon DEF OpenSocketIsKnown
    <3>5. ~raced => socket' # "open"
      BY <3>1, Zenon DEF OpenSocketIsKnown, StopExcludesListen, Listening
    <3>6. StopProgress'
      BY <2>0, <2>1, <3>1, <3>5, Zenon DEF StopProgress
    <3> QED
      BY <2>2, <2>3, <3>2, <3>3, <3>4, <3>6, Zenon
  <2>7. CASE StopWait(s)
    <3>1. /\ UNCHANGED <<stopped, raced, cancelled, socket>>
          /\ wg = 0
          /\ stopPc[s] = "wait" /\ stopPc'[s] = "done"
      BY <2>7, Zenon DEF StopWait, StopGoto, TypeOK
    <3>2. TypeOK'
      BY <2>0, <2>1, <2>2, <3>1, ZenonT(60) DEF TypeOK
    <3> QED
      BY <2>0, <2>1, <2>2, <2>3, <3>1, <3>2, Zenon DEF StopExcludesListen, OpenSocketIsKnown, StopProgress
  <2> QED
    BY <1>6, <2>4, <2>5, <2>6, <2>7, Zenon DEF StopStep
<1> QED
  BY <1>1, <1>2, <1>3, <1>4, <1>5, <1>6, Zenon DEF ListenStep

(* Closing a connection keeps the closed ones closed.                       *)
LEMMA Closing ==
    ASSUME TypeOK, NEW c \in Conn, CloseTransport(c)
    PROVE  /\ transport' \in [Conn -> {"none", "up", "closed"}]
           /\ closedBy' \in [Conn -> {"none", "node", "peer"}]
           /\ transport'[c] = "closed"
           /\ \A d \in Conn : transport[d] = "closed" => transport'[d] = "closed"
BY ZenonT(60) DEF CloseTransport, TypeOK

(* The accept loop and handleConn preserve the invariant.                   *)
LEMMA ConnIInv ==
    ASSUME IInv, AcceptLoop \/ \E c \in Conn : HandleConn(c)
    PROVE  IInv'
<1> USE DEF IInv
<1> DEFINE ConnStates == ConnActive \cup {"none", "done"}
<1>0. ASSUME NEW c \in Conn, NEW st \in ConnStates, connPc' = [connPc EXCEPT ![c] = st]
      PROVE  /\ connPc' \in [Conn -> ConnStates]
             /\ connPc'[c] = st
             /\ \A d \in Conn \ {c} : connPc'[d] = connPc[d]
  <2>1. connPc \in [Conn -> ConnStates]
    BY Zenon DEF TypeOK
  <2> QED
    BY <1>0, <2>1, Update, Zenon
<1>1. ASSUME AcceptError PROVE IInv'
  <2>0. /\ loop = "accept" /\ loop' = "done" /\ wg' = wg - 1
        /\ UNCHANGED <<apiVars, socket, connPc, opPc, connVars, peerVars, sent>>
    BY <1>1, Zenon DEF AcceptError
  <2>1. WaitGroupCounts' /\ wg' \in Nat
    BY <2>0, CountLoop, Zenon DEF LiveConns, LiveOps
  <2>2. TypeOK'
    BY <2>0, <2>1, Zenon DEF TypeOK, apiVars, connVars, peerVars
  <2>3. StopExcludesListen' /\ OpenSocketIsKnown' /\ StopProgress' /\ SingleListen'
    BY <2>0, RunningIsCounted, BackgroundStep, Zenon
  <2> QED
    BY <2>0, <2>1, <2>2, <2>3, Zenon DEF DoneIsClosed, connVars
<1>2. ASSUME NEW c \in Conn, Accept(c) PROVE IInv'
  <2>0. /\ loop = "accept" /\ wg' = wg + 1 /\ connPc[c] = "none"
        /\ connPc' = [connPc EXCEPT ![c] = "stream"]
        /\ UNCHANGED <<apiVars, socket, loop, opPc, connVars, peerVars, sent>>
    BY <1>2 DEF Accept
  <2>1. /\ connPc' \in [Conn -> ConnStates] /\ connPc'[c] = "stream"
        /\ \A d \in Conn \ {c} : connPc'[d] = connPc[d]
    BY <1>0, <2>0, Zenon DEF ConnActive
  <2>2. WaitGroupCounts' /\ wg' \in Nat
    BY <2>0, CountConn, Zenon DEF LoopCount, LiveOps, ConnActive
  <2>3. TypeOK'
    BY <2>0, <2>1, <2>2, ZenonT(60) DEF TypeOK, apiVars, connVars, peerVars
  <2>4. StopExcludesListen' /\ OpenSocketIsKnown' /\ StopProgress' /\ SingleListen'
    BY <2>0, RunningIsCounted, BackgroundStep, Zenon
  <2>5. DoneIsClosed'
    BY <2>0, <2>1 DEF DoneIsClosed, connVars
  <2> QED
    BY <2>2, <2>3, <2>4, <2>5, Zenon
<1>3. ASSUME NEW c \in Conn,
             HandshakeStream(c) \/ HandshakeHello(c) \/ AcceptOperationError(c)
      PROVE  IInv'
  <2>0. /\ connPc[c] \in {"stream", "hello", "ops"}
        /\ \E st \in {"hello", "ops", "exit"} : connPc' = [connPc EXCEPT ![c] = st]
        /\ UNCHANGED connVars \/ CloseTransport(c)
        /\ UNCHANGED <<apiVars, wg, socket, loop, opPc, peerVars, sent>>
    BY <1>3 DEF HandshakeStream, HandshakeHello, AcceptOperationError, ConnGoto
  <2>1. PICK st \in {"hello", "ops", "exit"} : connPc' = [connPc EXCEPT ![c] = st]
    BY <2>0, Zenon
  <2>2. /\ connPc' \in [Conn -> ConnStates] /\ connPc'[c] = st
        /\ \A d \in Conn \ {c} : connPc'[d] = connPc[d]
    BY <1>0, <2>1, Zenon DEF ConnActive
  <2>3. WaitGroupCounts' /\ wg' \in Nat
    <3>1. LiveConns' = LiveConns
      BY <2>0, <2>2, Zenon DEF LiveConns, ConnActive
    <3> QED
      BY <2>0, <3>1, CountSame, Zenon DEF LoopCount, LiveOps
  <2>4. /\ transport' \in [Conn -> {"none", "up", "closed"}]
        /\ closedBy' \in [Conn -> {"none", "node", "peer"}]
        /\ \A d \in Conn : transport[d] = "closed" => transport'[d] = "closed"
    <3>1. CASE UNCHANGED connVars
      BY <3>1, SMTT(30) DEF connVars, TypeOK
    <3> QED
      BY <2>0, <3>1, Closing, Zenon
  <2>5. TypeOK'
    BY <2>0, <2>2, <2>3, <2>4, ZenonT(60) DEF TypeOK, apiVars, peerVars
  <2>6. StopExcludesListen' /\ OpenSocketIsKnown' /\ StopProgress' /\ SingleListen'
    BY <2>0, BackgroundStep
  <2>7. DoneIsClosed'
    BY <2>2, <2>4, ZenonT(60) DEF DoneIsClosed
  <2> QED
    BY <2>3, <2>5, <2>6, <2>7, ZenonT(60)
<1>4. ASSUME NEW c \in Conn, AcceptOperation(c) PROVE IInv'
  <2>0. /\ connPc[c] = "ops" /\ wg' = wg + 1
        /\ \E o \in Waiting(c) : opPc' = [opPc EXCEPT ![o] = "recv"]
        /\ UNCHANGED <<apiVars, socket, loop, connPc, connVars, peerVars, sent>>
    BY <1>4, Zenon DEF AcceptOperation
  <2>1. PICK o \in Op : opPc[o] = "none" /\ opPc' = [opPc EXCEPT ![o] = "recv"]
    BY <2>0, Zenon DEF Waiting
  <2>2. WaitGroupCounts' /\ wg' \in Nat
    BY <2>0, <2>1, CountOp, Zenon DEF LoopCount, LiveConns, OpActive
  <2>3. opPc' \in [Op -> OpActive \cup {"none", "done"}]
    BY <2>1, Zenon DEF TypeOK, OpActive
  <2>4. TypeOK'
    BY <2>0, <2>2, <2>3, ZenonT(60) DEF TypeOK, apiVars, connVars, peerVars
  <2>5. wg # 0
    BY <2>0, RunningIsCounted, Zenon DEF ConnActive
  <2>6. StopExcludesListen' /\ OpenSocketIsKnown' /\ StopProgress' /\ SingleListen'
    BY <2>0, <2>5, BackgroundStep, Zenon
  <2> QED
    BY <2>0, <2>2, <2>4, <2>6, Zenon DEF DoneIsClosed, connVars
<1>5. ASSUME NEW c \in Conn, ConnExit(c) PROVE IInv'
  <2>0. /\ connPc[c] = "exit" /\ wg' = wg - 1
        /\ connPc' = [connPc EXCEPT ![c] = "done"]
        /\ CloseTransport(c)
        /\ UNCHANGED <<apiVars, socket, loop, opPc, peerVars, sent>>
    BY <1>5 DEF ConnExit, ConnGoto
  <2>1. /\ connPc' \in [Conn -> ConnStates] /\ connPc'[c] = "done"
        /\ \A d \in Conn \ {c} : connPc'[d] = connPc[d]
    BY <1>0, <2>0, Zenon
  <2>2. WaitGroupCounts' /\ wg' \in Nat
    BY <2>0, CountConn, ZenonT(60) DEF LoopCount, LiveOps, ConnActive
  <2>3. TypeOK'
    BY <2>0, <2>1, <2>2, Closing, ZenonT(60) DEF TypeOK, apiVars, peerVars
  <2>4. wg # 0
    BY <2>0, RunningIsCounted, Zenon DEF ConnActive
  <2>5. StopExcludesListen' /\ OpenSocketIsKnown' /\ StopProgress' /\ SingleListen'
    BY <2>0, <2>4, BackgroundStep, Zenon
  <2>6. DoneIsClosed'
    BY <2>0, <2>1, Closing, ZenonT(60) DEF DoneIsClosed
  <2> QED
    BY <2>2, <2>3, <2>5, <2>6, Zenon
<1> QED
  BY <1>1, <1>2, <1>3, <1>4, <1>5, Zenon DEF AcceptLoop, HandleConn

(* handleOperation, agents and peers preserve the invariant.                *)
LEMMA OpIInv ==
    ASSUME IInv,
           \/ \E o \in Op : HandleOperation(o) \/ AgentSend(o)
           \/ \E c \in Conn : PeerDials(c) \/ PeerSendsHello(c) \/ PeerCloses(c)
           \/ \E o \in Op : PeerSendsFrame(o)
    PROVE  IInv'
<1> USE DEF IInv
<1>1. ASSUME NEW o \in Op, OpRecv(o) \/ AgentReturns(o) PROVE IInv'
  <2>0. /\ opPc[o] \in {"recv", "handle"}
        /\ \E st \in {"handle", "exit"} : opPc' = [opPc EXCEPT ![o] = st]
        /\ UNCHANGED <<apiVars, wg, socket, loop, connPc, connVars, peerVars, sent>>
    BY <1>1, Zenon DEF OpRecv, AgentReturns, OpGoto
  <2>1. /\ opPc' \in [Op -> OpActive \cup {"none", "done"}]
        /\ opPc'[o] \in OpActive
        /\ \A p \in Op \ {o} : opPc'[p] = opPc[p]
    BY <2>0 DEF TypeOK, OpActive
  <2>2. LiveOps' = LiveOps
    BY <2>0, <2>1, Zenon DEF LiveOps, OpActive
  <2>3. WaitGroupCounts' /\ wg' \in Nat
    BY <2>0, <2>2, CountSame, Zenon DEF LoopCount, LiveConns
  <2>4. TypeOK'
    BY <2>0, <2>1, <2>3, ZenonT(60) DEF TypeOK, apiVars, connVars, peerVars
  <2>5. StopExcludesListen' /\ OpenSocketIsKnown' /\ StopProgress' /\ SingleListen'
    BY <2>0, BackgroundStep, Zenon
  <2> QED
    BY <2>0, <2>3, <2>4, <2>5, ZenonT(60) DEF DoneIsClosed, connVars
<1>2. ASSUME NEW o \in Op, OpExit(o) PROVE IInv'
  <2>0. /\ opPc[o] = "exit" /\ wg' = wg - 1
        /\ opPc' = [opPc EXCEPT ![o] = "done"]
        /\ UNCHANGED <<apiVars, socket, loop, connPc, connVars, peerVars, sent>>
    BY <1>2, Zenon DEF OpExit, OpGoto
  <2>1. opPc' \in [Op -> OpActive \cup {"none", "done"}]
    BY <2>0 DEF TypeOK
  <2>2. WaitGroupCounts' /\ wg' \in Nat
    BY <2>0, CountOp, ZenonT(60) DEF LoopCount, LiveConns, OpActive
  <2>3. TypeOK'
    BY <2>0, <2>1, <2>2, Zenon DEF TypeOK, apiVars, connVars, peerVars
  <2>4. wg # 0
    BY <2>0, RunningIsCounted DEF OpActive
  <2>5. StopExcludesListen' /\ OpenSocketIsKnown' /\ StopProgress' /\ SingleListen'
    BY <2>0, <2>4, BackgroundStep, Zenon
  <2> QED
    BY <2>0, <2>2, <2>3, <2>5, Zenon DEF DoneIsClosed, connVars
<1>3. ASSUME UNCHANGED <<apiVars, wg, socket, loop, connPc, opPc>>,
             transport' \in [Conn -> {"none", "up", "closed"}],
             closedBy' \in [Conn -> {"none", "node", "peer"}],
             hello' \in [Conn -> {"none", "partial", "good", "bad"}],
             frame' \in [Op -> NotInvoke \cup AgentID],
             sent' \in [Op -> {"none", "ok", "failed"}],
             \A c \in Conn : transport[c] = "closed" => transport'[c] = "closed"
      PROVE  IInv'
  <2>1. WaitGroupCounts' /\ wg' \in Nat
    BY <1>3, CountSame, Zenon DEF LoopCount, LiveConns, LiveOps
  <2>2. TypeOK'
    BY <1>3, <2>1, ZenonT(60) DEF TypeOK, apiVars
  <2>3. StopExcludesListen' /\ OpenSocketIsKnown' /\ StopProgress' /\ SingleListen'
    BY <1>3, BackgroundStep, SMTT(30)
  <2>4. DoneIsClosed'
    BY <1>3, ZenonT(60) DEF DoneIsClosed
  <2> QED
    BY <2>1, <2>2, <2>3, <2>4, Zenon
<1>4. ASSUME NEW o \in Op, AgentSend(o) PROVE IInv'
  BY <1>3, <1>4, Zenon DEF AgentSend, connVars, peerVars, TypeOK
<1>5. ASSUME NEW c \in Conn, PeerDials(c) PROVE IInv'
  BY <1>3, <1>5, ZenonT(60) DEF PeerDials, connVars, peerVars, TypeOK
<1>6. ASSUME NEW c \in Conn, PeerSendsHello(c) PROVE IInv'
  <2>1. /\ hello' \in [Conn -> {"none", "partial", "good", "bad"}]
        /\ UNCHANGED <<apiVars, wg, socket, loop, connPc, opPc, transport, closedBy, frame, sent>>
    BY <1>6, SMTT(30) DEF PeerSendsHello, connVars, TypeOK
  <2> QED
    BY <1>3, <2>1, Zenon DEF TypeOK
<1>7. ASSUME NEW c \in Conn, PeerCloses(c) PROVE IInv'
  BY <1>3, <1>7, SMTT(30) DEF PeerCloses, connVars, peerVars, TypeOK
<1>8. ASSUME NEW o \in Op, PeerSendsFrame(o) PROVE IInv'
  <2>1. frame' \in [Op -> NotInvoke \cup AgentID]
    BY <1>8 DEF PeerSendsFrame, TypeOK, NotInvoke
  <2> QED
    BY <1>3, <1>8, <2>1, Zenon DEF PeerSendsFrame, connVars, TypeOK
<1> QED
  BY <1>1, <1>2, <1>4, <1>5, <1>6, <1>7, <1>8, Zenon DEF HandleOperation

(* Every step keeps the invariant.                                          *)
LEMMA NextIInv == IInv /\ [Next]_vars => IInv'
<1> SUFFICES ASSUME IInv, [Next]_vars PROVE IInv'
  OBVIOUS
<1>1. CASE UNCHANGED vars
  <2>1. UNCHANGED <<apiVars, wg, socket, loop, connPc, opPc, transport, closedBy, hello, frame, sent>>
    BY <1>1, Zenon DEF vars, apiVars
  <2>2. TypeOK'
    BY <2>1, ZenonT(60) DEF IInv, TypeOK, apiVars
  <2>3. WaitGroupCounts'
    BY <2>1, Zenon DEF IInv, WaitGroupCounts, LoopCount, LiveConns, LiveOps
  <2>4. StopExcludesListen' /\ OpenSocketIsKnown' /\ StopProgress' /\ SingleListen'
    BY <2>1, Zenon DEF IInv, StopExcludesListen, OpenSocketIsKnown, StopProgress, SingleListen, apiVars
  <2>5. DoneIsClosed'
    BY <2>1 DEF IInv, DoneIsClosed
  <2> QED
    BY <2>2, <2>3, <2>4, <2>5, Zenon DEF IInv
<1> QED
  BY <1>1, ApiIInv, ConnIInv, OpIInv, Zenon DEF Next

(* IInv holds in every state of every run of a Node.                        *)
LEMMA Invariance == Spec => []IInv
<1>1. Init => IInv
  BY InitIInv
<1>2. IInv /\ [Next]_vars => IInv'
  BY NextIInv
<1> QED
  BY <1>1, <1>2, PTL DEF Spec

-----------------------------------------------------------------------------
(* The state of a Node, its calls, connections and operations is well typed;*)
(* in particular the WaitGroup counter is never negative.                   *)
THEOREM TypeCorrect == Spec => []TypeOK
<1>1. IInv => TypeOK
  BY DEF IInv
<1> QED
  BY <1>1, Invariance, PTL

(* n.wg counts the running goroutines: node.go:109, 143, 149, 155, 166, 168.*)
THEOREM WaitGroupIsExact == Spec => []WaitGroupCounts
<1>1. IInv => WaitGroupCounts
  BY DEF IInv
<1> QED
  BY <1>1, Invariance, PTL

(* After a Stop (node.go:125-140) that met no Listen under way has          *)
(* returned, no goroutine of the node runs, its socket is closed and every  *)
(* connection it served is closed, and this remains so.                     *)
THEOREM StopCompletes == Spec => []StopIsComplete
<1>1. IInv => StopIsComplete
  <2> SUFFICES ASSUME IInv, NEW s \in StopCall, stopPc[s] = "done", ~raced
               PROVE  /\ socket # "open"
                      /\ loop # "accept"
                      /\ LiveConns = {} /\ LiveOps = {}
                      /\ \A c \in Conn : connPc[c] = "done" => transport[c] = "closed"
    BY DEF StopIsComplete
  <2>1. socket # "open" /\ wg = 0
    BY DEF IInv, StopProgress
  <2>2. loop # "accept" /\ LiveConns = {} /\ LiveOps = {}
    BY <2>1, ZeroMeansQuiet, Zenon DEF IInv
  <2> QED
    BY <2>1, <2>2, Zenon DEF IInv, DoneIsClosed
<1> QED
  BY <1>1, Invariance, PTL

-----------------------------------------------------------------------------
(* Operations are accepted only behind a good HELLO, and a handleConn that  *)
(* is about to end has a closed connection or a node that is stopping.      *)
ConnProgress ==
    /\ \A c \in Conn : connPc[c] = "ops" => hello[c] = "good"
    /\ \A c \in Conn : connPc[c] = "exit" => transport[c] = "closed" \/ cancelled

DInv == ConnProgress /\ ConnectionDiscipline

(* A step that lets connections and handshakes alone and never takes back   *)
(* the cancellation keeps DInv.                                             *)
LEMMA DisciplineUntouched ==
    ASSUME DInv, UNCHANGED <<connPc, opPc, transport, closedBy, hello>>, cancelled => cancelled'
    PROVE  DInv'
BY Zenon DEF DInv, ConnProgress, ConnectionDiscipline

(* handleConn keeps DInv.                                                   *)
LEMMA HandleConnDiscipline ==
    ASSUME TypeOK, DInv, NEW c \in Conn, HandleConn(c)
    PROVE  DInv'
<1> USE DEF DInv
<1>1. cancelled' = cancelled /\ hello' = hello
  BY ZenonT(60) DEF HandleConn, HandshakeStream, HandshakeHello, AcceptOperation, AcceptOperationError,
         ConnExit, apiVars, peerVars
<1>2. ASSUME connPc[c] = "exit" \/ hello[c] = "bad" \/ cancelled \/ transport[c] = "closed",
             CloseTransport(c)
      PROVE  /\ \A d \in Conn : closedBy'[d] = "node" => cancelled \/ hello[d] = "bad"
             /\ transport'[c] = "closed"
             /\ \A d \in Conn \ {c} : transport'[d] = transport[d]
  <2>1. transport[c] = "up" => hello[c] = "bad" \/ cancelled
    BY <1>2, Zenon DEF ConnProgress
  <2>2. /\ transport'[c] = "closed"
        /\ \A d \in Conn \ {c} : transport'[d] = transport[d] /\ closedBy'[d] = closedBy[d]
        /\ closedBy'[c] = IF transport[c] = "up" THEN "node" ELSE closedBy[c]
    BY <1>2, ZenonT(60) DEF CloseTransport, TypeOK
  <2> QED
    BY <2>1, <2>2, ZenonT(60) DEF ConnectionDiscipline
<1>3. ASSUME NEW step, ConnGoto(c, step)
      PROVE  connPc'[c] = step /\ \A d \in Conn \ {c} : connPc'[d] = connPc[d]
  BY <1>3, SMTT(30) DEF ConnGoto, TypeOK
<1>4. CASE HandshakeStream(c)
  <2>1. CASE UNCHANGED connVars /\ ConnGoto(c, "hello")
    <3>1. connPc'[c] = "hello" /\ \A d \in Conn \ {c} : connPc'[d] = connPc[d]
      BY <1>3, <2>1, ZenonT(60)
    <3>2. UNCHANGED <<opPc, transport, closedBy>>
      BY <1>4, <2>1, Zenon DEF HandshakeStream, connVars
    <3>3. ConnProgress'
      BY <1>1, <3>1, <3>2, ZenonT(60) DEF ConnProgress
    <3>4. ConnectionDiscipline'
      BY <1>1, <3>2 DEF ConnectionDiscipline
    <3> QED  BY <3>3, <3>4
  <2>2. CASE CloseTransport(c) /\ ConnGoto(c, "exit") /\ (transport[c] = "closed" \/ cancelled)
    <3>1. /\ connPc'[c] = "exit" /\ \A d \in Conn \ {c} : connPc'[d] = connPc[d]
          /\ transport'[c] = "closed" /\ \A d \in Conn \ {c} : transport'[d] = transport[d]
          /\ \A d \in Conn : closedBy'[d] = "node" => cancelled \/ hello[d] = "bad"
      BY <1>2, <1>3, <2>2, Zenon
    <3>2. opPc' = opPc
      BY <1>4, Zenon DEF HandshakeStream
    <3>3. ConnProgress'
      BY <1>1, <3>1, Zenon DEF ConnProgress
    <3>4. ConnectionDiscipline'
      BY <1>1, <3>1, <3>2, Zenon DEF ConnectionDiscipline
    <3> QED  BY <3>3, <3>4
  <2> QED
    BY <1>4, <2>1, <2>2, Zenon DEF HandshakeStream
<1>5. CASE HandshakeHello(c)
  <2>1. CASE UNCHANGED connVars /\ ConnGoto(c, "ops") /\ hello[c] = "good"
    <3>1. connPc'[c] = "ops" /\ \A d \in Conn \ {c} : connPc'[d] = connPc[d]
      BY <1>3, <2>1, ZenonT(60)
    <3>2. UNCHANGED <<opPc, transport, closedBy>>
      BY <1>5, <2>1, Zenon DEF HandshakeHello, connVars
    <3>3. ConnProgress'
      BY <1>1, <2>1, <3>1, <3>2, Zenon DEF ConnProgress
    <3>4. ConnectionDiscipline'
      BY <1>1, <3>2, Zenon DEF ConnectionDiscipline
    <3> QED  BY <3>3, <3>4
  <2>2. CASE /\ CloseTransport(c) /\ ConnGoto(c, "exit")
             /\ hello[c] = "bad" \/ cancelled \/ transport[c] = "closed"
    <3>1. /\ connPc'[c] = "exit" /\ \A d \in Conn \ {c} : connPc'[d] = connPc[d]
          /\ transport'[c] = "closed" /\ \A d \in Conn \ {c} : transport'[d] = transport[d]
          /\ \A d \in Conn : closedBy'[d] = "node" => cancelled \/ hello[d] = "bad"
      BY <1>2, <1>3, <2>2, Zenon
    <3>2. opPc' = opPc
      BY <1>5, Zenon DEF HandshakeHello
    <3>3. ConnProgress'
      BY <1>1, <3>1, Zenon DEF ConnProgress
    <3>4. ConnectionDiscipline'
      BY <1>1, <3>1, <3>2, Zenon DEF ConnectionDiscipline
    <3> QED  BY <3>3, <3>4, Zenon
  <2> QED
    BY <1>5, <2>1, <2>2, Zenon DEF HandshakeHello
<1>6. CASE AcceptOperation(c)
  <2>1. PICK o \in Waiting(c) : opPc' = [opPc EXCEPT ![o] = "recv"]
    BY <1>6, Zenon DEF AcceptOperation
  <2>2. /\ o \in Op /\ ConnOf[o] = c /\ hello[c] = "good"
        /\ \A p \in Op \ {o} : opPc'[p] = opPc[p]
    BY <1>6, <2>1, ZenonT(60) DEF AcceptOperation, Waiting, ConnProgress, TypeOK
  <2> QED
    BY <1>1, <1>6, <2>2, ZenonT(60) DEF AcceptOperation, ConnProgress, ConnectionDiscipline, connVars
<1>7. CASE AcceptOperationError(c)
  <2>1. connPc'[c] = "exit" /\ \A d \in Conn \ {c} : connPc'[d] = connPc[d]
    BY <1>3, <1>7, Zenon DEF AcceptOperationError
  <2>2. UNCHANGED <<opPc, transport, closedBy>>
    BY <1>7, Zenon DEF AcceptOperationError, connVars
  <2>3. ConnProgress'
    BY <1>1, <1>7, <2>1, <2>2, Zenon DEF ConnProgress, AcceptOperationError
  <2>4. ConnectionDiscipline'
    BY <1>1, <2>2, Zenon DEF ConnectionDiscipline
  <2> QED  BY <2>3, <2>4
<1>8. CASE ConnExit(c)
  <2>1. connPc[c] = "exit" /\ CloseTransport(c) /\ ConnGoto(c, "done") /\ opPc' = opPc
    BY <1>8 DEF ConnExit
  <2>2. /\ connPc'[c] = "done" /\ \A d \in Conn \ {c} : connPc'[d] = connPc[d]
        /\ transport'[c] = "closed" /\ \A d \in Conn \ {c} : transport'[d] = transport[d]
        /\ \A d \in Conn : closedBy'[d] = "node" => cancelled \/ hello[d] = "bad"
    BY <1>2, <1>3, <2>1, Zenon
  <2>3. ConnProgress'
    BY <1>1, <2>2, Zenon DEF ConnProgress
  <2>4. ConnectionDiscipline'
    BY <1>1, <2>1, <2>2, Zenon DEF ConnectionDiscipline
  <2> QED  BY <2>3, <2>4, Zenon
<1> QED
  BY <1>4, <1>5, <1>6, <1>7, <1>8, Zenon DEF HandleConn

(* Every step keeps the invariant about connections.                        *)
LEMMA NextDiscipline == TypeOK /\ DInv /\ [Next]_vars => DInv'
<1> SUFFICES ASSUME TypeOK, DInv, [Next]_vars PROVE DInv'
  BY Zenon
<1>1. CASE UNCHANGED vars
  BY <1>1, DisciplineUntouched, Zenon DEF vars
<1>2. ASSUME NEW id \in AgentID, RegisterAgent(id) PROVE DInv'
  BY <1>2, DisciplineUntouched, Zenon DEF RegisterAgent, connVars, peerVars
<1>3. ASSUME NEW l \in ListenCall, Listen(l) \/ ListenStep(l) PROVE DInv'
  <2>1. UNCHANGED <<connPc, opPc, connVars, peerVars, cancelled>>
    BY <1>3, Zenon DEF Listen, ListenStep, ListenBind, ListenStore, ListenSpawn
  <2> QED
    BY <2>1, DisciplineUntouched DEF connVars, peerVars
<1>4. ASSUME NEW s \in StopCall, Stop(s) \/ StopStep(s) PROVE DInv'
  <2>1. UNCHANGED <<connPc, opPc, connVars, peerVars>> /\ (cancelled => cancelled')
    <3>1. CASE Stop(s)
      BY <3>1, Zenon DEF Stop
    <3>2. CASE StopCancel(s)
      BY <3>2, Zenon DEF StopCancel
    <3>3. CASE StopClose(s) \/ StopWait(s)
      BY <3>3 DEF StopClose, StopWait
    <3> QED
      BY <1>4, <3>1, <3>2, <3>3, Zenon DEF StopStep
  <2> QED
    BY <2>1, DisciplineUntouched, Zenon DEF connVars, peerVars
<1>5. CASE AcceptError
  BY <1>5, DisciplineUntouched, Zenon DEF AcceptError, apiVars, connVars, peerVars
<1>6. ASSUME NEW c \in Conn, Accept(c) PROVE DInv'
  <2>1. /\ connPc' = [connPc EXCEPT ![c] = "stream"]
        /\ UNCHANGED <<opPc, transport, closedBy, hello, cancelled>>
    BY <1>6, Zenon DEF Accept, apiVars, connVars, peerVars
  <2>2. connPc'[c] = "stream" /\ \A d \in Conn \ {c} : connPc'[d] = connPc[d]
    BY <2>1 DEF TypeOK
  <2> QED
    BY <2>1, <2>2, ZenonT(60) DEF DInv, ConnProgress, ConnectionDiscipline
<1>7. ASSUME NEW c \in Conn, HandleConn(c) PROVE DInv'
  BY <1>7, HandleConnDiscipline, SMTT(30)
<1>8. ASSUME NEW o \in Op, HandleOperation(o) \/ AgentSend(o) PROVE DInv'
  <2>1. /\ UNCHANGED <<connPc, transport, closedBy, hello, cancelled>>
        /\ \A p \in Op : opPc[p] = "none" => opPc'[p] = "none"
    <3>1. CASE OpRecv(o) \/ AgentReturns(o) \/ OpExit(o)
      <4>1. opPc[o] # "none" /\ \E st \in {"handle", "exit", "done"} : opPc' = [opPc EXCEPT ![o] = st]
        BY <3>1, ZenonT(60) DEF OpRecv, AgentReturns, OpExit, OpGoto
      <4> QED
        BY <3>1, <4>1, SMTT(30) DEF OpRecv, AgentReturns, OpExit, apiVars, connVars, peerVars, TypeOK
    <3>2. CASE AgentSend(o)
      BY <3>2, ZenonT(60) DEF AgentSend, apiVars, connVars, peerVars
    <3> QED
      BY <1>8, <3>1, <3>2, ZenonT(60) DEF HandleOperation
  <2> QED
    BY <2>1, ZenonT(60) DEF DInv, ConnProgress, ConnectionDiscipline
<1>9. ASSUME NEW c \in Conn, PeerDials(c) \/ PeerCloses(c) PROVE DInv'
  <2>1. /\ UNCHANGED <<connPc, opPc, hello, cancelled>>
        /\ \A d \in Conn : transport[d] = "closed" => transport'[d] = "closed"
        /\ \A d \in Conn : closedBy'[d] = "node" => closedBy[d] = "node"
    BY <1>9, SMTT(30) DEF PeerDials, PeerCloses, apiVars, peerVars, TypeOK
  <2> QED
    BY <2>1, Zenon DEF DInv, ConnProgress, ConnectionDiscipline
<1>10. ASSUME NEW c \in Conn, PeerSendsHello(c) PROVE DInv'
  <2>1. /\ UNCHANGED <<connPc, opPc, transport, closedBy, cancelled>>
        /\ \A d \in Conn : hello[d] \in {"good", "bad"} => hello'[d] = hello[d]
    BY <1>10, SMTT(30) DEF PeerSendsHello, apiVars, connVars, TypeOK
  <2> QED
    BY <2>1, NodeAssumption, Zenon DEF DInv, ConnProgress, ConnectionDiscipline
<1>11. ASSUME NEW o \in Op, PeerSendsFrame(o) PROVE DInv'
  BY <1>11, DisciplineUntouched, Zenon DEF PeerSendsFrame, apiVars, connVars
<1> QED
  BY <1>1, <1>2, <1>3, <1>4, <1>5, <1>6, <1>7, <1>8, <1>9, <1>10, <1>11, ZenonT(60) DEF Next, AcceptLoop

(* For any number of connections and operations, the node closes a          *)
(* connection only after a failed handshake or while stopping, and runs     *)
(* operations only behind an accepted HELLO (node.go:154-173).              *)
THEOREM ConnectionsAreDisciplined == Spec => []ConnectionDiscipline
<1>1. Init => DInv
  BY NodeAssumption DEF Init, DInv, ConnProgress, ConnectionDiscipline
<1>2. TypeOK /\ DInv /\ [Next]_vars => DInv'
  BY NextDiscipline
<1>3. DInv => ConnectionDiscipline
  BY DEF DInv
<1> QED
  BY <1>1, <1>2, <1>3, TypeCorrect, PTL DEF Spec

=============================================================================
