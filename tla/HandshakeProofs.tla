-------------------------- MODULE HandshakeProofs ---------------------------
(***************************************************************************)
(* Proofs that two ends of a connection never complete the handshake with   *)
(* different results, for any two configurations.                           *)
(*                                                                         *)
(* The argument: what each end computes depends only on the two             *)
(* configurations, and the computation is symmetric: NegotiationError gives *)
(* both ends the same verdict (VerdictSymmetric), and Active gives both the *)
(* same set (ActiveSymmetric), because names are unique in a list that is   *)
(* not refused.                                                             *)
(***************************************************************************)
EXTENDS Handshake, TLAPS

ActiveEntries(local, peer) ==
    {Active(local, peer)[i] : i \in DOMAIN Active(local, peer)}

(* NegotiateCapabilities gives the two ends the same verdict.               *)
LEMMA VerdictSymmetric ==
    ASSUME NEW a, NEW b
    PROVE  NegotiationError(a, b) = NegotiationError(b, a)
BY DEF NegotiationError

(* In a list without duplicates the index finds every entry by its name.    *)
LEMMA IndexFinds ==
    ASSUME NEW caps, ~HasDuplicate(caps), NEW i \in DOMAIN caps
    PROVE  ByName(caps, caps[i].name) = caps[i]
<1> DEFINE k == CHOOSE j \in DOMAIN caps : caps[j].name = caps[i].name
<1>1. k \in DOMAIN caps /\ caps[k].name = caps[i].name
  OBVIOUS
<1>2. k = i
  BY <1>1 DEF HasDuplicate
<1> QED
  BY <1>2 DEF ByName

(* Every entry of one end's active list is in the other end's.              *)
LEMMA ActiveIncluded ==
    ASSUME NEW a \in Seq(CapabilityType), NEW b \in Seq(CapabilityType),
           ~HasDuplicate(a), ~HasDuplicate(b)
    PROVE  ActiveEntries(a, b) \subseteq ActiveEntries(b, a)
<1> SUFFICES ASSUME NEW i \in DOMAIN Active(a, b)
             PROVE  \E j \in DOMAIN Active(b, a) : Active(b, a)[j] = Active(a, b)[i]
  BY DEF ActiveEntries
<1>1. i \in DOMAIN a /\ a[i].name \in Names(b)
  BY DEF Active
<1>2. PICK j \in DOMAIN b : b[j].name = a[i].name
  BY <1>1 DEF Names
<1>3. b[j].name \in Names(a)
  BY <1>1, <1>2 DEF Names
<1>4. ByName(b, a[i].name) = b[j] /\ ByName(a, b[j].name) = a[i]
  BY <1>1, <1>2, IndexFinds
<1>5. a[i] \in CapabilityType /\ b[j] \in CapabilityType
  BY <1>1, <1>2
<1>6. LesserVersion(a[i], b[j]) = LesserVersion(b[j], a[i])
  BY <1>5 DEF LesserVersion, CapabilityType
<1>7. Active(a, b)[i] = [name |-> a[i].name, version |-> LesserVersion(a[i], b[j])]
  BY <1>1, <1>4 DEF Active
<1>8. j \in DOMAIN Active(b, a)
      /\ Active(b, a)[j] = [name |-> b[j].name, version |-> LesserVersion(b[j], a[i])]
  BY <1>2, <1>3, <1>4 DEF Active
<1> QED
  BY <1>2, <1>6, <1>7, <1>8

(* The two ends compute the same set of active capabilities.                *)
LEMMA ActiveSymmetric ==
    ASSUME NEW a \in Seq(CapabilityType), NEW b \in Seq(CapabilityType),
           ~HasDuplicate(a), ~HasDuplicate(b)
    PROVE  ActiveEntries(a, b) = ActiveEntries(b, a)
BY ActiveIncluded

(* An entry of the active list is an entry of either list in the lesser of  *)
(* their two versions.                                                      *)
LEMMA ActiveEntry ==
    ASSUME NEW a \in Seq(CapabilityType), NEW b \in Seq(CapabilityType),
           ~HasDuplicate(b), NEW i \in DOMAIN Active(a, b)
    PROVE  /\ i \in DOMAIN a /\ Active(a, b)[i].name = a[i].name
           /\ Active(a, b)[i].version <= a[i].version
           /\ \A j \in DOMAIN b : b[j].name = a[i].name => Active(a, b)[i].version <= b[j].version
<1>1. i \in DOMAIN a /\ a[i].name \in Names(b)
  BY DEF Active
<1>2. ASSUME NEW j \in DOMAIN b, b[j].name = a[i].name
      PROVE  /\ Active(a, b)[i].name = a[i].name
             /\ Active(a, b)[i].version <= a[i].version
             /\ Active(a, b)[i].version <= b[j].version
  <2>1. ByName(b, a[i].name) = b[j]
    BY <1>2, IndexFinds
  <2>2. Active(a, b)[i] = [name |-> a[i].name, version |-> LesserVersion(a[i], b[j])]
    BY <1>1, <2>1 DEF Active
  <2>3. a[i] \in CapabilityType /\ b[j] \in CapabilityType
    BY <1>1
  <2>4. a[i].version \in Nat /\ b[j].version \in Nat
    BY <2>3 DEF CapabilityType
  <2>5. LesserVersion(a[i], b[j]) <= a[i].version /\ LesserVersion(a[i], b[j]) <= b[j].version
    BY <2>4 DEF LesserVersion
  <2> QED
    BY <2>2, <2>5
<1>3. PICK j \in DOMAIN b : b[j].name = a[i].name
  BY <1>1 DEF Names
<1> QED
  BY <1>1, <1>2, <1>3

(* After a negotiation without error every required capability of either    *)
(* list is active, and none is active in a version above what a list has.   *)
LEMMA ActiveCovers ==
    ASSUME NEW a \in Seq(CapabilityType), NEW b \in Seq(CapabilityType),
           NegotiationError(a, b) = "",
           NEW caps \in {a, b}, NEW i \in DOMAIN caps
    PROVE  /\ caps[i].required => \E e \in ActiveEntries(a, b) : e.name = caps[i].name
           /\ \A e \in ActiveEntries(a, b) : e.name = caps[i].name => e.version <= caps[i].version
<1>1. ~HasDuplicate(a) /\ ~HasDuplicate(b) /\ ~Misses(a, b) /\ ~Misses(b, a)
  BY DEF NegotiationError
<1>2. ASSUME caps[i].required PROVE \E e \in ActiveEntries(a, b) : e.name = caps[i].name
  <2>1. PICK k \in DOMAIN a : a[k].name = caps[i].name
    BY <1>1, <1>2 DEF Misses, Names
  <2>2. a[k].name \in Names(b)
    BY <1>1, <1>2, <2>1 DEF Misses, Names
  <2>3. k \in DOMAIN Active(a, b)
    BY <2>1, <2>2 DEF Active
  <2>4. Active(a, b)[k].name = caps[i].name
    BY <1>1, <2>1, <2>3, ActiveEntry
  <2> QED
    BY <2>3, <2>4 DEF ActiveEntries
<1>3. ASSUME NEW k \in DOMAIN Active(a, b), Active(a, b)[k].name = caps[i].name
      PROVE  Active(a, b)[k].version <= caps[i].version
  <2>1. /\ k \in DOMAIN a /\ Active(a, b)[k].name = a[k].name
        /\ Active(a, b)[k].version <= a[k].version
    BY <1>1, ActiveEntry
  <2>3. CASE caps = a
    <3>1. i = k
      BY <1>1, <1>3, <2>1, <2>3 DEF HasDuplicate
    <3> QED
      BY <2>1, <2>3, <3>1
  <2>4. CASE caps = b
    BY <1>1, <1>3, <2>1, <2>4, ActiveEntry
  <2> QED
    BY <2>3, <2>4
<1> QED
  BY <1>2, <1>3 DEF ActiveEntries

-----------------------------------------------------------------------------
(* The HandshakeState of an end, as a function of the two configurations.   *)
Outcome(local, peer) ==
    [peerNodeID |-> peer.nodeID, minor |-> NegotiatedMinor(local, peer),
     active |-> Active(local.caps, peer.caps)]

(* The fields of a HandshakeState.                                          *)
LEMMA OutcomeFields ==
    ASSUME NEW a, NEW b
    PROVE  /\ Outcome(a, b).peerNodeID = b.nodeID
           /\ Outcome(a, b).minor = NegotiatedMinor(a, b)
           /\ Outcome(a, b).active = Active(a.caps, b.caps)
BY DEF Outcome

(* Both ends come to the same minor version.                                *)
LEMMA MinorSymmetric ==
    ASSUME NEW a \in ConfigType, NEW b \in ConfigType
    PROVE  NegotiatedMinor(a, b) = NegotiatedMinor(b, a)
BY DEF NegotiatedMinor, ConfigType

(* The two ends come to the same minor version and active capabilities.     *)
LEMMA OutcomesAgree ==
    ASSUME NEW a \in ConfigType, NEW b \in ConfigType, NegotiationError(a.caps, b.caps) = ""
    PROVE  /\ Outcome(a, b).minor = Outcome(b, a).minor
           /\ {Outcome(a, b).active[i] : i \in DOMAIN Outcome(a, b).active}
                = {Outcome(b, a).active[i] : i \in DOMAIN Outcome(b, a).active}
<1>1. ~HasDuplicate(a.caps) /\ ~HasDuplicate(b.caps)
  BY DEF NegotiationError
<1>2. a.caps \in Seq(CapabilityType) /\ b.caps \in Seq(CapabilityType)
  BY DEF ConfigType
<1>3. ActiveEntries(a.caps, b.caps) = ActiveEntries(b.caps, a.caps)
  BY <1>1, <1>2, ActiveSymmetric
<1>4. /\ Outcome(a, b).minor = NegotiatedMinor(a, b)
      /\ Outcome(b, a).minor = NegotiatedMinor(b, a)
      /\ Outcome(a, b).active = Active(a.caps, b.caps)
      /\ Outcome(b, a).active = Active(b.caps, a.caps)
  BY OutcomeFields
<1>5. NegotiatedMinor(a, b) = NegotiatedMinor(b, a)
  BY MinorSymmetric
<1> QED
  BY <1>3, <1>4, <1>5, Zenon DEF ActiveEntries

(* What each end has established when it is at a given step.                *)
Checked ==
    \A p \in Party :
        LET local == config[p]  peer == config[Other(p)] IN
        /\ pc[p] \in {"verify", "negotiate", "complete"} => FrameError(local, peer) = ""
        /\ pc[p] = "complete" =>
             /\ NegotiationError(local.caps, peer.caps) = ""
             /\ state[p] = Outcome(local, peer)
        /\ err[p] = "ErrIncompatibleVersion" => FrameError(local, peer) = "ErrIncompatibleVersion"
        /\ err[p] = "ErrMissingRequiredCapability"
             => NegotiationError(local.caps, peer.caps) = "ErrMissingRequiredCapability"

(* A connection that was not lost is closed by an end that knows why.       *)
CloserKnowsWhy ==
    closed /\ ~lost => \E p \in Party : err[p] \notin {"", "transport"}

(* An end fails exactly when it closes the connection.                      *)
FailedHasClosed ==
    \A p \in Party : (pc[p] = "failed" => closed) /\ (pc[p] # "failed" => err[p] = "")

IInv == TypeOK /\ Checked /\ CloserKnowsWhy /\ FailedHasClosed

(* Before the first HELLO the invariant holds.                              *)
LEMMA InitIInv == Init => IInv
BY DEF Init, IInv, TypeOK, Checked, CloserKnowsWhy, FailedHasClosed, Party

(* Returning an error preserves the invariant, when the error is one that   *)
(* the end has a reason for: a transport error needs a closed connection.   *)
LEMMA FailStep ==
    ASSUME IInv, NEW p \in Party, NEW e \in HandshakeErrors, Fail(p, e),
           pc[p] \notin {"complete", "failed"},
           e = "transport" => closed,
           e = "ErrIncompatibleVersion"
             => FrameError(config[p], config[Other(p)]) = "ErrIncompatibleVersion",
           e = "ErrMissingRequiredCapability"
             => NegotiationError(config[p].caps, config[Other(p)].caps) = "ErrMissingRequiredCapability"
    PROVE  IInv'
<1> USE DEF IInv
<1>1. /\ pc' = [pc EXCEPT ![p] = "failed"] /\ err' = [err EXCEPT ![p] = e]
      /\ closed' = TRUE
      /\ UNCHANGED <<config, wire, lost, state>>
  BY DEF Fail, Goto
<1>2. /\ pc'[p] = "failed" /\ err'[p] = e /\ err[p] = ""
      /\ \A q \in Party \ {p} : pc'[q] = pc[q] /\ err'[q] = err[q]
  BY <1>1 DEF TypeOK, FailedHasClosed
<1>3. TypeOK'
  BY <1>1 DEF TypeOK
<1>4. Checked'
  <2> SUFFICES ASSUME NEW q \in Party
               PROVE  LET local == config[q]  peer == config[Other(q)] IN
                      /\ pc'[q] \in {"verify", "negotiate", "complete"} => FrameError(local, peer) = ""
                      /\ pc'[q] = "complete" =>
                           /\ NegotiationError(local.caps, peer.caps) = ""
                           /\ state[q] = Outcome(local, peer)
                      /\ err'[q] = "ErrIncompatibleVersion" => FrameError(local, peer) = "ErrIncompatibleVersion"
                      /\ err'[q] = "ErrMissingRequiredCapability"
                           => NegotiationError(local.caps, peer.caps) = "ErrMissingRequiredCapability"
    BY <1>1 DEF Checked
  <2>1. CASE q = p
    BY <1>2, <2>1
  <2>2. CASE q # p
    BY <1>2, <2>2 DEF Checked
  <2> QED
    BY <2>1, <2>2
<1>5. CloserKnowsWhy'
  <2> SUFFICES ASSUME ~lost PROVE \E q \in Party : err'[q] \notin {"", "transport"}
    BY <1>1 DEF CloserKnowsWhy
  <2>1. CASE e # "transport"
    BY <1>2, <2>1 DEF HandshakeErrors, VerifyErrors
  <2>2. CASE e = "transport"
    BY <1>2, <2>2 DEF CloserKnowsWhy
  <2> QED
    BY <2>1, <2>2
<1>6. FailedHasClosed'
  BY <1>1, <1>2 DEF FailedHasClosed
<1> QED
  BY <1>3, <1>4, <1>5, <1>6

(* Going on to the next step preserves the invariant.                       *)
LEMMA GoStep ==
    ASSUME IInv, NEW p \in Party, NEW st \in {"send", "recv", "verify", "negotiate"}, Goto(p, st),
           UNCHANGED <<config, closed, lost, err, state>>, wire' \in [Party -> BOOLEAN],
           pc[p] # "failed",
           st \in {"verify", "negotiate"} => FrameError(config[p], config[Other(p)]) = ""
    PROVE  IInv'
<1> USE DEF IInv
<1>1. pc' = [pc EXCEPT ![p] = st]
  BY DEF Goto
<1>2. pc'[p] = st /\ \A q \in Party \ {p} : pc'[q] = pc[q]
  BY <1>1 DEF TypeOK
<1>3. TypeOK'
  BY <1>1 DEF TypeOK
<1>4. Checked'
  BY <1>2 DEF Checked
<1>5. CloserKnowsWhy' /\ FailedHasClosed'
  BY <1>2 DEF CloserKnowsWhy, FailedHasClosed
<1> QED
  BY <1>3, <1>4, <1>5

(* Every step of either end keeps the invariant.                            *)
LEMMA NextIInv == IInv /\ [Next]_vars => IInv'
<1> SUFFICES ASSUME IInv, [Next]_vars PROVE IInv'
  OBVIOUS
<1> USE DEF IInv
<1>1. CASE UNCHANGED vars
  BY <1>1 DEF vars, TypeOK, Checked, CloserKnowsWhy, FailedHasClosed
<1>2. CASE ConnectionLost
  BY <1>2 DEF ConnectionLost, TypeOK, Checked, CloserKnowsWhy, FailedHasClosed
<1>3. ASSUME NEW p \in Party, ControlStream(p) PROVE IInv'
  <2>1. CASE closed /\ Fail(p, "transport")
    BY <1>3, <2>1, FailStep DEF ControlStream, HandshakeErrors
  <2>2. CASE Goto(p, "send") /\ UNCHANGED <<config, wire, closed, lost, err, state>>
    BY <1>3, <2>2, GoStep DEF ControlStream, TypeOK
  <2> QED
    BY <1>3, <2>1, <2>2 DEF ControlStream
<1>4. ASSUME NEW p \in Party, SendHello(p) PROVE IInv'
  <2>1. CASE closed /\ Fail(p, "transport")
    BY <1>4, <2>1, FailStep DEF SendHello, HandshakeErrors
  <2>2. CASE /\ Goto(p, "recv") /\ wire' = [wire EXCEPT ![p] = TRUE]
             /\ UNCHANGED <<config, closed, lost, err, state>>
    <3>1. wire' \in [Party -> BOOLEAN]
      BY <2>2 DEF TypeOK
    <3> QED
      BY <1>4, <2>2, <3>1, GoStep DEF SendHello
  <2> QED
    BY <1>4, <2>1, <2>2 DEF SendHello
<1>5. ASSUME NEW p \in Party, RecvHello(p) PROVE IInv'
  <2> DEFINE local == config[p]
             peer == config[Other(p)]
             e == FrameError(local, peer)
  <2>0. pc[p] = "recv"
    BY <1>5 DEF RecvHello
  <2>1. CASE closed /\ Fail(p, "transport")
    BY <2>0, <2>1, FailStep DEF HandshakeErrors
  <2>2. CASE e # "" /\ Fail(p, e)
    <3>1. e \in HandshakeErrors \ {"transport", "ErrMissingRequiredCapability"}
      BY <2>2 DEF FrameError, HandshakeErrors
    <3> HIDE DEF e
    <3>2. e \in HandshakeErrors /\ Fail(p, e) /\ e # "transport" /\ e # "ErrMissingRequiredCapability"
      BY <2>2, <3>1
    <3>3. e = "ErrIncompatibleVersion" => FrameError(config[p], config[Other(p)]) = "ErrIncompatibleVersion"
      BY DEF e
    <3> QED
      BY <2>0, <3>2, <3>3, FailStep
  <2>3. CASE BlockError(peer) # "" /\ Fail(p, BlockError(peer))
    <3> DEFINE b == BlockError(peer)
    <3>1. b \in HandshakeErrors \ {"transport", "ErrMissingRequiredCapability", "ErrIncompatibleVersion"}
      BY <2>3 DEF BlockError, HandshakeErrors, VerifyErrors
    <3> HIDE DEF b
    <3>2. Fail(p, b)
      BY <2>3 DEF b
    <3> QED
      BY <2>0, <3>1, <3>2, FailStep
  <2>4. CASE /\ e = ""
             /\ Goto(p, "negotiate") \/ Goto(p, "verify")
             /\ UNCHANGED <<config, wire, closed, lost, err, state>>
    BY <2>0, <2>4, GoStep DEF TypeOK
  <2> QED
    BY <1>5, <2>1, <2>2, <2>3, <2>4 DEF RecvHello
<1>6. ASSUME NEW p \in Party, Verify(p) PROVE IInv'
  <2>0. pc[p] = "verify" /\ FrameError(config[p], config[Other(p)]) = ""
    BY <1>6 DEF Verify, Checked
  <2>1. ASSUME NEW e \in VerifyErrors, Fail(p, e) PROVE IInv'
    <3>1. e \in HandshakeErrors /\ e \notin {"transport", "ErrIncompatibleVersion", "ErrMissingRequiredCapability"}
      BY DEF VerifyErrors, HandshakeErrors
    <3> QED
      BY <2>0, <2>1, <3>1, FailStep
  <2>2. CASE Goto(p, "negotiate") /\ UNCHANGED <<config, wire, closed, lost, err, state>>
    BY <2>0, <2>2, GoStep DEF TypeOK
  <2> QED
    BY <1>6, <2>1, <2>2 DEF Verify
<1>7. ASSUME NEW p \in Party, Negotiate(p) PROVE IInv'
  <2> DEFINE local == config[p]
             peer == config[Other(p)]
             e == NegotiationError(local.caps, peer.caps)
  <2>0. pc[p] = "negotiate" /\ FrameError(local, peer) = "" /\ err[p] = ""
    BY <1>7 DEF Negotiate, Checked, FailedHasClosed
  <2>1. CASE e # "" /\ Fail(p, e)
    <3>1. e \in {"ErrMalformedHello", "ErrMissingRequiredCapability"}
      BY <2>1 DEF NegotiationError
    <3>2. e = "ErrMissingRequiredCapability"
            => NegotiationError(config[p].caps, config[Other(p)].caps) = "ErrMissingRequiredCapability"
      OBVIOUS
    <3>3. Fail(p, e)
      BY <2>1
    <3> HIDE DEF e
    <3> QED
      BY <2>0, <3>1, <3>2, <3>3, FailStep DEF HandshakeErrors
  <2>2. CASE /\ e = "" /\ Goto(p, "complete")
             /\ state' = [state EXCEPT ![p] = Outcome(local, peer)]
             /\ UNCHANGED <<config, wire, closed, lost, err>>
    <3>1. /\ pc' = [pc EXCEPT ![p] = "complete"]
          /\ UNCHANGED <<config, wire, closed, lost, err>>
          /\ NegotiationError(config[p].caps, config[Other(p)].caps) = ""
      BY <2>2 DEF Goto
    <3>2. /\ pc'[p] = "complete" /\ state'[p] = Outcome(local, peer)
          /\ DOMAIN state' = Party
          /\ \A q \in Party \ {p} : pc'[q] = pc[q] /\ state'[q] = state[q]
      BY <2>2, <3>1 DEF TypeOK
    <3>3. TypeOK'
      BY <3>1, <3>2 DEF TypeOK
    <3>4. CloserKnowsWhy' /\ FailedHasClosed'
      BY <2>0, <3>1, <3>2 DEF CloserKnowsWhy, FailedHasClosed
    <3>5. Checked'
      <4> SUFFICES ASSUME NEW q \in Party
               PROVE  LET l == config[q]  r == config[Other(q)] IN
                      /\ pc'[q] \in {"verify", "negotiate", "complete"} => FrameError(l, r) = ""
                      /\ pc'[q] = "complete" =>
                           /\ NegotiationError(l.caps, r.caps) = ""
                           /\ state'[q] = Outcome(l, r)
                      /\ err[q] = "ErrIncompatibleVersion" => FrameError(l, r) = "ErrIncompatibleVersion"
                      /\ err[q] = "ErrMissingRequiredCapability"
                           => NegotiationError(l.caps, r.caps) = "ErrMissingRequiredCapability"
        BY <3>1 DEF Checked
      <4>1. CASE q = p
        BY <2>0, <3>1, <3>2, <4>1
      <4>2. CASE q # p
        BY <3>2, <4>2 DEF Checked
      <4> QED
        BY <4>1, <4>2
    <3> QED
      BY <3>3, <3>4, <3>5
  <2> QED
    BY <1>7, <2>1, <2>2 DEF Negotiate, Outcome
<1> QED
  BY <1>1, <1>2, <1>3, <1>4, <1>5, <1>6, <1>7 DEF Next, Run

(* IInv holds in every state of every exchange.                             *)
LEMMA Invariance == Spec => []IInv
<1>1. Init => IInv
  BY InitIInv
<1>2. IInv /\ [Next]_vars => IInv'
  BY NextIInv
<1> QED
  BY <1>1, <1>2, PTL DEF Spec

-----------------------------------------------------------------------------
(* Two ends that complete Handshake agree on version and capabilities, and  *)
(* hold each other's NodeID, whatever their configurations.                 *)
THEOREM EndsAgree == Spec => []Agreement
<1>1. IInv => Agreement
  <2> SUFFICES ASSUME IInv, \A p \in Party : pc[p] = "complete"
               PROVE  /\ state["client"].minor = state["server"].minor
                      /\ ActiveSet("client") = ActiveSet("server")
                      /\ \A p \in Party : state[p].peerNodeID = config[Other(p)].nodeID
    BY DEF Agreement
  <2>1. \A p \in Party : config[p] \in ConfigType
    BY ConfigAssumption DEF IInv, TypeOK
  <2>2. \A p \in Party :
          /\ NegotiationError(config[p].caps, config[Other(p)].caps) = ""
          /\ state[p] = Outcome(config[p], config[Other(p)])
    BY DEF IInv, Checked
  <2>3. "client" \in Party /\ "server" \in Party
        /\ Other("client") = "server" /\ Other("server") = "client"
    BY DEF Party, Other
  <2>4. /\ state["client"].minor = state["server"].minor
        /\ ActiveSet("client") = ActiveSet("server")
    <3> DEFINE a == config["client"]
               b == config["server"]
    <3>1. /\ state["client"] = Outcome(a, b) /\ state["server"] = Outcome(b, a)
          /\ NegotiationError(a.caps, b.caps) = ""
      BY <2>2, <2>3, Zenon
    <3>2. a \in ConfigType /\ b \in ConfigType
      BY <2>1, <2>3
    <3> HIDE DEF a, b
    <3>3. /\ Outcome(a, b).minor = Outcome(b, a).minor
          /\ {Outcome(a, b).active[i] : i \in DOMAIN Outcome(a, b).active}
               = {Outcome(b, a).active[i] : i \in DOMAIN Outcome(b, a).active}
      BY <3>1, <3>2, OutcomesAgree
    <3> QED
      BY <3>1, <3>3, Zenon DEF ActiveSet
  <2>5. \A p \in Party : state[p].peerNodeID = config[Other(p)].nodeID
    <3> SUFFICES ASSUME NEW p \in Party
                 PROVE  state[p].peerNodeID = config[Other(p)].nodeID
      OBVIOUS
    <3>1. state[p] = Outcome(config[p], config[Other(p)])
      BY <2>2, Zenon
    <3>2. Outcome(config[p], config[Other(p)]).peerNodeID = config[Other(p)].nodeID
      BY OutcomeFields
    <3> QED
      BY <3>1, <3>2, Zenon
  <2> QED
    BY <2>4, <2>5
<1> QED
  BY <1>1, Invariance, PTL

(* An end that completes has every capability that either end requires      *)
(* active, in no higher version than either end has.                        *)
THEOREM RequiredIsActive == Spec => []RequiredAreActive
<1>1. IInv => RequiredAreActive
  <2> SUFFICES ASSUME IInv, NEW p \in Party, pc[p] = "complete",
                      NEW q \in Party, NEW i \in DOMAIN config[q].caps
               PROVE  LET c == config[q].caps[i] IN
                      /\ c.required => \E e \in ActiveSet(p) : e.name = c.name
                      /\ \A e \in ActiveSet(p) : e.name = c.name => e.version <= c.version
    BY DEF RequiredAreActive
  <2> DEFINE a == config[p].caps
             b == config[Other(p)].caps
  <2>1. Other(p) \in Party /\ (q = p \/ q = Other(p))
    BY DEF Party, Other
  <2>2. config[p] \in ConfigType /\ config[Other(p)] \in ConfigType
    BY <2>1, ConfigAssumption DEF IInv, TypeOK
  <2>3. a \in Seq(CapabilityType) /\ b \in Seq(CapabilityType)
    BY <2>2 DEF ConfigType
  <2>4. NegotiationError(a, b) = "" /\ state[p] = Outcome(config[p], config[Other(p)])
    BY DEF IInv, Checked
  <2>5. state[p].active = Active(a, b)
    <3>1. Outcome(config[p], config[Other(p)]).active = Active(a, b)
      BY OutcomeFields
    <3> QED
      BY <2>4, <3>1, Zenon
  <2>6. ActiveSet(p) = ActiveEntries(a, b)
    BY <2>5, Zenon DEF ActiveSet, ActiveEntries
  <2>7. config[q].caps \in {a, b}
    BY <2>1
  <2> DEFINE caps == config[q].caps
  <2> HIDE DEF a, b, caps
  <2>8. ASSUME NEW x \in {a, b}, NEW j \in DOMAIN x
        PROVE  /\ x[j].required => \E e \in ActiveSet(p) : e.name = x[j].name
               /\ \A e \in ActiveSet(p) : e.name = x[j].name => e.version <= x[j].version
    <3>1. /\ x[j].required => \E e \in ActiveEntries(a, b) : e.name = x[j].name
          /\ \A e \in ActiveEntries(a, b) : e.name = x[j].name => e.version <= x[j].version
      BY <2>3, <2>4, ActiveCovers, ZenonT(60)
    <3> QED
      BY <2>6, <3>1, Zenon
  <2>9. caps \in {a, b} /\ i \in DOMAIN caps
    BY <2>7 DEF caps
  <2> QED
    BY <2>8, <2>9, Zenon DEF caps
<1> QED
  BY <1>1, Invariance, PTL

(* A version or a required capability that the ends do not share never      *)
(* leaves one end with a completed Handshake.                               *)
THEOREM NeverHalfOpen == Spec => []NoHalfOpen
<1>1. IInv => NoHalfOpen
  <2> SUFFICES ASSUME IInv, NEW p \in Party, pc[Other(p)] = "complete",
                      err[p] \in {"ErrIncompatibleVersion", "ErrMissingRequiredCapability"}
               PROVE  FALSE
    BY DEF NoHalfOpen
  <2>1. Other(p) \in Party /\ Other(Other(p)) = p
    BY DEF Party, Other
  <2> DEFINE a == config[p]
             b == config[Other(p)]
  <2>2. FrameError(b, a) = "" /\ NegotiationError(b.caps, a.caps) = ""
    BY <2>1 DEF IInv, Checked
  <2>3. CASE err[p] = "ErrIncompatibleVersion"
    <3>1. FrameError(a, b) = "ErrIncompatibleVersion"
      BY <2>3 DEF IInv, Checked
    <3>2. a.major # b.major
      BY <3>1 DEF FrameError
    <3>3. a.major = b.major
      BY <2>2 DEF FrameError
    <3> QED
      BY <3>2, <3>3
  <2>4. CASE err[p] = "ErrMissingRequiredCapability"
    <3>1. NegotiationError(a.caps, b.caps) = "ErrMissingRequiredCapability"
      BY <2>4 DEF IInv, Checked
    <3> QED
      BY <2>2, <3>1, VerdictSymmetric
  <2> QED
    BY <2>3, <2>4
<1> QED
  BY <1>1, Invariance, PTL

(* When both ends of a connection that was not lost fail, one of them       *)
(* returns the reason.                                                      *)
THEOREM ReasonIsKnown == Spec => []SomeoneKnowsWhy
<1>1. IInv => SomeoneKnowsWhy
  <2> SUFFICES ASSUME IInv, \A p \in Party : pc[p] = "failed", ~lost
               PROVE  \E p \in Party : err[p] # "transport"
    BY DEF SomeoneKnowsWhy
  <2>1. closed
    BY DEF IInv, FailedHasClosed, Party
  <2> QED
    BY <2>1 DEF IInv, CloserKnowsWhy
<1> QED
  BY <1>1, Invariance, PTL

(* Every state of the two handshakes has its type.                          *)
THEOREM TypeCorrect == Spec => []TypeOK
<1>1. IInv => TypeOK
  BY DEF IInv
<1> QED
  BY <1>1, Invariance, PTL

=============================================================================
