----------------------------- MODULE Handshake ------------------------------
(***************************************************************************)
(* The HELLO exchange (handshake.go): the client and the server of one QUIC *)
(* connection both run Conn.Handshake, and either may fail at any check and *)
(* then closes the connection under the other.  The connection may also be  *)
(* lost at any time.  Both ends run the code of this repository, but maybe  *)
(* in different versions and with different NodeConfigs; an end may also be *)
(* a foreign implementation whose first frame is not what the code sends.   *)
(*                                                                         *)
(* Verifier.Verify is used here by its result; module Verifier has its      *)
(* inside.                                                                  *)
(***************************************************************************)
EXTENDS Capability

CONSTANTS
    Configs,  \* the configurations of an end
    DIDs      \* the NodeIDs that have the prefix "did:"

Party == {"client", "server"}
Other(p) == IF p = "client" THEN "server" ELSE "client"

(* What an end sends first.  The code sends a signed HELLO; a foreign end   *)
(* may leave out or garble the signature block or the payload, or send      *)
(* another frame.                                                           *)
FirstFrame == {"HELLO", "unsigned HELLO", "HELLO with bad block", "undecodable HELLO",
               "HELLO with OpID", "other frame"}

CapabilityType == [name : STRING, version : Nat, required : BOOLEAN]

ConfigType == [sends : FirstFrame, major : Nat, minor : Nat, nodeID : STRING,
               vmDID : STRING, caps : Seq(CapabilityType)]

ASSUME ConfigAssumption == Configs \subseteq ConfigType

VerifyErrors == {"ErrBadSignature", "ErrStaleTimestamp", "ErrUnresolvableDID", "ErrReplayedNonce"}

HandshakeErrors ==
    VerifyErrors \cup {"ErrProtocolViolation", "ErrMalformedHello", "ErrIncompatibleVersion",
                       "ErrKeyMismatch", "ErrMissingRequiredCapability", "transport"}

VARIABLES
    config,   \* the NodeConfig and version of each end
    pc,       \* the step each end's Handshake is at
    wire,     \* has the end's first frame been sent on the control stream?
    closed,   \* is the QUIC connection closed?
    lost,     \* was it lost for a reason outside the two ends?
    err,      \* the error each end's Handshake returned; "" if none
    state     \* the HandshakeState of each end

vars == <<config, pc, wire, closed, lost, err, state>>

NoState == [peerNodeID |-> "", minor |-> 0, active |-> <<>>]

-----------------------------------------------------------------------------
Init ==
    /\ config \in [Party -> Configs]
    /\ pc = [p \in Party |-> "open"]
    /\ wire = [p \in Party |-> FALSE]
    /\ closed = FALSE
    /\ lost = FALSE
    /\ err = [p \in Party |-> ""]
    /\ state = [p \in Party |-> NoState]

Goto(p, step) == pc' = [pc EXCEPT ![p] = step]

(* Handshake returns an error: it closes the connection first.              *)
Fail(p, e) ==
    /\ Goto(p, "failed")
    /\ err' = [err EXCEPT ![p] = e]
    /\ closed' = TRUE
    /\ UNCHANGED <<config, wire, lost, state>>

(* The client opens the control stream; the server's AcceptStream sees it   *)
(* when the client's first bytes arrive.  Handshake is called once per Conn *)
(* here, as its comment demands, so c.state is nil at its first check.      *)
ControlStream(p) ==
    /\ pc[p] = "open"
    /\ \/ closed /\ Fail(p, "transport")
       \/ /\ ~closed
          /\ p = "server" => wire["client"]
          /\ Goto(p, "send")
          /\ UNCHANGED <<config, wire, closed, lost, err, state>>

SendHello_AfterPeer(p) ==
    /\ pc[p] = "send"
    /\ wire[Other(p)]
    /\ wire' = [wire EXCEPT ![p] = TRUE]
    /\ Goto(p, "recv")
    /\ UNCHANGED <<config, closed, lost, err, state>>

SendHello(p) ==
    /\ pc[p] = "send"
    /\ \/ closed /\ Fail(p, "transport")
       \/ /\ ~closed
          /\ wire' = [wire EXCEPT ![p] = TRUE]
          /\ Goto(p, "recv")
          /\ UNCHANGED <<config, closed, lost, err, state>>

(* Lines 223-237: the frame, the payload and the major version.             *)
FrameError_Unwrapped(local, peer) ==
    IF peer.sends \in {"other frame", "HELLO with OpID"} THEN "ErrProtocolViolation"
    ELSE IF peer.sends = "undecodable HELLO" THEN "ErrShortBuffer"
    ELSE IF peer.major # local.major THEN "ErrIncompatibleVersion"
    ELSE ""

FrameError(local, peer) ==
    IF peer.sends \in {"other frame", "HELLO with OpID"} THEN "ErrProtocolViolation"
    ELSE IF peer.sends = "undecodable HELLO" THEN "ErrMalformedHello"
    ELSE IF peer.major # local.major THEN "ErrIncompatibleVersion"
    ELSE ""

(* Lines 245-259: what is checked of a peer of version 0.2 or later before  *)
(* its signature block goes to Verify.                                      *)
BlockError_Generic(peer) ==
    IF peer.nodeID \notin DIDs \/ peer.vmDID # peer.nodeID THEN "transport" ELSE ""

BlockError_AnyVMID(peer) ==
    IF peer.nodeID \notin DIDs THEN "ErrMalformedHello"
    ELSE IF peer.sends = "unsigned HELLO" THEN "ErrBadSignature"
    ELSE IF peer.sends = "HELLO with bad block" THEN "ErrMalformedHello"
    ELSE ""

BlockError(peer) ==
    IF peer.nodeID \notin DIDs THEN "ErrMalformedHello"
    ELSE IF peer.sends = "unsigned HELLO" THEN "ErrBadSignature"
    ELSE IF peer.sends = "HELLO with bad block" THEN "ErrMalformedHello"
    ELSE IF peer.vmDID # peer.nodeID THEN "ErrKeyMismatch"
    ELSE ""

(* RecvFrame and the checks up to the call of Verify (or, for a peer older  *)
(* than 0.2, up to the negotiation).                                        *)
RecvHello(p) ==
    LET peer == config[Other(p)]
        e == FrameError(config[p], peer)
    IN
    /\ pc[p] = "recv"
    /\ \/ closed /\ Fail(p, "transport")
       \/ /\ ~closed /\ wire[Other(p)]
          /\ \/ e # "" /\ Fail(p, e)
             \/ /\ e = "" /\ peer.minor < 2
                /\ Goto(p, "negotiate")
                /\ UNCHANGED <<config, wire, closed, lost, err, state>>
             \/ /\ e = "" /\ peer.minor >= 2
                /\ \/ BlockError(peer) # "" /\ Fail(p, BlockError(peer))
                   \/ /\ BlockError(peer) = ""
                      /\ Goto(p, "verify")
                      /\ UNCHANGED <<config, wire, closed, lost, err, state>>

(* Verify may refuse the block of an honest peer: clocks differ, a DID      *)
(* document is not reachable, a nonce is in the cache.                      *)
Verify(p) ==
    /\ pc[p] = "verify"
    /\ \/ /\ Goto(p, "negotiate")
          /\ UNCHANGED <<config, wire, closed, lost, err, state>>
       \/ \E e \in VerifyErrors : Fail(p, e)

NegotiatedMinor_Local(local, peer) == local.minor

NegotiatedMinor(local, peer) == IF peer.minor < local.minor THEN peer.minor ELSE local.minor

Negotiate(p) ==
    LET local == config[p]
        peer == config[Other(p)]
        e == NegotiationError(local.caps, peer.caps)
    IN
    /\ pc[p] = "negotiate"
    /\ \/ e # "" /\ Fail(p, e)
       \/ /\ e = ""
          /\ state' = [state EXCEPT ![p] = [peerNodeID |-> peer.nodeID,
                                            minor |-> NegotiatedMinor(local, peer),
                                            active |-> Active(local.caps, peer.caps)]]
          /\ Goto(p, "complete")
          /\ UNCHANGED <<config, wire, closed, lost, err>>

(* The connection ends for another reason: idle timeout, a process that     *)
(* stops, the network.                                                      *)
ConnectionLost ==
    /\ ~closed
    /\ closed' = TRUE
    /\ lost' = TRUE
    /\ UNCHANGED <<config, pc, wire, err, state>>

Run(p) ==
    \/ ControlStream(p) \/ SendHello(p) \/ RecvHello(p)
    \/ Verify(p) \/ Negotiate(p)

Next == ConnectionLost \/ \E p \in Party : Run(p)

Spec == Init /\ [][Next]_vars

(* Each end's goroutine keeps running.                                      *)
FairSpec == Spec /\ \A p \in Party : WF_vars(Run(p))

-----------------------------------------------------------------------------
ActiveSet(p) == {state[p].active[i] : i \in DOMAIN state[p].active}

(* The type invariant of the two handshakes.                                *)
TypeOK ==
    /\ config \in [Party -> Configs]
    /\ pc \in [Party -> {"open", "send", "recv", "verify", "negotiate", "complete", "failed"}]
    /\ wire \in [Party -> BOOLEAN]
    /\ closed \in BOOLEAN /\ lost \in BOOLEAN
    /\ err \in [Party -> HandshakeErrors \cup {""}]
    /\ DOMAIN state = Party

(* Two ends that complete the handshake agree on it: the same minor version *)
(* and the same active capabilities with the same minors, although each end *)
(* computed them on its own, and each holds the other's NodeID.             *)
Agreement ==
    (\A p \in Party : pc[p] = "complete")
        => /\ state["client"].minor = state["server"].minor
           /\ ActiveSet("client") = ActiveSet("server")
           /\ \A p \in Party : state[p].peerNodeID = config[Other(p)].nodeID

(* An end that completes has every capability that either end requires, and *)
(* in a version that both advertise or a lower one.                         *)
RequiredAreActive ==
    \A p \in Party :
        pc[p] = "complete" =>
            \A q \in Party : \A i \in DOMAIN config[q].caps :
                LET c == config[q].caps[i] IN
                /\ c.required => \E a \in ActiveSet(p) : a.name = c.name
                /\ \A a \in ActiveSet(p) : a.name = c.name => a.version <= c.version

(* An incompatibility that lies in the two configurations, the version or a *)
(* required capability, never leaves one end with a completed handshake.    *)
NoHalfOpen ==
    \A p \in Party :
        err[p] \in {"ErrIncompatibleVersion", "ErrMissingRequiredCapability"}
            => pc[Other(p)] # "complete"

(* When both ends fail on a connection that was not lost, one of them has   *)
(* the reason: the other's transport error is the echo of its close.        *)
SomeoneKnowsWhy ==
    (\A p \in Party : pc[p] = "failed") /\ ~lost => \E p \in Party : err[p] # "transport"

(* Both calls of Handshake return: the ends never wait for each other, as   *)
(* each sends its HELLO before it waits for the peer's.                     *)
BothReturn == <>(\A p \in Party : pc[p] \in {"complete", "failed"})

=============================================================================
