--------------------------- MODULE SharedVerifier ---------------------------
(***************************************************************************)
(* Two connections of a node that supplies its own Verifier (NodeConfig.    *)
(* Verifier): both handshakes, each with a client of its own, and the one   *)
(* replay cache that the node's ends share.  The Verify step of the node's  *)
(* end, a single step of module Handshake, is here the steps of module      *)
(* Verifier; the clients verify the node's HELLO each with a Verifier of    *)
(* their own.  A client's HELLO carries the signature block that Verifier   *)
(* has for the connection, which two clients may have in common.            *)
(***************************************************************************)
EXTENDS Verifier

CONSTANTS
    Clients,        \* the configurations that the two clients may have
    NodeConfig,     \* the node's
    DIDs            \* the NodeIDs that have the prefix "did:"

ClientConfigs == {f[c] : f \in Clients, c \in Call}

ASSUME SharedAssumption == Call = {"x", "y"} /\ \A f \in Clients : DOMAIN f = Call

VARIABLES
    configX, pcX, wireX, closedX, lostX, errX, stateX,   \* connection x
    configY, pcY, wireY, closedY, lostY, errY, stateY    \* connection y

xVars == <<configX, pcX, wireX, closedX, lostX, errX, stateX>>
yVars == <<configY, pcY, wireY, closedY, lostY, errY, stateY>>
allVars == <<vars, xVars, yVars>>

X == INSTANCE Handshake WITH
    Configs <- ClientConfigs \cup {NodeConfig},
    config <- configX, pc <- pcX, wire <- wireX, closed <- closedX, lost <- lostX,
    err <- errX, state <- stateX

Y == INSTANCE Handshake WITH
    Configs <- ClientConfigs \cup {NodeConfig},
    config <- configY, pc <- pcY, wire <- wireY, closed <- closedY, lost <- lostY,
    err <- errY, state <- stateY

ASSUME ConfigsAssumption == ClientConfigs \cup {NodeConfig} \subseteq X!ConfigType

SharedInit ==
    /\ Init /\ X!Init /\ Y!Init
    /\ configX["server"] = NodeConfig /\ configY["server"] = NodeConfig
    /\ \E f \in Clients : configX["client"] = f["x"] /\ configY["client"] = f["y"]
    /\ configX["client"].vmDID = block["x"].did /\ configY["client"].vmDID = block["y"].did

-----------------------------------------------------------------------------
(* The steps of a call of Verify, and how the handshake takes its result.   *)

VerifyStep(c) == CheckTimestamp(c) \/ RecordNonce(c) \/ ResolveKey(c) \/ CheckSignature(c)

VerifyX ==
    /\ pcX["server"] = "verify" /\ VerifyStep("x")
    /\ \/ pc'["x"] # "done" /\ UNCHANGED xVars
       \/ /\ pc'["x"] = "done" /\ X!Verify("server")
          /\ errX'["server"] = IF result'["x"] = "ok" THEN "" ELSE result'["x"]
    /\ UNCHANGED yVars

VerifyY ==
    /\ pcY["server"] = "verify" /\ VerifyStep("y")
    /\ \/ pc'["y"] # "done" /\ UNCHANGED yVars
       \/ /\ pc'["y"] = "done" /\ Y!Verify("server")
          /\ errY'["server"] = IF result'["y"] = "ok" THEN "" ELSE result'["y"]
    /\ UNCHANGED xVars

(* Every other step of an end; one error stands for all those of a client's *)
(* Verify.                                                                  *)
ClientVerify == {"", "ErrStaleTimestamp"}

RunX(p) ==
    /\ X!Run(p)
    /\ pcX[p] = "verify" => p = "client" /\ errX'[p] \in ClientVerify
    /\ UNCHANGED <<vars, yVars>>

RunY(p) ==
    /\ Y!Run(p)
    /\ pcY[p] = "verify" => p = "client" /\ errY'[p] \in ClientVerify
    /\ UNCHANGED <<vars, xVars>>

(* Time matters until both calls have been in the critical section.         *)
TimePasses ==
    /\ \E c \in Call : pc[c] \in {"start", "record"}
    /\ Tick
    /\ UNCHANGED <<xVars, yVars>>

Losing ==
    \/ X!ConnectionLost /\ UNCHANGED <<vars, yVars>>
    \/ Y!ConnectionLost /\ UNCHANGED <<vars, xVars>>

EndX(p) == RunX(p) \/ (p = "server" /\ VerifyX)
EndY(p) == RunY(p) \/ (p = "server" /\ VerifyY)

SharedNext == TimePasses \/ Losing \/ \E p \in X!Party : EndX(p) \/ EndY(p)

SharedSpec == SharedInit /\ [][SharedNext]_allVars

-----------------------------------------------------------------------------
(* The node's end of each connection.                                       *)
NodeEnd(c) ==
    IF c = "x" THEN [pc |-> pcX["server"], err |-> errX["server"], state |-> stateX["server"]]
               ELSE [pc |-> pcY["server"], err |-> errY["server"], state |-> stateY["server"]]

SignedPeer(c) == (IF c = "x" THEN configX ELSE configY)["client"].minor >= 2

(* When the node's handshake with a peer of version 0.2 or later completes, *)
(* the HELLO was signed with a key of the very DID that PeerNodeID then     *)
(* reports (handshake.go:245-275), although the key was found through the   *)
(* VMID of the block and another connection was using the Verifier.         *)
PeerIsAuthentic ==
    \A c \in Call :
        NodeEnd(c).pc = "complete" /\ SignedPeer(c)
            => block[c].signer \in KeyOf[NodeEnd(c).state.peerNodeID]

(* The same HELLO, sent on two connections of the node, completes only one  *)
(* handshake until its timestamp has left the window.                       *)
OneHandshakePerHello ==
    SamePair("x", "y") /\ SignedPeer("x") /\ SignedPeer("y")
    /\ NodeEnd("x").pc = "complete" /\ NodeEnd("y").pc = "complete"
        => Expired("x", claimedAt["y"]) \/ Expired("y", claimedAt["x"])

(* A peer that connects again with a HELLO of its own (runHandshake draws a *)
(* new nonce each time, handshake.go:209) is never refused as a replay,     *)
(* whatever has become of its other handshake.                              *)
NewHelloIsNoReplay ==
    ~SamePair("x", "y") => \A c \in Call : NodeEnd(c).err # "ErrReplayedNonce"

-----------------------------------------------------------------------------
(* What a comment says and the code does not do.                            *)

(* operation.go:17: PeerNodeID is "the authenticated NodeID (DID) of the    *)
(* connection peer, as established by the signed HELLO": on every completed *)
(* handshake, whatever version the peer speaks, the node's Verifier has     *)
(* accepted a signature of that DID.                                        *)
PeerNodeIDIsAuthenticated ==
    \A c \in Call :
        NodeEnd(c).pc = "complete"
            => result[c] = "ok" /\ block[c].signer \in KeyOf[NodeEnd(c).state.peerNodeID]

=============================================================================
