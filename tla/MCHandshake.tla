---------------------------- MODULE MCHandshake -----------------------------
(* Small instances of Handshake for TLC.                                    *)
EXTENDS Handshake

Cap(name, version, required) == [name |-> name, version |-> version, required |-> required]

End(nodeID, caps) ==
    [sends |-> "HELLO", major |-> 0, minor |-> 2, nodeID |-> nodeID, vmDID |-> nodeID,
     caps |-> caps]

CapLists ==
    {<<>>,
     <<Cap("x", 1, FALSE)>>, <<Cap("x", 2, TRUE)>>,
     <<Cap("x", 2, FALSE), Cap("y", 0, FALSE)>>,
     <<Cap("y", 3, TRUE), Cap("x", 0, FALSE)>>,
     <<Cap("x", 1, FALSE), Cap("x", 2, FALSE)>>}

(* Ends of one version that differ in their capabilities, and every other   *)
(* difference once: an older or newer minor, another major, an identity     *)
(* that does not fit, and each foreign first frame.                         *)
MCConfigs ==
    {End("did:a", caps) : caps \in CapLists}
    \cup {[End("did:b", <<Cap("x", 1, TRUE)>>) EXCEPT !.minor = m] : m \in {1, 3}}
    \cup {[End("did:b", <<>>) EXCEPT !.major = 1]}
    \cup {[End("did:b", <<>>) EXCEPT !.vmDID = "did:c"], End("plain", <<>>)}
    \cup {[End("did:b", <<>>) EXCEPT !.sends = f] : f \in FirstFrame}

MCDIDs == {"did:a", "did:b", "did:c"}
=============================================================================
