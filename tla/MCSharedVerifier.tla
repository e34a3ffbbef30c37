-------------------------- MODULE MCSharedVerifier --------------------------
(* A small instance of SharedVerifier for TLC: two clients with the same    *)
(* DID.                                                                     *)
EXTENDS SharedVerifier, TLC

Config(id) ==
    [sends |-> "HELLO", major |-> 0, minor |-> 2, nodeID |-> id, vmDID |-> id, caps |-> <<>>]

Signed(nonce, ts, signer) ==
    [alg |-> SigAlgEd25519, did |-> "did:a", fragment |-> TRUE, nonce |-> nonce, ts |-> ts,
     signer |-> signer]

(* x's HELLO; for y the same again, the same pair later, one of its own,    *)
(* and one that its key has not signed.                                     *)
XBlock == Signed("n1", 0, "ka")
MCBlocks == {XBlock, Signed("n1", 1, "ka"), Signed("n2", 1, "ka"), Signed("n1", 0, NoKey)}
MCWorkloads == {f \in [Call -> MCBlocks] : f["x"] = XBlock}
MCMethod == [d \in {"did:a", "did:b"} |-> "key"]
MCKeyOf == "did:a" :> {"ka"} @@ "did:b" :> {"kb"}

MCNodeConfig == Config("did:b")
Plain == Config("did:a")
MCClients ==
    {[x |-> f, y |-> Plain] :
        f \in {Plain, [Plain EXCEPT !.minor = 1], [Plain EXCEPT !.nodeID = "did:b"],
               [Plain EXCEPT !.caps = <<[name |-> "c", version |-> 0, required |-> TRUE]>>]}}
=============================================================================
