----------------------------- MODULE MCVerifier -----------------------------
(* Small instances of Verifier for TLC.                                     *)
EXTENDS Verifier, TLC

MCMethod == "key1" :> "key" @@ "web1" :> "web" @@ "other1" :> "other"
MCKeyOf == "key1" :> {"k1"} @@ "web1" :> {"k1", "k2"} @@ "other1" :> {}

Signed(did, nonce, ts, signer) ==
    [alg |-> SigAlgEd25519, did |-> did, fragment |-> TRUE, nonce |-> nonce,
     ts |-> ts, signer |-> signer]

(* One DID and its blocks: the same block again, the same pair with another *)
(* timestamp, a second nonce whose calls prune the cache.                   *)
OneDID ==
    {Signed("key1", "n1", 0, "k1"), Signed("key1", "n1", 1, "k1"),
     Signed("key1", "n2", 1, "k1")}

(* Every path through Verify: a bad signature, other methods, no DID, no    *)
(* fragment, another algorithm, a timestamp too far ahead for a Duration.   *)
AllPaths ==
    {Signed("key1", "n1", 0, "k1"), Signed("key1", "n1", 0, NoKey),
     Signed("web1", "n1", 1, "k2"), Signed("other1", "n1", 0, NoKey),
     Signed(NoDID, "n1", 0, "k1"), Signed("key1", "n1", 20, "k1"),
     [Signed("web1", "n2", 0, "k1") EXCEPT !.fragment = FALSE],
     [Signed("key1", "n1", 0, "k1") EXCEPT !.alg = "unknown"]}

(* Blocks of one DID for all calls; or every kind of block for all calls but*)
(* one, whose block is refused at once.                                     *)
Unfit == [Signed("key1", "n1", 0, "k1") EXCEPT !.alg = "unknown"]
MCBlocks == OneDID \cup AllPaths
SameDID == [Call -> OneDID]
AnyPaths == SameDID \cup {f \in [Call -> AllPaths] : \E c \in Call : f[c] = Unfit}

Symmetry == Permutations(Call)
=============================================================================
