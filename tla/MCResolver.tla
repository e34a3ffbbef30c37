----------------------------- MODULE MCResolver -----------------------------
(* Small instances of Resolver for TLC.                                     *)
EXTENDS Resolver, TLC

(* Two DIDs with documents, one of which a third DID maps to as well, and   *)
(* DIDs that have none.                                                     *)
MCMethod == "d1" :> "web" @@ "alias1" :> "web" @@ "d2" :> "web" @@ "bad" :> "web" @@ "k" :> "key"
MCURLOf == "d1" :> "u1" @@ "alias1" :> "u1" @@ "d2" :> "u2" @@ "bad" :> Malformed @@ "k" :> Malformed

Aire(host, port, agentID) ==
    [type |-> "AIREv1", uri |-> [scheme |-> "aire", host |-> host, port |-> port],
     agentID |-> agentID]
Unusable ==
    [type |-> "AIREv1", uri |-> [scheme |-> "https", host |-> "h0", port |-> ""], agentID |-> "a0"]

(* One document lists the handle, second; the same endpoint moved to        *)
(* another host without the handle; a document without a usable endpoint.   *)
MCDocument ==
    {[aka |-> <<"other", "alice">>, endpoints |-> <<Unusable, Aire("h1", "", "")>>],
     [aka |-> <<"other">>, endpoints |-> <<Aire("h2", "1", "a2"), Aire("h1", "", "")>>],
     [aka |-> <<"alice">>, endpoints |-> <<Unusable>>]}

MCTXTRecords == {<<>>, <<"d1">>, <<"d2">>, <<"d2", "d1">>, <<"k">>, <<"alias1">>}
=============================================================================
