------------------------------ MODULE MCPeers -------------------------------
(* A small instance of Peers for TLC: the two workers of cmd/aire-peers on  *)
(* the dialled connection, and an operation that the other end opens.       *)
EXTENDS Peers, TLC

MCTargets == <<"wordcount", "reverse">>
MCTask == {"wordcount", "reverse", "back"}
MCOpener == [t \in MCTask |-> IF t = "back" THEN "server" ELSE "client"]
MCReplies == [t \in MCTask |-> 1]
MCWants == [t \in MCTask |-> IF t = "back" THEN 2 ELSE 1]
MCAdmissions == {MCTask \ {"back"}, MCTask \ {"wordcount"}}
=============================================================================
