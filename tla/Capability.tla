----------------------------- MODULE Capability -----------------------------
(***************************************************************************)
(* Capability negotiation (capability.go).  A capability list is a sequence *)
(* of records [name, version, required].                                    *)
(***************************************************************************)
EXTENDS Integers, Sequences

Names(caps) == {caps[i].name : i \in DOMAIN caps}

(* indexCapabilities refuses a list that names a capability twice.          *)
HasDuplicate(caps) ==
    \E i, j \in DOMAIN caps : i # j /\ caps[i].name = caps[j].name

(* The entry that indexCapabilities files under a name of the list.         *)
ByName(caps, name) == caps[CHOOSE i \in DOMAIN caps : caps[i].name = name]

LesserVersion(a, b) == IF b.version < a.version THEN b.version ELSE a.version

Misses(requiring, offering) ==
    \E i \in DOMAIN requiring :
        requiring[i].required /\ requiring[i].name \notin Names(offering)

(* The error NegotiateCapabilities returns; "" is nil.                      *)
NegotiationError_LocalOnly(local, peer) ==
    IF HasDuplicate(local) \/ HasDuplicate(peer) THEN "ErrMalformedHello"
    ELSE IF Misses(local, peer) THEN "ErrMissingRequiredCapability"
    ELSE ""

NegotiationError(local, peer) ==
    IF HasDuplicate(local) \/ HasDuplicate(peer) THEN "ErrMalformedHello"
    ELSE IF Misses(local, peer) \/ Misses(peer, local) THEN "ErrMissingRequiredCapability"
    ELSE ""

(* The active list, which mirrors the order of local: entry i is what local *)
(* capability i became, for the i whose name the peer advertises too.       *)
Active_LocalVersion(local, peer) ==
    [i \in {j \in DOMAIN local : local[j].name \in Names(peer)} |->
        [name |-> local[i].name, version |-> local[i].version]]

Active(local, peer) ==
    [i \in {j \in DOMAIN local : local[j].name \in Names(peer)} |->
        [name |-> local[i].name,
         version |-> LesserVersion(local[i], ByName(peer, local[i].name))]]

=============================================================================
