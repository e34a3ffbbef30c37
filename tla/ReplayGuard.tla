---------------------------- MODULE ReplayGuard -----------------------------
(***************************************************************************)
(* What Verifier.Verify (identity.go) promises its callers about replays,   *)
(* without a cache, a lock or a clock that can be read too early: every     *)
(* call presents a (DID, nonce) pair; a pair is given to one call, and to   *)
(* another only after the timestamp of each call that had it has left the   *)
(* window; and a call is told "replay" only when another one had its pair.  *)
(***************************************************************************)
EXTENDS Integers

CONSTANT Call   \* the calls of Verify

VARIABLES
    time,    \* the latest time that has been seen
    pair,    \* the pair each call presents
    until,   \* the time up to which its timestamp is in the window
    status   \* what has become of the call

vars == <<time, pair, until, status>>

Has(c) == status[c] \in {"has pair", "accepted", "rejected"}

Become(c, from, to) ==
    /\ status[c] = from
    /\ status' = [status EXCEPT ![c] = to]
    /\ UNCHANGED <<time, pair, until>>

Init ==
    /\ time = 0
    /\ status = [c \in Call |-> "asking"]

TimePasses ==
    /\ time' \in Nat /\ time' > time
    /\ UNCHANGED <<pair, until, status>>

(* The call gets its pair; every call that had it before has expired.       *)
GivePair(c) ==
    /\ Become(c, "asking", "has pair")
    /\ \A d \in Call : Has(d) /\ pair[d] = pair[c] => until[d] < time

SayReplay(c) ==
    /\ Become(c, "asking", "replay")
    /\ \E d \in Call \ {c} : Has(d) /\ pair[d] = pair[c]

(* The block is unfit before anything is recorded.                          *)
Refuse(c) == Become(c, "asking", "refused")

Accept(c) == Become(c, "has pair", "accepted")

Reject(c) == Become(c, "has pair", "rejected")

Next ==
    \/ TimePasses
    \/ \E c \in Call : GivePair(c) \/ SayReplay(c) \/ Refuse(c) \/ Accept(c) \/ Reject(c)

Spec == Init /\ [][Next]_vars

=============================================================================
