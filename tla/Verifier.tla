------------------------------ MODULE Verifier ------------------------------
(***************************************************************************)
(* The replay guard of signed frames: Verifier.Verify (identity.go) as it   *)
(* runs in several goroutines at once.  One Verifier is shared by every     *)
(* connection of a node whose NodeConfig supplies it, and each handshake    *)
(* calls Verify once, so a call is a process here.                          *)
(*                                                                         *)
(* A call takes four steps, and any other call may run between two of them: *)
(*   CheckTimestamp  lines 200-217, reads the clock, holds no lock;         *)
(*   RecordNonce     lines 219-236, the critical section of v.mu;           *)
(*   ResolveKey      lines 238-241, may fetch a DID document over HTTP;     *)
(*   CheckSignature  lines 242-245.                                         *)
(***************************************************************************)
EXTENDS Integers

CONSTANTS
    Call,         \* the concurrent calls of Verify on one Verifier
    DID,          \* the non-empty DIDs that occur in a VMID
    Method,       \* the DID method of each DID: "key", "web" or "other"
    Key,          \* Ed25519 public keys
    KeyOf,        \* the keys that resolving a DID can yield: one for a well
                  \* formed did:key, those a did:web document has published
    NoDID,        \* the empty DID part of a VMID
    NoKey,        \* no key; as a block's signer: a signature of no key
    Nonce,        \* the 16-byte nonces
    Blocks,       \* the signature blocks presented to Verify
    Workloads,    \* which block each call may present
    HasResolver,  \* is Verifier.Resolver set?
    TicksPerMs,   \* clock ticks in a millisecond (10^6 in the code)
    Window,       \* Verifier.Window, in ticks
    MaxDuration,  \* largest time.Duration, in ticks (2^63 - 1 in the code)
    MaxClock,     \* bound on the clock
    MaxSetBack    \* how far the clock may be set back at once; 0: never

SigAlgEd25519 == "Ed25519"

BlockType == [alg : {SigAlgEd25519, "unknown"}, did : DID \cup {NoDID},
              fragment : BOOLEAN, nonce : Nonce, ts : Int,
              signer : Key \cup {NoKey}]

ASSUME ConstantsAssumption ==
    /\ Method \in [DID -> {"key", "web", "other"}]
    /\ KeyOf \in [DID -> SUBSET Key]
    /\ Blocks \subseteq BlockType
    /\ Workloads \subseteq [Call -> Blocks]
    /\ NoDID \notin DID
    /\ NoKey \notin Key
    /\ HasResolver \in BOOLEAN

ASSUME TimeAssumption ==
    /\ TicksPerMs \in Nat \ {0}
    /\ Window \in Nat
    /\ MaxDuration \in Nat
    /\ Window < MaxDuration
    /\ MaxClock \in Nat
    /\ MaxSetBack \in Nat

VARIABLES
    clock,      \* what v.Clock() returns, in ticks
    latest,     \* history: the latest time that the clock has shown
    cache,      \* v.cache: its (did, nonce, timestamp) entries
    pc,         \* the step each call is about to take
    block,      \* argument of the call
    now,        \* the clock value the call has read
    key,        \* the public key the call has resolved
    result,     \* what the call returned
    claimedAt   \* history: latest when the call recorded its nonce

vars == <<clock, latest, cache, pc, block, now, key, result, claimedAt>>

Errors == {"ErrBadSignature", "ErrStaleTimestamp", "ErrUnresolvableDID",
           "ErrReplayedNonce"}

NotClaimed == -1

-----------------------------------------------------------------------------
(* Durations are 64-bit: time.Time.Sub saturates and negation wraps.        *)

MinDuration == -MaxDuration - 1

Sub(t, u) ==
    IF t - u > MaxDuration THEN MaxDuration
    ELSE IF t - u < MinDuration THEN MinDuration
    ELSE t - u

Negate(d) == IF d = MinDuration THEN MinDuration ELSE -d

Skew_Signed(t, ts) == Sub(t, ts * TicksPerMs)

Skew(t, ts) ==
    LET d == Sub(t, ts * TicksPerMs)
    IN  IF d < 0 THEN Negate(d) ELSE d

(* now.Add(-v.Window).UnixMilli(), which rounds down to a millisecond.      *)
Cutoff(t) == (t - Window) \div TicksPerMs

Entry(b) == [did |-> b.did, nonce |-> b.nonce, ts |-> b.ts]

Seen_AnyNonce(b) == \E e \in cache : e.did = b.did

Seen(b) == \E e \in cache : e.did = b.did /\ e.nonce = b.nonce

Evicted_AtCutoff(d, t) == {e \in cache : e.did = d /\ e.ts <= Cutoff(t)}

Evicted(d, t) == {e \in cache : e.did = d /\ e.ts < Cutoff(t)}

Return(c, r) ==
    /\ pc' = [pc EXCEPT ![c] = "done"]
    /\ result' = [result EXCEPT ![c] = r]

Goto(c, step) ==
    /\ pc' = [pc EXCEPT ![c] = step]
    /\ UNCHANGED result

-----------------------------------------------------------------------------
Init ==
    /\ clock = 0
    /\ latest = 0
    /\ cache = {}
    /\ pc = [c \in Call |-> "start"]
    /\ block \in Workloads
    /\ now = [c \in Call |-> 0]
    /\ key = [c \in Call |-> NoKey]
    /\ result = [c \in Call |-> "none"]
    /\ claimedAt = [c \in Call |-> NotClaimed]

(* The wall clock advances between any two steps of a call.                 *)
Tick ==
    /\ clock < MaxClock
    /\ clock' = clock + 1
    /\ latest' = IF clock' > latest THEN clock' ELSE latest
    /\ UNCHANGED <<cache, pc, block, now, key, result, claimedAt>>

(* The wall clock may be set back; times signed by peers have no monotonic  *)
(* reading, so Sub and Add use the wall clock.                              *)
SetBack ==
    /\ \E d \in 1 .. MaxSetBack : d <= clock /\ clock' = clock - d
    /\ UNCHANGED <<latest, cache, pc, block, now, key, result, claimedAt>>

CheckTimestamp_AnyDID(c) ==
    LET b == block[c] IN
    /\ pc[c] = "start"
    /\ b.alg = SigAlgEd25519
    /\ Skew(clock, b.ts) <= Window
    /\ now' = [now EXCEPT ![c] = clock]
    /\ Goto(c, "record")
    /\ UNCHANGED <<clock, latest, cache, block, key, claimedAt>>

CheckTimestamp(c) ==
    LET b == block[c] IN
    /\ pc[c] = "start"
    /\ \/ /\ b.alg # SigAlgEd25519
          /\ Return(c, "ErrBadSignature")
          /\ UNCHANGED now
       \/ /\ b.alg = SigAlgEd25519
          /\ now' = [now EXCEPT ![c] = clock]
          /\ \/ Skew(clock, b.ts) > Window /\ Return(c, "ErrStaleTimestamp")
             \/ /\ Skew(clock, b.ts) <= Window
                /\ \/ b.did = NoDID /\ Return(c, "ErrUnresolvableDID")
                   \/ b.did # NoDID /\ Goto(c, "record")
    /\ UNCHANGED <<clock, latest, cache, block, key, claimedAt>>

RecordNonce_Unchecked(c) ==
    LET b == block[c] IN
    /\ pc[c] = "record"
    /\ cache' = (cache \ Evicted(b.did, now[c])) \cup {Entry(b)}
    /\ claimedAt' = [claimedAt EXCEPT ![c] = latest]
    /\ Goto(c, "resolve")
    /\ UNCHANGED <<clock, latest, block, now, key>>

RecordNonce(c) ==
    LET b == block[c] IN
    /\ pc[c] = "record"
    /\ \/ /\ Seen(b)
          /\ Return(c, "ErrReplayedNonce")
          /\ UNCHANGED <<cache, claimedAt>>
       \/ /\ ~Seen(b)
          /\ cache' = (cache \ Evicted(b.did, now[c])) \cup {Entry(b)}
          /\ claimedAt' = [claimedAt EXCEPT ![c] = latest]
          /\ Goto(c, "resolve")
    /\ UNCHANGED <<clock, latest, block, now, key>>

(* Resolving a did:web VMID needs a fragment, a Resolver and a document     *)
(* that can be fetched and lists the method; any of these may be missing.   *)
ResolveKey(c) ==
    LET b == block[c] IN
    /\ pc[c] = "resolve"
    /\ \/ /\ Method[b.did] = "key" \/ (Method[b.did] = "web" /\ b.fragment /\ HasResolver)
          /\ \E k \in KeyOf[b.did] : key' = [key EXCEPT ![c] = k]
          /\ Goto(c, "check")
       \/ /\ Method[b.did] # "key" \/ KeyOf[b.did] = {}
          /\ Return(c, "ErrUnresolvableDID")
          /\ UNCHANGED key
    /\ UNCHANGED <<clock, latest, cache, block, now, claimedAt>>

CheckSignature(c) ==
    /\ pc[c] = "check"
    /\ Return(c, IF block[c].signer = key[c] THEN "ok" ELSE "ErrBadSignature")
    /\ UNCHANGED <<clock, latest, cache, block, now, key, claimedAt>>

Next ==
    \/ Tick \/ SetBack
    \/ \E c \in Call : \/ CheckTimestamp(c)
                       \/ RecordNonce(c)
                       \/ ResolveKey(c)
                       \/ CheckSignature(c)

Spec == Init /\ [][Next]_vars

-----------------------------------------------------------------------------
(* The type invariant of the state of Verifier and of its running calls.    *)
TypeOK ==
    /\ clock \in Nat /\ latest \in Nat
    /\ cache \subseteq [did : DID, nonce : Nonce, ts : Int]
    /\ pc \in [Call -> {"start", "record", "resolve", "check", "done"}]
    /\ block \in [Call -> Blocks]
    /\ now \in [Call -> Nat]
    /\ key \in [Call -> Key \cup {NoKey}]
    /\ result \in [Call -> Errors \cup {"none", "ok"}]
    /\ claimedAt \in [Call -> Nat \cup {NotClaimed}]

Claimed(c) == claimedAt[c] # NotClaimed

SamePair(a, b) ==
    /\ block[a].did = block[b].did
    /\ block[a].nonce = block[b].nonce

(* The block of call c has left the acceptance window at time t.            *)
Expired(c, t) == block[c].ts * TicksPerMs + Window < t

(* Verify never lets two calls take the same (DID, nonce) pair while the    *)
(* block that took it first is inside the acceptance window by every time   *)
(* the clock has shown, however the calls interleave and although the clock *)
(* may be set back (identity.go:219-236).                                   *)
NoReplayInWindow ==
    \A a, b \in Call :
        a # b /\ SamePair(a, b) /\ Claimed(a) /\ Claimed(b)
            => Expired(a, claimedAt[b]) \/ Expired(b, claimedAt[a])

(* A block that Verify accepts a second time got through on an old clock    *)
(* reading: the second call entered the critical section (identity.go:219)  *)
(* after the clock had shown a later time than the one it read (identity.go:*)
(* 204), because it waited for the lock or because the clock was set back.  *)
ReplayOnlyThroughStaleClock ==
    \A a, b \in Call :
        a # b /\ block[a] = block[b] /\ Claimed(a) /\ Claimed(b)
            => now[a] < claimedAt[a] \/ now[b] < claimedAt[b]

(* The timestamp check (identity.go:206-212) keeps out every block whose    *)
(* timestamp differs from the clock by more than the window, as long as the *)
(* difference fits a time.Duration.                                         *)
WindowRespected ==
    \A c \in Call :
        LET d == now[c] - block[c].ts * TicksPerMs
        IN  Claimed(c) /\ d > MinDuration => d <= Window /\ -d <= Window

(* Pruning the cache (identity.go:229-234) only forgets nonces whose        *)
(* timestamps the window check refuses from now on, although it compares    *)
(* milliseconds and the check compares nanoseconds.                         *)
EvictsOnlyExpired ==
    [][\A e \in cache \ cache' : e.ts * TicksPerMs + Window < latest]_vars

(* What has become of a call, as its caller will see it.                    *)
Status(c) ==
    CASE ~Claimed(c) /\ pc[c] # "done" -> "asking"
      [] ~Claimed(c) /\ pc[c] = "done" ->
             IF result[c] = "ErrReplayedNonce" THEN "replay" ELSE "refused"
      [] Claimed(c) /\ pc[c] # "done" -> "has pair"
      [] Claimed(c) /\ pc[c] = "done" -> IF result[c] = "ok" THEN "accepted" ELSE "rejected"

Guard == INSTANCE ReplayGuard WITH
    time <- latest,
    pair <- [c \in Call |-> <<block[c].did, block[c].nonce>>],
    until <- [c \in Call |-> block[c].ts * TicksPerMs + Window],
    status <- [c \in Call |-> Status(c)]

(* Verify implements the replay guard its callers rely on (ReplayGuard): a  *)
(* pair goes to one call at a time, and ErrReplayedNonce (identity.go:227)  *)
(* is returned only when another call has recorded the pair, be it one that *)
(* failed afterwards.                                                       *)
ImplementsReplayGuard == Guard!Spec

-----------------------------------------------------------------------------
(* What the comments of identity.go say of Verify and the code does not do. *)

(* identity.go:197: "On a successful verification, Verify records the (DID, *)
(* Nonce) pair so a later replay returns ErrReplayedNonce": no block is     *)
(* verified successfully twice.                                             *)
AcceptedOnce ==
    \A a, b \in Call :
        a # b /\ block[a] = block[b] => ~(result[a] = "ok" /\ result[b] = "ok")

=============================================================================
