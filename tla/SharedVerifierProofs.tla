------------------------ MODULE SharedVerifierProofs ------------------------
(***************************************************************************)
(* Proofs about module Verifier, for every set of calls, blocks and keys and*)
(* every window and clock resolution, and about module SharedVerifier, for  *)
(* any two clients, any blocks they may present and any clock.              *)
(*                                                                          *)
(* Verifier: a clock value that a call has read is never ahead of the latest*)
(* time the clock has shown (ClocksBehind), so pruning with it only removes *)
(* entries that are expired by that time (EvictedIsExpired); hence a nonce  *)
(* taken by a call stays in the cache until it is expired (LiveClaimsCached),*)
(* and a second call finds it there.  Conversely every entry was put there by*)
(* a call (CacheIsClaimed), so a call that is refused as a replay is one:   *)
(* Verify implements ReplayGuard.                                           *)
(*                                                                          *)
(* SharedVerifier is proved from its parts.  Every step is a step of Verifier*)
(* or leaves the calls of Verify alone, so the inductive invariant of       *)
(* Verifier holds here too; SInv adds what Verify's result says of the block.*)
(* At the node's end of a connection, EndInv relates the step of the        *)
(* handshake to the step of its call of Verify; it is stated once, over the *)
(* values of one connection, and used for both.                             *)
(***************************************************************************)
EXTENDS SharedVerifier, TLAPS

(* Every clock value held by a call, and every time of a claim, is past.    *)
ClocksBehind ==
    /\ clock <= latest
    /\ \A c \in Call : now[c] <= latest /\ claimedAt[c] <= latest

(* A claimed nonce is cached as long as its block has not expired.          *)
LiveClaimsCached ==
    \A c \in Call : Claimed(c) => Expired(c, latest) \/ Entry(block[c]) \in cache

(* A call that is past the timestamp check passed it at time now.           *)
PassedTimestampCheck ==
    \A c \in Call :
        Claimed(c) \/ pc[c] \in {"record", "resolve", "check"}
            => Skew(now[c], block[c].ts) <= Window /\ block[c].did \in DID

(* Calls past the critical section have claimed their nonce; calls that     *)
(* have not reached it have not.                                            *)
ClaimOrder ==
    \A c \in Call : /\ pc[c] \in {"start", "record"} => ~Claimed(c)
                    /\ pc[c] \in {"resolve", "check"} => Claimed(c)

(* Every entry of the cache was recorded by a call.                         *)
CacheIsClaimed ==
    \A e \in cache : \E c \in Call : Claimed(c) /\ Entry(block[c]) = e

IInv ==
    /\ TypeOK
    /\ ClocksBehind
    /\ LiveClaimsCached
    /\ PassedTimestampCheck
    /\ ClaimOrder
    /\ CacheIsClaimed
    /\ NoReplayInWindow

-----------------------------------------------------------------------------
(* The millisecond cutoff of the pruning loop never exceeds the nanosecond  *)
(* bound of the timestamp check: rounding is on the safe side.              *)
LEMMA CutoffIsSafe ==
    ASSUME NEW ts \in Int, NEW t \in Int, ts < Cutoff(t)
    PROVE  ts * TicksPerMs + Window < t
<1> DEFINE q == (t - Window) \div TicksPerMs
<1>1. q \in Int /\ TicksPerMs \in Int /\ TicksPerMs > 0 /\ Window \in Int
  BY TimeAssumption
<1>2. q * TicksPerMs <= t - Window
  BY <1>1, TimeAssumption
<1>3. ts + 1 <= q
  BY <1>1 DEF Cutoff
<1>4. (ts + 1) * TicksPerMs <= q * TicksPerMs
  BY <1>1, <1>3
<1>5. (ts + 1) * TicksPerMs = ts * TicksPerMs + TicksPerMs
  BY <1>1
<1> HIDE DEF q
<1> QED
  BY <1>1, <1>2, <1>4, <1>5


(* Pruning with a clock value that is not ahead of latest removes only      *)
(* expired entries.                                                         *)
LEMMA EvictedIsExpired ==
    ASSUME TypeOK, ClocksBehind, NEW c \in Call, NEW d,
           NEW e \in Evicted(d, now[c])
    PROVE  e.ts * TicksPerMs + Window < latest
<1>1. e \in cache /\ e.ts < Cutoff(now[c])
  BY DEF Evicted
<1>2. e.ts \in Int /\ now[c] \in Int /\ latest \in Int /\ now[c] <= latest
  BY <1>1 DEF TypeOK, ClocksBehind
<1>3. e.ts * TicksPerMs + Window < now[c]
  BY <1>1, <1>2, CutoffIsSafe
<1>4. e.ts * TicksPerMs + Window \in Int
  BY <1>2, TimeAssumption
<1> QED
  BY <1>2, <1>3, <1>4

(* A timestamp that passes the check is at most Window in the past.         *)
LEMMA FreshNotExpired ==
    ASSUME NEW t \in Int, NEW ts \in Int, Skew(t, ts) <= Window
    PROVE  t <= ts * TicksPerMs + Window
<1> DEFINE x == ts * TicksPerMs
<1>1. x \in Int
  BY TimeAssumption
<1>2. (IF Sub(t, x) < 0 THEN Negate(Sub(t, x)) ELSE Sub(t, x)) <= Window
  BY DEF Skew
<1> HIDE DEF x
<1>3. t <= x + Window
  BY <1>1, <1>2, TimeAssumption DEF Sub, Negate, MinDuration
<1> QED
  BY <1>3 DEF x

(* The expiry bound of a call's block is an integer.                        *)
LEMMA BlockTypes ==
    ASSUME TypeOK, NEW c \in Call
    PROVE  /\ block[c] \in BlockType
           /\ block[c].ts \in Int
           /\ block[c].ts * TicksPerMs + Window \in Int
<1>1. block[c] \in BlockType
  BY ConstantsAssumption DEF TypeOK
<1>2. block[c].ts \in Int
  BY <1>1 DEF BlockType
<1> QED
  BY <1>1, <1>2, TimeAssumption

-----------------------------------------------------------------------------
(* A Verifier with an empty cache satisfies the invariant.                  *)
LEMMA InitIInv == Init => IInv
<1> SUFFICES ASSUME Init PROVE IInv
  OBVIOUS
<1>1. TypeOK
  BY ConstantsAssumption DEF Init, TypeOK, NotClaimed
<1>2. \A c \in Call : ~Claimed(c) /\ pc[c] = "start" /\ now[c] = 0 /\ claimedAt[c] = -1
  BY DEF Init, Claimed, NotClaimed
<1>3. clock = 0 /\ latest = 0 /\ cache = {}
  BY DEF Init
<1> QED
  BY <1>1, <1>2, <1>3 DEF IInv, ClocksBehind, LiveClaimsCached, PassedTimestampCheck,
                          ClaimOrder, CacheIsClaimed, NoReplayInWindow

(* Every step of a call and of the clock keeps the invariant.               *)
LEMMA NextIInv == IInv /\ [Next]_vars => IInv'
<1> SUFFICES ASSUME IInv, [Next]_vars PROVE IInv'
  OBVIOUS
<1> USE DEF IInv
<1>1. CASE Tick \/ SetBack
  <2>1. /\ UNCHANGED <<cache, pc, block, now, key, result, claimedAt>>
        /\ clock' \in Nat /\ latest' \in Nat
        /\ clock' <= latest' /\ latest <= latest'
    BY <1>1, TimeAssumption DEF Tick, SetBack, TypeOK, ClocksBehind
  <2>2. TypeOK'
    BY <2>1 DEF TypeOK
  <2>3. ClocksBehind'
    <3> SUFFICES ASSUME NEW c \in Call PROVE now'[c] <= latest' /\ claimedAt'[c] <= latest'
      BY <2>1 DEF ClocksBehind
    <3> QED
      BY <2>1 DEF ClocksBehind, TypeOK, NotClaimed
  <2>4. LiveClaimsCached'
    <3> SUFFICES ASSUME NEW c \in Call, Claimed(c)', ~(Entry(block[c]) \in cache)'
                 PROVE  Expired(c, latest)'
      BY DEF LiveClaimsCached
    <3>1. Expired(c, latest)
      BY <2>1, Zenon DEF LiveClaimsCached, Claimed, Entry
    <3> QED
      BY <2>1, <3>1, BlockTypes DEF Expired, TypeOK
  <2>5. PassedTimestampCheck' /\ ClaimOrder' /\ CacheIsClaimed' /\ NoReplayInWindow'
    BY <2>1 DEF PassedTimestampCheck, ClaimOrder, CacheIsClaimed, NoReplayInWindow, Claimed,
                Expired, SamePair, Entry
  <2> QED
    BY <2>2, <2>3, <2>4, <2>5, Zenon
<1>2. ASSUME NEW c \in Call, CheckTimestamp(c) PROVE IInv'
  <2> USE <1>2
  <2>0. block[c] \in BlockType /\ clock \in Nat
    BY BlockTypes, Zenon DEF TypeOK
  <2>1. /\ UNCHANGED <<clock, latest, cache, block, key, claimedAt>>
        /\ pc[c] = "start"
        /\ pc'[c] \in {"done", "record"}
        /\ now' \in [Call -> Nat]
        /\ \A d \in Call \ {c} : now'[d] = now[d] /\ pc'[d] = pc[d]
        /\ now'[c] <= latest
    <3>1. now' = now \/ now' = [now EXCEPT ![c] = clock]
      BY DEF CheckTimestamp
    <3>2. \E s \in {"done", "record"} : pc' = [pc EXCEPT ![c] = s]
      BY Zenon DEF CheckTimestamp, Return, Goto
    <3> QED
      BY <3>1, <3>2 DEF CheckTimestamp, TypeOK, ClocksBehind
  <2>2. TypeOK'
    BY <2>1 DEF TypeOK, CheckTimestamp, Return, Goto, Errors
  <2>3. ClocksBehind'
    BY <2>1 DEF ClocksBehind, TypeOK
  <2>4. ~Claimed(c) /\ (\A d \in Call : Claimed(d)' = Claimed(d))
    BY <2>1, Zenon DEF ClaimOrder, Claimed
  <2>5. LiveClaimsCached' /\ CacheIsClaimed' /\ NoReplayInWindow'
    BY <2>1, <2>4, Zenon DEF LiveClaimsCached, CacheIsClaimed, NoReplayInWindow, Claimed, Expired, SamePair, Entry
  <2>6. PassedTimestampCheck'
    <3>1. pc'[c] # "done" => Skew(now'[c], block[c].ts) <= Window /\ block[c].did \in DID
      BY <2>0, <2>1, ZenonT(60) DEF CheckTimestamp, Return, Goto, TypeOK, BlockType
    <3> QED
      BY <2>1, <2>4, <3>1, Zenon DEF PassedTimestampCheck, Claimed
  <2>7. ClaimOrder'
    BY <2>1, <2>4 DEF ClaimOrder, Claimed
  <2> QED
    BY <2>2, <2>3, <2>5, <2>6, <2>7, Zenon
<1>3. ASSUME NEW c \in Call, RecordNonce(c) PROVE IInv'
  <2>0. /\ UNCHANGED <<clock, latest, block, now, key>>
        /\ pc[c] = "record"
        /\ block[c] \in BlockType
        /\ block[c].did \in DID
        /\ ~Claimed(c)
    BY <1>3, BlockTypes DEF RecordNonce, PassedTimestampCheck, ClaimOrder
  <2>1. CASE Seen(block[c])
    <3>1. /\ UNCHANGED <<cache, claimedAt>>
          /\ pc' = [pc EXCEPT ![c] = "done"]
          /\ result' = [result EXCEPT ![c] = "ErrReplayedNonce"]
      BY <1>3, <2>1, Zenon DEF RecordNonce, Return
    <3>2. TypeOK'
      BY <2>0, <3>1 DEF TypeOK, Errors
    <3>3. \A d \in Call : (Claimed(d)' = Claimed(d)) /\ (d # c => pc'[d] = pc[d]) /\ pc'[c] = "done"
      BY <3>1, Zenon DEF Claimed, TypeOK
    <3>4. ClocksBehind' /\ LiveClaimsCached' /\ CacheIsClaimed' /\ NoReplayInWindow'
      BY <2>0, <3>1, <3>3, Zenon DEF ClocksBehind, LiveClaimsCached, CacheIsClaimed, NoReplayInWindow, Claimed, Expired, SamePair, Entry
    <3>5. PassedTimestampCheck' /\ ClaimOrder'
      BY <2>0, <3>1, <3>3 DEF PassedTimestampCheck, ClaimOrder, Claimed
    <3> QED
      BY <3>2, <3>4, <3>5, Zenon
  <2>2. CASE ~Seen(block[c])
    <3>1. /\ cache' = (cache \ Evicted(block[c].did, now[c])) \cup {Entry(block[c])}
          /\ claimedAt' = [claimedAt EXCEPT ![c] = latest]
          /\ pc' = [pc EXCEPT ![c] = "resolve"]
          /\ UNCHANGED result
      BY <1>3, <2>2, Zenon DEF RecordNonce, Goto
    <3>2. TypeOK'
      <4>1. Entry(block[c]) \in [did : DID, nonce : Nonce, ts : Int]
        BY <2>0 DEF Entry, BlockType
      <4> QED
        BY <2>0, <3>1, <4>1, ZenonT(60) DEF TypeOK
    <3>3. /\ claimedAt'[c] = latest /\ Claimed(c)' /\ pc'[c] = "resolve"
          /\ \A d \in Call \ {c} : claimedAt'[d] = claimedAt[d] /\ pc'[d] = pc[d] /\ (Claimed(d)' = Claimed(d))
      BY <3>1 DEF Claimed, TypeOK, NotClaimed
    <3>4. ClocksBehind'
      BY <2>0, <3>3 DEF ClocksBehind, TypeOK
    <3>5. LiveClaimsCached'
      <4> SUFFICES ASSUME NEW d \in Call, Claimed(d)', ~Expired(d, latest)'
                   PROVE  (Entry(block[d]) \in cache)'
        BY Zenon DEF LiveClaimsCached
      <4>1. CASE d = c
        BY <4>1, <2>0, <3>1, Zenon DEF Entry
      <4>2. CASE d # c
        <5>1. Entry(block[d]) \in cache /\ ~Expired(d, latest)
          BY <4>2, <2>0, <3>3, Zenon DEF LiveClaimsCached, Expired
        <5>2. Entry(block[d]) \notin Evicted(block[c].did, now[c])
          <6> SUFFICES ASSUME Entry(block[d]) \in Evicted(block[c].did, now[c]) PROVE FALSE
            BY Zenon
          <6>1. Entry(block[d]).ts * TicksPerMs + Window < latest
            BY EvictedIsExpired, Zenon
          <6> QED
            BY <5>1, <6>1, Zenon DEF Entry, Expired
        <5> QED
          BY <2>0, <3>1, <5>1, <5>2, Zenon DEF Entry
      <4> QED
        BY <4>1, <4>2, Zenon
    <3>6. PassedTimestampCheck' /\ ClaimOrder'
      BY <2>0, <3>3, Zenon DEF PassedTimestampCheck, ClaimOrder
    <3>7. NoReplayInWindow'
      <4> SUFFICES ASSUME NEW a \in Call, NEW b \in Call, a # b, SamePair(a, b)',
                          Claimed(a)', Claimed(b)'
                   PROVE  Expired(a, claimedAt[b])' \/ Expired(b, claimedAt[a])'
        BY Zenon DEF NoReplayInWindow
      <4>1. ASSUME NEW d \in Call, d # c, SamePair(d, c), Claimed(d)
            PROVE  Expired(d, claimedAt[c])'
        <5>1. Entry(block[d]) \notin cache
          BY <2>2, <4>1 DEF Seen, SamePair, Entry
        <5>2. Expired(d, latest)
          BY <4>1, <5>1, Zenon DEF LiveClaimsCached
        <5> QED
          BY <2>0, <3>3, <5>2, ZenonT(60) DEF Expired
      <4>2. SamePair(a, b) /\ SamePair(b, a)
        BY <2>0, Zenon DEF SamePair
      <4>3. CASE a # c /\ b # c
        BY <4>2, <4>3, <2>0, <3>3, Zenon DEF NoReplayInWindow, Expired
      <4> QED
        BY <4>1, <4>2, <4>3, <3>3, Zenon
    <3>8. CacheIsClaimed'
      <4> SUFFICES ASSUME NEW e \in cache'
                   PROVE  \E d \in Call : Claimed(d)' /\ Entry(block'[d]) = e
        BY Zenon DEF CacheIsClaimed
      <4>1. CASE e = Entry(block[c])
        BY <4>1, <2>0, <3>3, Zenon
      <4>2. CASE e \in cache
        <5>1. PICK d \in Call : Claimed(d) /\ Entry(block[d]) = e
          BY <4>2, ZenonT(60) DEF CacheIsClaimed
        <5>2. Claimed(d)'
          BY <2>0, <3>3, <5>1
        <5> QED
          BY <2>0, <5>1, <5>2
      <4> QED
        BY <3>1, <4>1, <4>2, Zenon
    <3> QED
      BY <3>2, <3>4, <3>5, <3>6, <3>7, <3>8, Zenon
  <2> QED
    BY <2>1, <2>2, Zenon
<1>4. ASSUME NEW c \in Call, ResolveKey(c) \/ CheckSignature(c) PROVE IInv'
  <2>1. UNCHANGED <<clock, latest, cache, block, now, claimedAt>>
    BY <1>4, ZenonT(60) DEF ResolveKey, CheckSignature
  <2>2. /\ pc[c] \in {"resolve", "check"}
        /\ \E s \in {"check", "done"} : pc' = [pc EXCEPT ![c] = s]
    BY <1>4 DEF ResolveKey, CheckSignature, Return, Goto
  <2>3. /\ result' \in [Call -> Errors \cup {"none", "ok"}]
        /\ key' \in [Call -> Key \cup {NoKey}]
    <3>2. CASE ResolveKey(c)
      <4>1. key' = key \/ \E k \in Key : key' = [key EXCEPT ![c] = k]
        <5>1. key' = key \/ \E k \in KeyOf[block[c].did] : key' = [key EXCEPT ![c] = k]
          BY <3>2, Zenon DEF ResolveKey
        <5>2. block[c].did \in DID
          BY <2>2, Zenon DEF PassedTimestampCheck
        <5> QED
          BY <5>1, <5>2, ConstantsAssumption, Zenon
      <4>2. result' = result \/ result' = [result EXCEPT ![c] = "ErrUnresolvableDID"]
        BY <3>2, Zenon DEF ResolveKey, Return, Goto
      <4> QED
        BY <4>1, <4>2 DEF TypeOK, Errors
    <3>3. CASE CheckSignature(c)
      BY <3>3 DEF CheckSignature, Return, TypeOK, Errors
    <3> QED
      BY <1>4, <3>2, <3>3, Zenon
  <2>4. TypeOK'
    BY <2>1, <2>2, <2>3, ZenonT(60) DEF TypeOK
  <2>5. \A d \in Call : /\ Claimed(d)' = Claimed(d)
                        /\ pc'[d] \in {"start", "record"} => pc'[d] = pc[d]
                        /\ pc'[d] \in {"record", "resolve", "check"}
                             => pc[d] \in {"record", "resolve", "check"}
                        /\ pc'[d] \in {"resolve", "check"} => pc[d] \in {"resolve", "check"}
    BY <2>1, <2>2 DEF Claimed, TypeOK
  <2>6. ClocksBehind' /\ LiveClaimsCached' /\ CacheIsClaimed' /\ NoReplayInWindow'
    BY <2>1, <2>5 DEF ClocksBehind, LiveClaimsCached, CacheIsClaimed, NoReplayInWindow, Claimed, Expired, SamePair, Entry
  <2>7. PassedTimestampCheck' /\ ClaimOrder'
    BY <2>1, <2>5, Zenon DEF PassedTimestampCheck, ClaimOrder, Claimed
  <2> QED
    BY <2>4, <2>6, <2>7, Zenon
<1>5. CASE UNCHANGED vars
  BY <1>5, Zenon DEF vars, TypeOK, ClocksBehind, LiveClaimsCached, PassedTimestampCheck, ClaimOrder,
              CacheIsClaimed, NoReplayInWindow, Claimed, Expired, SamePair, Entry
<1> QED
  BY <1>1, <1>2, <1>3, <1>4, <1>5 DEF Next

-----------------------------------------------------------------------------
(* IInv holds in every state of every run of concurrent Verify calls.       *)
LEMMA Invariance == Spec => []IInv
<1>1. Init => IInv
  BY InitIInv
<1>2. IInv /\ [Next]_vars => IInv'
  BY NextIInv
<1> QED
  BY <1>1, <1>2, PTL DEF Spec

(* The state of Verifier and its calls is always well typed.                *)
THEOREM TypeCorrect == Spec => []TypeOK
<1>1. IInv => TypeOK
  BY DEF IInv
<1> QED
  BY <1>1, Invariance, PTL

(* No two calls of Verify take the same (DID, nonce) pair while the first   *)
(* is inside the window: identity.go:219-236 for any number of calls.       *)
THEOREM NoPairTwice == Spec => []NoReplayInWindow
<1>1. IInv => NoReplayInWindow
  BY DEF IInv
<1> QED
  BY <1>1, Invariance, PTL

(* A block taken twice was taken with a clock value (identity.go:204) behind*)
(* the latest time the clock had shown when it was used (identity.go:219).  *)
THEOREM StaleClockIsTheOnlyGap == Spec => []ReplayOnlyThroughStaleClock
<1>1. IInv => ReplayOnlyThroughStaleClock
  <2> SUFFICES ASSUME IInv, NEW a \in Call, NEW b \in Call, a # b,
                      block[a] = block[b], Claimed(a), Claimed(b)
               PROVE  now[a] < claimedAt[a] \/ now[b] < claimedAt[b]
    BY Zenon DEF ReplayOnlyThroughStaleClock
  <2>1. /\ now[a] \in Int /\ now[b] \in Int
        /\ claimedAt[a] \in Int /\ claimedAt[b] \in Int
        /\ block[a].ts \in Int
        /\ block[a].ts * TicksPerMs + Window \in Int
    BY BlockTypes DEF IInv, TypeOK, NotClaimed
  <2>2. /\ now[a] <= block[a].ts * TicksPerMs + Window
        /\ now[b] <= block[a].ts * TicksPerMs + Window
    BY <2>1, FreshNotExpired DEF IInv, PassedTimestampCheck
  <2>3. SamePair(a, b)
    BY Zenon DEF SamePair
  <2>4. Expired(a, claimedAt[b]) \/ Expired(b, claimedAt[a])
    BY <2>3 DEF IInv, NoReplayInWindow
  <2> QED
    BY <2>1, <2>2, <2>4 DEF Expired
<1> QED
  BY <1>1, Invariance, PTL

(* A block that is taken has a timestamp within Window of the clock that    *)
(* was read, when the difference fits a Duration (identity.go:206-212).     *)
THEOREM WindowIsRespected == Spec => []WindowRespected
<1>1. IInv => WindowRespected
  <2> SUFFICES ASSUME IInv, NEW c \in Call, Claimed(c),
                      now[c] - block[c].ts * TicksPerMs > MinDuration
               PROVE  /\ now[c] - block[c].ts * TicksPerMs <= Window
                      /\ -(now[c] - block[c].ts * TicksPerMs) <= Window
    BY Zenon DEF WindowRespected
  <2> DEFINE x == block[c].ts * TicksPerMs
  <2>1. now[c] \in Int /\ x \in Int
    BY BlockTypes, TimeAssumption DEF IInv, TypeOK
  <2>2. Skew(now[c], block[c].ts) <= Window
    BY Zenon DEF IInv, PassedTimestampCheck
  <2>3. (IF Sub(now[c], x) < 0 THEN Negate(Sub(now[c], x)) ELSE Sub(now[c], x)) <= Window
    BY <2>2, Zenon DEF Skew
  <2>4. now[c] - x > MinDuration
    BY Zenon
  <2> HIDE DEF x
  <2>5. now[c] - x <= Window /\ -(now[c] - x) <= Window
    BY <2>1, <2>3, <2>4, TimeAssumption DEF Sub, Negate, MinDuration
  <2> QED
    BY <2>5, Zenon DEF x
<1> QED
  BY <1>1, Invariance, PTL

(* The pruning loop (identity.go:229-234) only removes entries that the     *)
(* timestamp check refuses from then on.                                    *)
THEOREM PruningIsSafe == Spec => EvictsOnlyExpired
<1>1. IInv /\ [Next]_vars
        => [\A e \in cache \ cache' : e.ts * TicksPerMs + Window < latest]_vars
  <2> SUFFICES ASSUME IInv, Next, NEW e \in cache \ cache'
               PROVE  e.ts * TicksPerMs + Window < latest
    BY SMTT(30)
  <2>1. PICK c \in Call : RecordNonce(c)
    BY Zenon DEF Next, Tick, SetBack, CheckTimestamp, ResolveKey, CheckSignature
  <2>2. e \in Evicted(block[c].did, now[c])
    BY <2>1 DEF RecordNonce
  <2> QED
    BY <2>2, EvictedIsExpired DEF IInv
<1> QED
  BY <1>1, Invariance, PTL DEF Spec, EvictsOnlyExpired

-----------------------------------------------------------------------------
(* The status of a call is left alone by a step that changes neither its    *)
(* program counter nor its claim nor its result.                            *)
LEMMA SameStatus ==
    ASSUME NEW c \in Call, pc'[c] = pc[c], claimedAt'[c] = claimedAt[c], result'[c] = result[c]
    PROVE  Status(c)' = Status(c)
BY DEF Status, Claimed

(* A step of call c that changes its status only is that change in          *)
(* ReplayGuard.                                                             *)
LEMMA StepIsBecome ==
    ASSUME NEW c \in Call, NEW from, NEW to, UNCHANGED <<latest, block>>,
           Status(c) = from, Status(c)' = to, \A d \in Call \ {c} : Status(d)' = Status(d)
    PROVE  Guard!Become(c, from, to)
BY Zenon DEF Guard!Become

(* Every step of the Verifier is a step of ReplayGuard or leaves it alone.  *)
LEMMA StepRefines ==
    ASSUME IInv, [Next]_vars
    PROVE  [Guard!Next]_(Guard!vars)
<1>1. CASE Tick \/ SetBack
  <2>1. UNCHANGED <<pc, block, result, claimedAt>>
    BY <1>1, Zenon DEF Tick, SetBack
  <2>2. [c \in Call |-> Status(c)]' = [c \in Call |-> Status(c)]
    BY <2>1, SameStatus, Zenon
  <2>3. latest' = latest \/ (latest' \in Nat /\ latest' > latest)
    BY <1>1 DEF Tick, SetBack, IInv, TypeOK
  <2> QED
    BY <2>1, <2>2, <2>3, Zenon DEF Guard!Next, Guard!TimePasses, Guard!vars
<1>2. ASSUME NEW c \in Call, CheckTimestamp(c)
      PROVE  Guard!Refuse(c) \/ UNCHANGED Guard!vars
  <2>1. /\ UNCHANGED <<latest, block, claimedAt>>
        /\ pc[c] = "start" /\ ~Claimed(c)
        /\ \A d \in Call \ {c} : pc'[d] = pc[d] /\ result'[d] = result[d]
    BY <1>2, ZenonT(60) DEF CheckTimestamp, Return, Goto, IInv, TypeOK, ClaimOrder
  <2>2. \A d \in Call \ {c} : Status(d)' = Status(d)
    BY <2>1, SameStatus
  <2>3. Status(c) = "asking"
    BY <2>1, Zenon DEF Status
  <2>4. \/ pc'[c] = "done" /\ result'[c] \in Errors \ {"ErrReplayedNonce"}
        \/ pc'[c] = "record"
    BY <1>2, Zenon DEF CheckTimestamp, Return, Goto, IInv, TypeOK, Errors
  <2>5. ~Claimed(c)'
    BY <2>1 DEF Claimed
  <2>6. Status(c)' = "refused" \/ Status(c)' = "asking"
    BY <2>4, <2>5, Zenon DEF Status
  <2>7. CASE Status(c)' = "refused"
    BY <2>1, <2>2, <2>3, <2>7, StepIsBecome, ZenonT(60) DEF Guard!Refuse
  <2>8. CASE Status(c)' = "asking"
    <3>1. [d \in Call |-> Status(d)]' = [d \in Call |-> Status(d)]
      BY <2>2, <2>3, <2>8
    <3> QED
      BY <2>1, <3>1 DEF Guard!vars
  <2> QED
    BY <2>6, <2>7, <2>8, Zenon
<1>3. ASSUME NEW c \in Call, RecordNonce(c)
      PROVE  Guard!GivePair(c) \/ Guard!SayReplay(c)
  <2>1. /\ UNCHANGED <<latest, block>>
        /\ pc[c] = "record" /\ ~Claimed(c)
        /\ \A d \in Call \ {c} : pc'[d] = pc[d] /\ result'[d] = result[d] /\ claimedAt'[d] = claimedAt[d]
    BY <1>3, ZenonT(60) DEF RecordNonce, Return, Goto, IInv, TypeOK, ClaimOrder
  <2>2. \A d \in Call \ {c} : Status(d)' = Status(d)
    BY <2>1, SameStatus
  <2>3. Status(c) = "asking"
    BY <2>1 DEF Status
  <2>4. \A d \in Call : Guard!Has(d) <=> Claimed(d)
    BY ZenonT(60) DEF Guard!Has, Status
  <2>5. CASE Seen(block[c])
    <3>1. pc'[c] = "done" /\ result'[c] = "ErrReplayedNonce" /\ ~Claimed(c)'
      BY <1>3, <2>1, <2>5 DEF RecordNonce, Return, IInv, TypeOK, Claimed
    <3>2. Status(c)' = "replay"
      BY <3>1, Zenon DEF Status
    <3>3. PICK e \in cache : e.did = block[c].did /\ e.nonce = block[c].nonce
      BY <2>5 DEF Seen
    <3>4. PICK d \in Call : Claimed(d) /\ Entry(block[d]) = e
      BY SMTT(30) DEF IInv, CacheIsClaimed
    <3>5. d # c /\ block[d].did = block[c].did /\ block[d].nonce = block[c].nonce
      BY <2>1, <3>3, <3>4, ZenonT(60) DEF Entry
    <3> QED
      BY <2>1, <2>2, <2>3, <2>4, <3>2, <3>4, <3>5, StepIsBecome, ZenonT(60) DEF Guard!SayReplay
  <2>6. CASE ~Seen(block[c])
    <3>1. pc'[c] = "resolve" /\ Claimed(c)'
      BY <1>3, <2>6 DEF RecordNonce, Goto, IInv, TypeOK, Claimed, NotClaimed
    <3>2. Status(c)' = "has pair"
      BY <3>1 DEF Status
    <3>3. ASSUME NEW d \in Call, Claimed(d),
                 <<block[d].did, block[d].nonce>> = <<block[c].did, block[c].nonce>>
          PROVE  Expired(d, latest)
      <4>1. Entry(block[d]) \notin cache
        BY <2>6, <3>3 DEF Seen, Entry
      <4> QED
        BY <3>3, <4>1, Zenon DEF IInv, LiveClaimsCached
    <3> QED
      BY <2>1, <2>2, <2>3, <2>4, <3>2, <3>3, StepIsBecome DEF Guard!GivePair, Expired
  <2> QED
    BY <2>5, <2>6, Zenon
<1>4. ASSUME NEW c \in Call, ResolveKey(c) \/ CheckSignature(c)
      PROVE  Guard!Accept(c) \/ Guard!Reject(c) \/ UNCHANGED Guard!vars
  <2>1. /\ UNCHANGED <<latest, block, claimedAt>>
        /\ pc[c] \in {"resolve", "check"} /\ Claimed(c)
        /\ pc'[c] \in {"check", "done"}
        /\ \A d \in Call \ {c} : pc'[d] = pc[d] /\ result'[d] = result[d]
    BY <1>4, Zenon DEF ResolveKey, CheckSignature, Return, Goto, IInv, TypeOK, ClaimOrder
  <2>2. \A d \in Call \ {c} : Status(d)' = Status(d)
    BY <2>1, SameStatus
  <2>3. Status(c) = "has pair" /\ Claimed(c)'
    BY <2>1 DEF Status, Claimed
  <2>4. Status(c)' \in {"has pair", "accepted", "rejected"}
    BY <2>1, <2>3 DEF Status
  <2>5. CASE Status(c)' = "has pair"
    <3>1. [d \in Call |-> Status(d)]' = [d \in Call |-> Status(d)]
      BY <2>2, <2>3, <2>5, ZenonT(60)
    <3> QED
      BY <2>1, <3>1 DEF Guard!vars
  <2>6. CASE Status(c)' = "accepted"
    BY <2>1, <2>2, <2>3, <2>6, StepIsBecome DEF Guard!Accept
  <2>7. CASE Status(c)' = "rejected"
    BY <2>1, <2>2, <2>3, <2>7, StepIsBecome DEF Guard!Reject
  <2> QED
    BY <2>4, <2>5, <2>6, <2>7, ZenonT(60)
<1>5. CASE UNCHANGED vars
  <2>1. [c \in Call |-> Status(c)]' = [c \in Call |-> Status(c)]
    BY <1>5, SameStatus DEF vars
  <2> QED
    BY <1>5, <2>1, ZenonT(60) DEF vars, Guard!vars
<1> QED
  BY <1>1, <1>2, <1>3, <1>4, <1>5, Zenon DEF Next, Guard!Next

(* Verify implements ReplayGuard: for any number of concurrent calls and a  *)
(* clock that may be set back, a pair goes to one call at a time and        *)
(* ErrReplayedNonce is only returned for a pair another call has recorded   *)
(* (identity.go:219-246).                                                   *)
THEOREM Refinement == Spec => ImplementsReplayGuard
<1>1. Init => Guard!Init
  BY DEF Init, Guard!Init, Status, Claimed
<1>2. IInv /\ [Next]_vars => [Guard!Next]_(Guard!vars)
  BY StepRefines, ZenonT(60)
<1> QED
  BY <1>1, <1>2, Invariance, PTL DEF Spec, ImplementsReplayGuard, Guard!Spec

-----------------------------------------------------------------------------
(* Two connections that share a Verifier.                                   *)

(* What a call of Verify has found out about its block.                     *)

(* A call that has resolved a key has one of the block's DID.               *)
KeyIsOfDID == \A c \in Call : pc[c] = "check" => key[c] \in KeyOf[block[c].did]

(* A call returns when it is done, and accepts only a pair that it has      *)
(* taken and a signature of a key of the DID.                               *)
AcceptedIsSigned ==
    /\ \A c \in Call : pc[c] = "done" <=> result[c] # "none"
    /\ \A c \in Call : result[c] = "ok" => Claimed(c) /\ block[c].signer \in KeyOf[block[c].did]

(* A call is refused as a replay only if another one has its pair.          *)
ReplayHasTwin ==
    \A c \in Call : result[c] = "ErrReplayedNonce" => \E d \in Call \ {c} : SamePair(c, d)

SInv == IInv /\ KeyIsOfDID /\ AcceptedIsSigned /\ ReplayHasTwin

(* Before the first call the extended invariant holds.                      *)
LEMMA InitSInv == Init => SInv
<1> SUFFICES ASSUME Init PROVE SInv
  OBVIOUS
<1>1. IInv
  BY InitIInv
<1>2. \A c \in Call : pc[c] = "start" /\ result[c] = "none"
  BY DEF Init
<1> QED
  BY <1>1, <1>2 DEF SInv, KeyIsOfDID, AcceptedIsSigned, ReplayHasTwin

(* A call's return, and its going on, change no other call.                 *)
LEMMA ReturnEffect ==
    ASSUME TypeOK, NEW c \in Call, NEW r, Return(c, r)
    PROVE  /\ pc'[c] = "done" /\ result'[c] = r
           /\ \A d \in Call \ {c} : pc'[d] = pc[d] /\ result'[d] = result[d]
BY Zenon DEF TypeOK, Return

(* Goto changes where one call is.                                          *)
LEMMA GotoEffect ==
    ASSUME TypeOK, NEW c \in Call, NEW step, Goto(c, step)
    PROVE  /\ pc'[c] = step /\ result' = result
           /\ \A d \in Call \ {c} : pc'[d] = pc[d]
BY DEF TypeOK, Goto

(* Every step keeps the extended invariant.                                 *)
LEMMA NextSInv == SInv /\ [Next]_vars => SInv'
<1> SUFFICES ASSUME SInv, [Next]_vars PROVE SInv'
  OBVIOUS
<1>0. TypeOK /\ ClaimOrder /\ CacheIsClaimed
  BY DEF SInv, IInv
<1>1. IInv'
  BY NextIInv, SMTT(30) DEF SInv
<1>2. block' = block
  BY Zenon DEF Next, vars, Tick, SetBack, CheckTimestamp, RecordNonce, ResolveKey, CheckSignature
<1> USE DEF KeyIsOfDID, AcceptedIsSigned, ReplayHasTwin, SamePair, Claimed
<1>3. CASE Tick \/ SetBack \/ UNCHANGED vars
  <2>1. UNCHANGED <<pc, key, result, claimedAt>>
    BY <1>3, ZenonT(60) DEF Tick, SetBack, vars
  <2> QED
    BY <1>1, <1>2, <2>1, Zenon DEF SInv
<1>4. ASSUME NEW c \in Call, CheckTimestamp(c) PROVE SInv'
  <2>1. UNCHANGED <<key, claimedAt>> /\ pc[c] = "start"
    BY <1>4, ZenonT(60) DEF CheckTimestamp
  <2>2. \/ Return(c, "ErrBadSignature") \/ Return(c, "ErrStaleTimestamp")
        \/ Return(c, "ErrUnresolvableDID") \/ Goto(c, "record")
    BY <1>4, Zenon DEF CheckTimestamp
  <2>3. /\ \A d \in Call \ {c} : pc'[d] = pc[d] /\ result'[d] = result[d]
        /\ \/ pc'[c] = "done" /\ result'[c] \notin {"none", "ok", "ErrReplayedNonce"}
           \/ pc'[c] = "record" /\ result'[c] = result[c]
    BY <1>0, <2>2, ReturnEffect, GotoEffect, SMTT(30)
  <2> QED
    BY <1>1, <1>2, <2>1, <2>3, SMTT(30) DEF SInv
<1>5. ASSUME NEW c \in Call, RecordNonce(c) PROVE SInv'
  <2>1. key' = key /\ pc[c] = "record"
    BY <1>5, SMTT(30) DEF RecordNonce
  <2>2. CASE Seen(block[c]) /\ Return(c, "ErrReplayedNonce") /\ claimedAt' = claimedAt
    <3>1. PICK e \in cache : e.did = block[c].did /\ e.nonce = block[c].nonce
      BY <2>2, Zenon DEF Seen
    <3>2. PICK d \in Call : claimedAt[d] # NotClaimed /\ Entry(block[d]) = e
      BY <1>0, Zenon DEF CacheIsClaimed
    <3>3. block[d].did = block[c].did /\ block[d].nonce = block[c].nonce
      BY <3>1, <3>2, Zenon DEF Entry
    <3>4. d # c
      BY <1>0, <2>1, <3>2, Zenon DEF ClaimOrder
    <3>5. /\ pc'[c] = "done" /\ result'[c] = "ErrReplayedNonce"
          /\ \A a \in Call \ {c} : pc'[a] = pc[a] /\ result'[a] = result[a]
      BY <1>0, <2>2, ReturnEffect
    <3>6. KeyIsOfDID'
      BY <1>2, <2>1, <3>5, Zenon DEF SInv
    <3>7. AcceptedIsSigned'
      BY <1>2, <2>2, <3>5, Zenon DEF SInv
    <3>8. ReplayHasTwin'
      <4>1. \A a \in Call : a # c /\ result'[a] = "ErrReplayedNonce"
                              => \E b \in Call \ {a} : SamePair(a, b)
        <5>1. \A a \in Call : result[a] = "ErrReplayedNonce"
                                => \E b \in Call \ {a} : SamePair(a, b)
          BY Zenon DEF SInv
        <5>2. \A a \in Call : a # c => result'[a] = result[a]
          BY <3>5, Zenon
        <5> QED
          BY <5>1, <5>2, Zenon
      <4>2. SamePair(c, d) /\ d \in Call \ {c}
        BY <3>3, <3>4, Zenon
      <4>3. \A a \in Call : result'[a] = "ErrReplayedNonce"
                              => \E b \in Call \ {a} : SamePair(a, b)
        BY <4>1, <4>2, Zenon
      <4> QED
        BY <1>2, <4>3, Zenon
    <3> QED
      BY <1>1, <3>6, <3>7, <3>8, Zenon DEF SInv
  <2>3. CASE claimedAt' = [claimedAt EXCEPT ![c] = latest] /\ Goto(c, "resolve")
    <3>1. \A a \in Call : claimedAt[a] # NotClaimed => claimedAt'[a] # NotClaimed
      BY <1>0, <2>3 DEF TypeOK, NotClaimed
    <3>2. /\ pc'[c] = "resolve" /\ result' = result
          /\ \A a \in Call \ {c} : pc'[a] = pc[a]
      BY <1>0, <2>3, GotoEffect, Zenon
    <3> QED
      BY <1>1, <1>2, <2>1, <3>1, <3>2, ZenonT(60) DEF SInv
  <2> QED
    BY <1>5, <2>2, <2>3, Zenon DEF RecordNonce
<1>6. ASSUME NEW c \in Call, ResolveKey(c) PROVE SInv'
  <2>1. claimedAt' = claimedAt /\ pc[c] = "resolve"
    BY <1>6, SMTT(30) DEF ResolveKey
  <2>2. CASE Return(c, "ErrUnresolvableDID") /\ key' = key
    <3>1. /\ pc'[c] = "done" /\ result'[c] = "ErrUnresolvableDID"
          /\ \A a \in Call \ {c} : pc'[a] = pc[a] /\ result'[a] = result[a]
      BY <1>0, <2>2, ReturnEffect
    <3> QED
      BY <1>1, <1>2, <2>1, <2>2, <3>1, ZenonT(60) DEF SInv
  <2>3. CASE /\ \E k \in KeyOf[block[c].did] : key' = [key EXCEPT ![c] = k]
             /\ Goto(c, "check")
    <3>1. key'[c] \in KeyOf[block[c].did] /\ \A a \in Call \ {c} : key'[a] = key[a]
      BY <1>0, <2>3, Zenon DEF TypeOK
    <3>2. /\ pc'[c] = "check" /\ result' = result
          /\ \A a \in Call \ {c} : pc'[a] = pc[a]
      BY <1>0, <2>3, GotoEffect, Zenon
    <3> QED
      BY <1>1, <1>2, <2>1, <3>1, <3>2, Zenon DEF SInv
  <2> QED
    BY <1>6, <2>2, <2>3, Zenon DEF ResolveKey
<1>7. ASSUME NEW c \in Call, CheckSignature(c) PROVE SInv'
  <2>1. UNCHANGED <<key, claimedAt>> /\ pc[c] = "check" /\ claimedAt[c] # NotClaimed
    BY <1>0, <1>7, Zenon DEF CheckSignature, ClaimOrder
  <2>2. /\ pc'[c] = "done"
        /\ result'[c] = IF block[c].signer = key[c] THEN "ok" ELSE "ErrBadSignature"
        /\ \A a \in Call \ {c} : pc'[a] = pc[a] /\ result'[a] = result[a]
    BY <1>0, <1>7, ReturnEffect DEF CheckSignature
  <2> QED
    BY <1>1, <1>2, <2>1, <2>2, SMTT(30) DEF SInv
<1> QED
  BY <1>3, <1>4, <1>5, <1>6, <1>7, Zenon DEF Next

-----------------------------------------------------------------------------
(* The node's end of one connection: peer is the client's configuration,    *)
(* did the DID of the client's block, vpc and res the state of the call of  *)
(* Verify, and step, e and id the end's pc, error and peerNodeID.           *)

EndInv(peer, did, vpc, res, step, e, id) ==
    /\ peer.vmDID = did
    /\ step # "failed" => e = ""
    /\ step \in {"open", "send", "recv"} => vpc = "start"
    /\ step = "verify" => vpc # "done"
    /\ step \in {"verify", "negotiate", "complete"} /\ peer.minor >= 2 => peer.nodeID = did
    /\ step \in {"negotiate", "complete"} /\ peer.minor >= 2 => res = "ok"
    /\ step = "complete" => id = peer.nodeID
    /\ e = "ErrReplayedNonce" => res = "ErrReplayedNonce"

(* What the steps of an end other than Verify's do.                         *)
EndMoves(peer, step, e, id, step2, e2, id2) ==
    \/ step2 = step /\ e2 = e /\ id2 = id
    \/ step2 = "failed" /\ e2 # "ErrReplayedNonce" /\ id2 = id
    \/ /\ e2 = e /\ id2 = id
       /\ \/ step = "open" /\ step2 = "send"
          \/ step = "send" /\ step2 = "recv"
          \/ step = "recv" /\ step2 = "negotiate" /\ peer.minor < 2
          \/ step = "recv" /\ step2 = "verify" /\ peer.vmDID = peer.nodeID
    \/ step = "negotiate" /\ step2 = "complete" /\ e2 = e /\ id2 = peer.nodeID

(* What a step of Verify and its return do.                                 *)
VerifyMoves(vpc2, res2, step, e, id, step2, e2, id2) ==
    /\ step = "verify" /\ id2 = id
    /\ \/ vpc2 # "done" /\ step2 = step /\ e2 = e
       \/ vpc2 = "done" /\ res2 = "ok" /\ step2 = "negotiate" /\ e2 = e
       \/ vpc2 = "done" /\ step2 = "failed" /\ e2 = res2

(* A step of the node's end that is not Verify keeps EndInv.                *)
LEMMA EndMovesInv ==
    ASSUME NEW peer, peer.minor \in Nat, NEW did, NEW vpc, NEW res,
           NEW step, NEW e, NEW id, NEW step2, NEW e2, NEW id2,
           EndInv(peer, did, vpc, res, step, e, id),
           EndMoves(peer, step, e, id, step2, e2, id2)
    PROVE  EndInv(peer, did, vpc, res, step2, e2, id2)
<1>1. CASE step2 = step /\ e2 = e /\ id2 = id
  BY <1>1, Zenon
<1>2. CASE step2 = "failed" /\ e2 # "ErrReplayedNonce" /\ id2 = id
  BY <1>2 DEF EndInv
<1>3. CASE step = "open" /\ step2 = "send" /\ e2 = e
  BY <1>3 DEF EndInv
<1>4. CASE step = "send" /\ step2 = "recv" /\ e2 = e
  BY <1>4 DEF EndInv
<1>5. CASE step = "recv" /\ step2 = "negotiate" /\ peer.minor < 2 /\ e2 = e
  <2>1. ~(peer.minor >= 2)
    BY <1>5
  <2> QED
    BY <1>5, <2>1, Zenon DEF EndInv
<1>6. CASE step = "recv" /\ step2 = "verify" /\ peer.vmDID = peer.nodeID /\ e2 = e
  BY <1>6 DEF EndInv
<1>7. CASE step = "negotiate" /\ step2 = "complete" /\ e2 = e /\ id2 = peer.nodeID
  BY <1>7 DEF EndInv
<1> QED
  BY <1>1, <1>2, <1>3, <1>4, <1>5, <1>6, <1>7, Zenon DEF EndMoves

-----------------------------------------------------------------------------
(* Connection x.                                                            *)

(* The errors of the checks before and after Verify are none of Verify's    *)
(* replay error.                                                            *)
LEMMA XErrors ==
    \A local, peer :
        /\ X!FrameError(local, peer) # "ErrReplayedNonce"
        /\ X!BlockError(peer) # "ErrReplayedNonce"
        /\ X!BlockError(peer) = "" => peer.vmDID = peer.nodeID
        /\ X!NegotiationError(local, peer) # "ErrReplayedNonce"
BY DEF X!FrameError, X!BlockError, X!NegotiationError

XShape ==
    /\ configX["client"] \in ClientConfigs \cup {NodeConfig}
    /\ DOMAIN pcX = X!Party /\ DOMAIN errX = X!Party /\ DOMAIN stateX = X!Party

XEndInv ==
    EndInv(configX["client"], block["x"].did, pc["x"], result["x"],
           pcX["server"], errX["server"], stateX["server"].peerNodeID)

(* A step of the first connection outside the Verifier is such a step.      *)
LEMMA XRun ==
    ASSUME XShape, NEW p \in X!Party, X!Run(p), pcX[p] = "verify" => p = "client"
    PROVE  /\ XShape' /\ configX' = configX
           /\ EndMoves(configX["client"], pcX["server"], errX["server"], stateX["server"].peerNodeID,
                       pcX'["server"], errX'["server"], stateX'["server"].peerNodeID)
<1>1. XShape' /\ configX' = configX
  BY Zenon DEF XShape, X!Run, X!ControlStream, X!SendHello, X!RecvHello, X!Verify, X!Negotiate,
         X!Goto, X!Fail
<1> DEFINE Moves == EndMoves(configX["client"], pcX["server"], errX["server"],
                             stateX["server"].peerNodeID, pcX'["server"], errX'["server"],
                             stateX'["server"].peerNodeID)
<1> SUFFICES Moves
  BY <1>1, SMTT(30)
<1>2. CASE p = "client"
  <2>1. /\ pcX'["server"] = pcX["server"] /\ errX'["server"] = errX["server"]
        /\ stateX'["server"] = stateX["server"]
    BY <1>2, Zenon DEF XShape, X!Party, X!Run, X!ControlStream, X!SendHello, X!RecvHello, X!Verify,
                X!Negotiate, X!Goto, X!Fail
  <2> QED
    BY <2>1, ZenonT(60) DEF EndMoves
<1>3. CASE p = "server"
  <2>0. X!Other(p) = "client" /\ "server" \in X!Party
    BY <1>3, Zenon DEF X!Other, X!Party
  <2>1. ASSUME NEW e, X!Fail(p, e)
        PROVE  /\ pcX'["server"] = "failed" /\ errX'["server"] = e
               /\ stateX' = stateX
    BY <1>3, <2>0, <2>1, Zenon DEF XShape, X!Fail, X!Goto
  <2>2. ASSUME NEW step, X!Goto(p, step)
        PROVE  pcX'["server"] = step
    BY <1>3, <2>0, <2>2, SMTT(30) DEF XShape, X!Goto
  <2>3. CASE X!ControlStream(p)
    <3>1. pcX["server"] = "open"
      BY <1>3, <2>3, Zenon DEF X!ControlStream
    <3>2. CASE X!Fail(p, "transport")
      <4>1. "transport" # "ErrReplayedNonce"
        OBVIOUS
      <4> QED
        BY <2>1, <3>2, <4>1, Zenon DEF EndMoves
    <3>3. CASE X!Goto(p, "send") /\ UNCHANGED <<errX, stateX>>
      BY <2>2, <3>1, <3>3, Zenon DEF EndMoves
    <3> QED
      BY <2>3, <3>2, <3>3, Zenon DEF X!ControlStream
  <2>4. CASE X!SendHello(p)
    <3>1. pcX["server"] = "send"
      BY <1>3, <2>4, Zenon DEF X!SendHello
    <3>2. CASE X!Fail(p, "transport")
      <4>1. "transport" # "ErrReplayedNonce"
        OBVIOUS
      <4> QED
        BY <2>1, <3>2, <4>1, Zenon DEF EndMoves
    <3>3. CASE X!Goto(p, "recv") /\ UNCHANGED <<errX, stateX>>
      BY <2>2, <3>1, <3>3, Zenon DEF EndMoves
    <3> QED
      BY <2>4, <3>2, <3>3, Zenon DEF X!SendHello
  <2>5. CASE X!RecvHello(p)
    <3>1. pcX["server"] = "recv"
      BY <1>3, <2>5, ZenonT(60) DEF X!RecvHello
    <3>2. CASE \E e : e # "ErrReplayedNonce" /\ X!Fail(p, e)
      BY <2>1, <3>2, Zenon DEF EndMoves
    <3>3. CASE configX["client"].minor < 2 /\ X!Goto(p, "negotiate") /\ UNCHANGED <<errX, stateX>>
      BY <2>2, <3>1, <3>3, ZenonT(60) DEF EndMoves
    <3>4. CASE /\ configX["client"].vmDID = configX["client"].nodeID
               /\ X!Goto(p, "verify") /\ UNCHANGED <<errX, stateX>>
      BY <2>2, <3>1, <3>4 DEF EndMoves
    <3> QED
      BY <2>0, <2>5, <3>2, <3>3, <3>4, XErrors, Zenon DEF X!RecvHello
  <2>6. CASE X!Negotiate(p)
    <3>1. pcX["server"] = "negotiate"
      BY <1>3, <2>6 DEF X!Negotiate
    <3>2. CASE \E e : e # "ErrReplayedNonce" /\ X!Fail(p, e)
      BY <2>1, <3>2, SMTT(30) DEF EndMoves
    <3>3. CASE /\ X!Goto(p, "complete") /\ errX' = errX
               /\ \E minor, active :
                     stateX' = [stateX EXCEPT ![p] = [peerNodeID |-> configX["client"].nodeID,
                                                      minor |-> minor, active |-> active]]
      <4>1. stateX'["server"].peerNodeID = configX["client"].nodeID
        BY <1>3, <2>0, <3>3, SMTT(30) DEF XShape
      <4> QED
        BY <2>2, <3>1, <3>3, <4>1, Zenon DEF EndMoves
    <3> QED
      BY <2>0, <2>6, <3>2, <3>3, XErrors, Zenon DEF X!Negotiate
  <2> QED
    BY <1>3, <2>3, <2>4, <2>5, <2>6, Zenon DEF X!Run, X!Verify
<1> QED
  BY <1>2, <1>3, SMTT(30) DEF X!Party

(* How the handshake takes the steps of its call of Verify.                 *)
LEMMA XVerify ==
    ASSUME XShape, errX["server"] = "", VerifyX, TypeOK', AcceptedIsSigned'
    PROVE  /\ XShape' /\ configX' = configX
           /\ VerifyMoves(pc'["x"], result'["x"],
                          pcX["server"], errX["server"], stateX["server"].peerNodeID,
                          pcX'["server"], errX'["server"], stateX'["server"].peerNodeID)
<1>0. pcX["server"] = "verify" /\ "server" \in X!Party
  BY DEF VerifyX, X!Party
<1>1. CASE pc'["x"] # "done" /\ UNCHANGED xVars
  BY <1>0, <1>1 DEF VerifyMoves, xVars, XShape
<1>2. CASE /\ pc'["x"] = "done" /\ X!Verify("server")
           /\ errX'["server"] = IF result'["x"] = "ok" THEN "" ELSE result'["x"]
  <2>1. result'["x"] \in Errors \cup {"ok"}
    BY <1>2, SharedAssumption DEF TypeOK, AcceptedIsSigned
  <2>2. CASE X!Goto("server", "negotiate") /\ UNCHANGED <<configX, errX, stateX>>
    <3>1. pcX'["server"] = "negotiate" /\ DOMAIN pcX' = DOMAIN pcX
      BY <1>0, <2>2 DEF X!Goto, XShape
    <3>2. result'["x"] = "ok"
      BY <1>2, <2>1, <2>2 DEF Errors
    <3> QED
      BY <1>0, <1>2, <2>2, <3>1, <3>2 DEF VerifyMoves, XShape
  <2>3. CASE \E e \in X!VerifyErrors : X!Fail("server", e)
    <3>1. PICK e \in X!VerifyErrors : X!Fail("server", e)
      BY <2>3
    <3>2. /\ pcX'["server"] = "failed" /\ errX'["server"] = e
          /\ DOMAIN pcX' = DOMAIN pcX /\ DOMAIN errX' = DOMAIN errX
          /\ UNCHANGED <<configX, stateX>>
      BY <1>0, <3>1 DEF X!Fail, X!Goto, XShape
    <3>3. e = result'["x"]
      BY <1>2, <3>1, <3>2, ZenonT(60) DEF X!VerifyErrors
    <3> QED
      BY <1>0, <1>2, <3>2, <3>3 DEF VerifyMoves, XShape
  <2> QED
    BY <1>2, <2>2, <2>3 DEF X!Verify
<1> QED
  BY <1>1, <1>2 DEF VerifyX

(* Losing the first connection changes neither end.                         *)
LEMMA XLost ==
    ASSUME XShape, X!ConnectionLost
    PROVE  UNCHANGED <<configX, pcX, errX, stateX>> /\ XShape'
BY ZenonT(60) DEF X!ConnectionLost, XShape

-----------------------------------------------------------------------------
(* Connection y, in the same way.                                           *)

(* The errors of the checks before and after Verify are none of Verify's    *)
(* replay error.                                                            *)
LEMMA YErrors ==
    \A local, peer :
        /\ Y!FrameError(local, peer) # "ErrReplayedNonce"
        /\ Y!BlockError(peer) # "ErrReplayedNonce"
        /\ Y!BlockError(peer) = "" => peer.vmDID = peer.nodeID
        /\ Y!NegotiationError(local, peer) # "ErrReplayedNonce"
BY DEF Y!FrameError, Y!BlockError, Y!NegotiationError

YShape ==
    /\ configY["client"] \in ClientConfigs \cup {NodeConfig}
    /\ DOMAIN pcY = Y!Party /\ DOMAIN errY = Y!Party /\ DOMAIN stateY = Y!Party

YEndInv ==
    EndInv(configY["client"], block["y"].did, pc["y"], result["y"],
           pcY["server"], errY["server"], stateY["server"].peerNodeID)

(* A step of the second connection outside the Verifier is such a step.     *)
LEMMA YRun ==
    ASSUME YShape, NEW p \in Y!Party, Y!Run(p), pcY[p] = "verify" => p = "client"
    PROVE  /\ YShape' /\ configY' = configY
           /\ EndMoves(configY["client"], pcY["server"], errY["server"], stateY["server"].peerNodeID,
                       pcY'["server"], errY'["server"], stateY'["server"].peerNodeID)
<1>1. YShape' /\ configY' = configY
  BY Zenon DEF YShape, Y!Run, Y!ControlStream, Y!SendHello, Y!RecvHello, Y!Verify, Y!Negotiate,
         Y!Goto, Y!Fail
<1> DEFINE Moves == EndMoves(configY["client"], pcY["server"], errY["server"],
                             stateY["server"].peerNodeID, pcY'["server"], errY'["server"],
                             stateY'["server"].peerNodeID)
<1> SUFFICES Moves
  BY <1>1, SMTT(30)
<1>2. CASE p = "client"
  <2>1. /\ pcY'["server"] = pcY["server"] /\ errY'["server"] = errY["server"]
        /\ stateY'["server"] = stateY["server"]
    BY <1>2, Zenon DEF YShape, Y!Party, Y!Run, Y!ControlStream, Y!SendHello, Y!RecvHello, Y!Verify,
                Y!Negotiate, Y!Goto, Y!Fail
  <2> QED
    BY <2>1, ZenonT(60) DEF EndMoves
<1>3. CASE p = "server"
  <2>0. Y!Other(p) = "client" /\ "server" \in Y!Party
    BY <1>3, Zenon DEF Y!Other, Y!Party
  <2>1. ASSUME NEW e, Y!Fail(p, e)
        PROVE  /\ pcY'["server"] = "failed" /\ errY'["server"] = e
               /\ stateY' = stateY
    BY <1>3, <2>0, <2>1, Zenon DEF YShape, Y!Fail, Y!Goto
  <2>2. ASSUME NEW step, Y!Goto(p, step)
        PROVE  pcY'["server"] = step
    BY <1>3, <2>0, <2>2, Zenon DEF YShape, Y!Goto
  <2>3. CASE Y!ControlStream(p)
    <3>1. pcY["server"] = "open"
      BY <1>3, <2>3, Zenon DEF Y!ControlStream
    <3>2. CASE Y!Fail(p, "transport")
      <4>1. "transport" # "ErrReplayedNonce"
        OBVIOUS
      <4> QED
        BY <2>1, <3>2, <4>1, Zenon DEF EndMoves
    <3>3. CASE Y!Goto(p, "send") /\ UNCHANGED <<errY, stateY>>
      BY <2>2, <3>1, <3>3, Zenon DEF EndMoves
    <3> QED
      BY <2>3, <3>2, <3>3, Zenon DEF Y!ControlStream
  <2>4. CASE Y!SendHello(p)
    <3>1. pcY["server"] = "send"
      BY <1>3, <2>4, Zenon DEF Y!SendHello
    <3>2. CASE Y!Fail(p, "transport")
      <4>1. "transport" # "ErrReplayedNonce"
        OBVIOUS
      <4> QED
        BY <2>1, <3>2, <4>1, Zenon DEF EndMoves
    <3>3. CASE Y!Goto(p, "recv") /\ UNCHANGED <<errY, stateY>>
      BY <2>2, <3>1, <3>3, Zenon DEF EndMoves
    <3> QED
      BY <2>4, <3>2, <3>3, Zenon DEF Y!SendHello
  <2>5. CASE Y!RecvHello(p)
    <3>1. pcY["server"] = "recv"
      BY <1>3, <2>5, ZenonT(60) DEF Y!RecvHello
    <3>2. CASE \E e : e # "ErrReplayedNonce" /\ Y!Fail(p, e)
      BY <2>1, <3>2, ZenonT(60) DEF EndMoves
    <3>3. CASE configY["client"].minor < 2 /\ Y!Goto(p, "negotiate") /\ UNCHANGED <<errY, stateY>>
      BY <2>2, <3>1, <3>3, Zenon DEF EndMoves
    <3>4. CASE /\ configY["client"].vmDID = configY["client"].nodeID
               /\ Y!Goto(p, "verify") /\ UNCHANGED <<errY, stateY>>
      BY <2>2, <3>1, <3>4 DEF EndMoves
    <3> QED
      BY <2>0, <2>5, <3>2, <3>3, <3>4, YErrors, ZenonT(60) DEF Y!RecvHello
  <2>6. CASE Y!Negotiate(p)
    <3>1. pcY["server"] = "negotiate"
      BY <1>3, <2>6, ZenonT(60) DEF Y!Negotiate
    <3>2. CASE \E e : e # "ErrReplayedNonce" /\ Y!Fail(p, e)
      BY <2>1, <3>2, SMTT(30) DEF EndMoves
    <3>3. CASE /\ Y!Goto(p, "complete") /\ errY' = errY
               /\ \E minor, active :
                     stateY' = [stateY EXCEPT ![p] = [peerNodeID |-> configY["client"].nodeID,
                                                      minor |-> minor, active |-> active]]
      <4>1. stateY'["server"].peerNodeID = configY["client"].nodeID
        BY <1>3, <2>0, <3>3, SMTT(30) DEF YShape
      <4> QED
        BY <2>2, <3>1, <3>3, <4>1, Zenon DEF EndMoves
    <3> QED
      BY <2>0, <2>6, <3>2, <3>3, YErrors, ZenonT(60) DEF Y!Negotiate
  <2> QED
    BY <1>3, <2>3, <2>4, <2>5, <2>6, Zenon DEF Y!Run, Y!Verify
<1> QED
  BY <1>2, <1>3, SMTT(30) DEF Y!Party

(* How the handshake takes the steps of its call of Verify.                 *)
LEMMA YVerify ==
    ASSUME YShape, errY["server"] = "", VerifyY, TypeOK', AcceptedIsSigned'
    PROVE  /\ YShape' /\ configY' = configY
           /\ VerifyMoves(pc'["y"], result'["y"],
                          pcY["server"], errY["server"], stateY["server"].peerNodeID,
                          pcY'["server"], errY'["server"], stateY'["server"].peerNodeID)
<1>0. pcY["server"] = "verify" /\ "server" \in Y!Party
  BY DEF VerifyY, Y!Party
<1>1. CASE pc'["y"] # "done" /\ UNCHANGED yVars
  BY <1>0, <1>1 DEF VerifyMoves, yVars, YShape
<1>2. CASE /\ pc'["y"] = "done" /\ Y!Verify("server")
           /\ errY'["server"] = IF result'["y"] = "ok" THEN "" ELSE result'["y"]
  <2>1. result'["y"] \in Errors \cup {"ok"}
    BY <1>2, SharedAssumption DEF TypeOK, AcceptedIsSigned
  <2>2. CASE Y!Goto("server", "negotiate") /\ UNCHANGED <<configY, errY, stateY>>
    <3>1. pcY'["server"] = "negotiate" /\ DOMAIN pcY' = DOMAIN pcY
      BY <1>0, <2>2 DEF Y!Goto, YShape
    <3>2. result'["y"] = "ok"
      BY <1>2, <2>1, <2>2 DEF Errors
    <3> QED
      BY <1>0, <1>2, <2>2, <3>1, <3>2 DEF VerifyMoves, YShape
  <2>3. CASE \E e \in Y!VerifyErrors : Y!Fail("server", e)
    <3>1. PICK e \in Y!VerifyErrors : Y!Fail("server", e)
      BY <2>3, ZenonT(60)
    <3>2. /\ pcY'["server"] = "failed" /\ errY'["server"] = e
          /\ DOMAIN pcY' = DOMAIN pcY /\ DOMAIN errY' = DOMAIN errY
          /\ UNCHANGED <<configY, stateY>>
      BY <1>0, <3>1, Zenon DEF Y!Fail, Y!Goto, YShape
    <3>3. e = result'["y"]
      BY <1>2, <3>1, <3>2 DEF Y!VerifyErrors
    <3> QED
      BY <1>0, <1>2, <3>2, <3>3 DEF VerifyMoves, YShape
  <2> QED
    BY <1>2, <2>2, <2>3, ZenonT(60) DEF Y!Verify
<1> QED
  BY <1>1, <1>2 DEF VerifyY

(* Losing the second connection changes neither end.                        *)
LEMMA YLost ==
    ASSUME YShape, Y!ConnectionLost
    PROVE  UNCHANGED <<configY, pcY, errY, stateY>> /\ YShape'
BY ZenonT(60) DEF Y!ConnectionLost, YShape

-----------------------------------------------------------------------------
(* The inductive invariant of the composition.                              *)
AInv == SInv /\ XShape /\ XEndInv /\ YShape /\ YEndInv

(* Before the first HELLO the invariant of the composition holds.           *)
LEMMA InitAInv == SharedInit => AInv
<1> SUFFICES ASSUME SharedInit PROVE AInv
  BY Zenon
<1>1. SInv /\ pc["x"] = "start" /\ pc["y"] = "start"
  BY InitSInv, SharedAssumption, ZenonT(60) DEF SharedInit, Init
<1>2. XShape /\ pcX["server"] = "open" /\ errX["server"] = ""
      /\ configX["client"].vmDID = block["x"].did
  BY DEF SharedInit, X!Init, X!Party, XShape
<1>3. YShape /\ pcY["server"] = "open" /\ errY["server"] = ""
      /\ configY["client"].vmDID = block["y"].did
  BY DEF SharedInit, Y!Init, Y!Party, YShape
<1> QED
  BY <1>1, <1>2, <1>3 DEF AInv, XEndInv, YEndInv, EndInv

(* Every step of the composition is one of Verifier's, or none of its.      *)
LEMMA SharedIsVerifier == SharedNext \/ UNCHANGED allVars => [Next]_vars
<1> SUFFICES ASSUME SharedNext \/ UNCHANGED allVars PROVE [Next]_vars
  OBVIOUS
<1>1. CASE TimePasses
  BY <1>1 DEF TimePasses, Next
<1>2. CASE VerifyX \/ VerifyY
  BY <1>2, SharedAssumption, ZenonT(60) DEF VerifyX, VerifyY, VerifyStep, Next
<1>3. CASE Losing \/ \E p \in X!Party : RunX(p) \/ RunY(p)
  BY <1>3 DEF Losing, RunX, RunY
<1>4. CASE UNCHANGED allVars
  BY <1>4, Zenon DEF allVars
<1> QED
  BY <1>1, <1>2, <1>3, <1>4, Zenon DEF SharedNext, EndX, EndY

(* Minor versions of the clients are numbers.                               *)
LEMMA MinorsAreNumbers ==
    ASSUME XShape, YShape
    PROVE  configX["client"].minor \in Nat /\ configY["client"].minor \in Nat
BY ConfigsAssumption, SMTT(30) DEF XShape, YShape, X!ConfigType

(* A step of connection x's call of Verify leaves y's alone.                *)
LEMMA OneCallSteps ==
    ASSUME TypeOK, NEW c \in Call, NEW d \in Call \ {c}, VerifyStep(c)
    PROVE  pc'[d] = pc[d] /\ result'[d] = result[d]
BY Zenon DEF TypeOK, VerifyStep, CheckTimestamp, RecordNonce, ResolveKey, CheckSignature, Return, Goto

(* Every step keeps the invariant of the composition.                       *)
LEMMA NextAInv == AInv /\ [SharedNext]_allVars => AInv'
<1> SUFFICES ASSUME AInv, [SharedNext]_allVars PROVE AInv'
  OBVIOUS
<1>0. SInv /\ XShape /\ XEndInv /\ YShape /\ YEndInv
  BY DEF AInv
<1>1. [Next]_vars
  BY SharedIsVerifier, Zenon
<1>2. SInv' /\ TypeOK /\ TypeOK' /\ AcceptedIsSigned'
  BY <1>0, <1>1, NextSInv, ZenonT(60) DEF SInv, IInv
<1>3. block' = block
  BY <1>1, ZenonT(60) DEF Next, vars, Tick, SetBack, CheckTimestamp, RecordNonce, ResolveKey, CheckSignature
<1>4. ASSUME UNCHANGED <<configX, pcX, errX, stateX>>, pc'["x"] = pc["x"], result'["x"] = result["x"]
      PROVE  XShape' /\ XEndInv'
  BY <1>0, <1>3, <1>4, ZenonT(60) DEF XShape, XEndInv
<1>5. ASSUME UNCHANGED <<configY, pcY, errY, stateY>>, pc'["y"] = pc["y"], result'["y"] = result["y"]
      PROVE  YShape' /\ YEndInv'
  BY <1>0, <1>3, <1>5, Zenon DEF YShape, YEndInv
<1>6. CASE TimePasses \/ UNCHANGED allVars
  <2>1. UNCHANGED <<pc, result, xVars, yVars>>
    BY <1>6, Zenon DEF TimePasses, Tick, allVars, vars
  <2> QED
    BY <1>2, <1>4, <1>5, <2>1, Zenon DEF AInv, xVars, yVars
<1>7. CASE Losing
  <2>1. CASE X!ConnectionLost /\ UNCHANGED <<vars, yVars>>
    BY <1>0, <1>2, <1>4, <1>5, <2>1, XLost, Zenon DEF AInv, vars, yVars
  <2>2. CASE Y!ConnectionLost /\ UNCHANGED <<vars, xVars>>
    BY <1>0, <1>2, <1>4, <1>5, <2>2, YLost, Zenon DEF AInv, vars, xVars
  <2> QED
    BY <1>7, <2>1, <2>2, Zenon DEF Losing
<1>8. ASSUME NEW p \in X!Party, RunX(p) PROVE AInv'
  <2>1. X!Run(p) /\ (pcX[p] = "verify" => p = "client") /\ UNCHANGED <<pc, result, yVars>>
    BY <1>8, Zenon DEF RunX, vars
  <2>2. /\ XShape' /\ configX' = configX
        /\ EndMoves(configX["client"], pcX["server"], errX["server"], stateX["server"].peerNodeID,
                    pcX'["server"], errX'["server"], stateX'["server"].peerNodeID)
    BY <1>0, <2>1, XRun, SMTT(30)
  <2>3. XEndInv'
    BY <1>0, <1>3, <2>1, <2>2, EndMovesInv, MinorsAreNumbers, Zenon DEF XEndInv
  <2> QED
    BY <1>2, <1>5, <2>1, <2>2, <2>3, Zenon DEF AInv, yVars
<1>9. ASSUME NEW p \in X!Party, RunY(p) PROVE AInv'
  <2>1. Y!Run(p) /\ (pcY[p] = "verify" => p = "client") /\ UNCHANGED <<pc, result, xVars>>
        /\ p \in Y!Party
    BY <1>9, Zenon DEF RunY, vars, X!Party, Y!Party
  <2>2. /\ YShape' /\ configY' = configY
        /\ EndMoves(configY["client"], pcY["server"], errY["server"], stateY["server"].peerNodeID,
                    pcY'["server"], errY'["server"], stateY'["server"].peerNodeID)
    BY <1>0, <2>1, YRun, SMTT(30)
  <2>3. YEndInv'
    BY <1>0, <1>3, <2>1, <2>2, EndMovesInv, MinorsAreNumbers, ZenonT(60) DEF YEndInv
  <2> QED
    BY <1>2, <1>4, <2>1, <2>2, <2>3, Zenon DEF AInv, xVars
<1>10. CASE VerifyX
  <2>1. pc'["y"] = pc["y"] /\ result'["y"] = result["y"] /\ UNCHANGED yVars
    BY <1>2, <1>10, OneCallSteps, SharedAssumption, ZenonT(60) DEF VerifyX
  <2>2. errX["server"] = ""
    BY <1>0, <1>10 DEF XEndInv, EndInv, VerifyX
  <2>3. /\ XShape' /\ configX' = configX
        /\ VerifyMoves(pc'["x"], result'["x"],
                       pcX["server"], errX["server"], stateX["server"].peerNodeID,
                       pcX'["server"], errX'["server"], stateX'["server"].peerNodeID)
    BY <1>0, <1>2, <1>10, <2>2, XVerify
  <2>4. XEndInv'
    <3>1. EndInv(configX["client"], block["x"].did, pc["x"], result["x"],
                 pcX["server"], errX["server"], stateX["server"].peerNodeID)
      BY <1>0, Zenon DEF XEndInv
    <3>2. VerifyMoves(pc'["x"], result'["x"],
                      pcX["server"], errX["server"], stateX["server"].peerNodeID,
                      pcX'["server"], errX'["server"], stateX'["server"].peerNodeID)
      BY <2>3, SMTT(30)
    <3>3. EndInv(configX["client"], block["x"].did, pc'["x"], result'["x"],
                 pcX'["server"], errX'["server"], stateX'["server"].peerNodeID)
      BY <3>1, <3>2, ZenonT(60) DEF EndInv, VerifyMoves
    <3> QED
      BY <1>3, <2>3, <3>3, Zenon DEF XEndInv
  <2> QED
    BY <1>2, <1>5, <2>1, <2>3, <2>4, Zenon DEF AInv, yVars
<1>11. CASE VerifyY
  <2>1. pc'["x"] = pc["x"] /\ result'["x"] = result["x"] /\ UNCHANGED xVars
    BY <1>2, <1>11, OneCallSteps, SharedAssumption, ZenonT(60) DEF VerifyY
  <2>2. errY["server"] = ""
    BY <1>0, <1>11 DEF YEndInv, EndInv, VerifyY
  <2>3. /\ YShape' /\ configY' = configY
        /\ VerifyMoves(pc'["y"], result'["y"],
                       pcY["server"], errY["server"], stateY["server"].peerNodeID,
                       pcY'["server"], errY'["server"], stateY'["server"].peerNodeID)
    BY <1>0, <1>2, <1>11, <2>2, YVerify
  <2>4. YEndInv'
    <3>1. EndInv(configY["client"], block["y"].did, pc["y"], result["y"],
                 pcY["server"], errY["server"], stateY["server"].peerNodeID)
      BY <1>0, Zenon DEF YEndInv
    <3>2. VerifyMoves(pc'["y"], result'["y"],
                      pcY["server"], errY["server"], stateY["server"].peerNodeID,
                      pcY'["server"], errY'["server"], stateY'["server"].peerNodeID)
      BY <2>3, SMTT(30)
    <3>3. EndInv(configY["client"], block["y"].did, pc'["y"], result'["y"],
                 pcY'["server"], errY'["server"], stateY'["server"].peerNodeID)
      BY <3>1, <3>2, Zenon DEF EndInv, VerifyMoves
    <3> QED
      BY <1>3, <2>3, <3>3, Zenon DEF YEndInv
  <2> QED
    BY <1>2, <1>4, <2>1, <2>3, <2>4, Zenon DEF AInv, xVars
<1> QED
  BY <1>6, <1>7, <1>8, <1>9, <1>10, <1>11, Zenon DEF SharedNext, EndX, EndY

-----------------------------------------------------------------------------
(* The results.                                                             *)

(* The invariant of the composition holds in every state.                   *)
LEMMA SharedInvariance == SharedSpec => []AInv
<1> QED
  BY InitAInv, NextAInv, PTL DEF SharedSpec

(* What the handshake of the node's end of either connection has checked    *)
(* when it is over.                                                         *)
LEMMA CompleteIsVerified ==
    ASSUME AInv, NEW c \in Call
    PROVE  /\ NodeEnd(c).pc = "complete" /\ SignedPeer(c)
                 => result[c] = "ok" /\ NodeEnd(c).state.peerNodeID = block[c].did
           /\ NodeEnd(c).err = "ErrReplayedNonce" => result[c] = "ErrReplayedNonce"
<1>1. CASE c = "x"
  <2>1. /\ NodeEnd(c).pc = pcX["server"] /\ NodeEnd(c).err = errX["server"]
        /\ NodeEnd(c).state = stateX["server"]
        /\ SignedPeer(c) <=> configX["client"].minor >= 2
    BY <1>1 DEF NodeEnd, SignedPeer
  <2> QED
    BY <1>1, <2>1, ZenonT(60) DEF AInv, XEndInv, EndInv
<1>2. CASE c = "y"
  <2>1. /\ NodeEnd(c).pc = pcY["server"] /\ NodeEnd(c).err = errY["server"]
        /\ NodeEnd(c).state = stateY["server"]
        /\ SignedPeer(c) <=> configY["client"].minor >= 2
    BY <1>2 DEF NodeEnd, SignedPeer
  <2> QED
    BY <1>2, <2>1, ZenonT(60) DEF AInv, YEndInv, EndInv
<1> QED
  BY <1>1, <1>2, SharedAssumption, Zenon

(* Of every peer of version 0.2 or later: when the handshake completes, the *)
(* HELLO was signed with a key of the DID that PeerNodeID reports           *)
(* (handshake.go:245-275), whatever the other connection does.              *)
THEOREM PeerAuthenticity == SharedSpec => []PeerIsAuthentic
<1>1. AInv => PeerIsAuthentic
  <2> SUFFICES ASSUME AInv, NEW c \in Call, NodeEnd(c).pc = "complete", SignedPeer(c)
               PROVE  block[c].signer \in KeyOf[NodeEnd(c).state.peerNodeID]
    BY Zenon DEF PeerIsAuthentic
  <2>1. result[c] = "ok" /\ NodeEnd(c).state.peerNodeID = block[c].did
    BY CompleteIsVerified, Zenon
  <2>2. Claimed(c) /\ block[c].signer \in KeyOf[block[c].did]
    BY <2>1, ZenonT(60) DEF AInv, SInv, AcceptedIsSigned
  <2> QED
    BY <2>1, <2>2, Zenon
<1> QED
  BY <1>1, SharedInvariance, PTL

(* A HELLO that arrives on two connections of a node completes only one     *)
(* handshake until its timestamp has left the window: the node's ends share *)
(* one replay cache (NodeConfig.Verifier).                                  *)
THEOREM OneHandshake == SharedSpec => []OneHandshakePerHello
<1>1. AInv => OneHandshakePerHello
  <2> SUFFICES ASSUME AInv, SamePair("x", "y"), SignedPeer("x"), SignedPeer("y"),
                      NodeEnd("x").pc = "complete", NodeEnd("y").pc = "complete"
               PROVE  Expired("x", claimedAt["y"]) \/ Expired("y", claimedAt["x"])
    BY DEF OneHandshakePerHello
  <2>1. "x" \in Call /\ "y" \in Call /\ "x" # "y"
    BY SharedAssumption, Zenon
  <2>2. result["x"] = "ok" /\ result["y"] = "ok"
    BY <2>1, CompleteIsVerified, ZenonT(60)
  <2>3. Claimed("x") /\ Claimed("y") /\ NoReplayInWindow
    BY <2>1, <2>2 DEF AInv, SInv, IInv, AcceptedIsSigned
  <2> QED
    BY <2>1, <2>3, ZenonT(60) DEF NoReplayInWindow
<1> QED
  BY <1>1, SharedInvariance, PTL

(* A peer that connects again with a new nonce (handshake.go:209) is never  *)
(* refused as a replay, whatever has become of its other handshake.         *)
THEOREM NewHello == SharedSpec => []NewHelloIsNoReplay
<1>1. AInv => NewHelloIsNoReplay
  <2> SUFFICES ASSUME AInv, NEW c \in Call, NodeEnd(c).err = "ErrReplayedNonce"
               PROVE  SamePair("x", "y")
    BY DEF NewHelloIsNoReplay
  <2>1. result[c] = "ErrReplayedNonce"
    BY CompleteIsVerified, Zenon
  <2>2. PICK d \in Call \ {c} : SamePair(c, d)
    BY <2>1 DEF AInv, SInv, ReplayHasTwin
  <2> QED
    BY <2>2, SharedAssumption, Zenon DEF SamePair
<1> QED
  BY <1>1, SharedInvariance, PTL

=============================================================================
