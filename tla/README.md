# A TLA+ verification of aire-go

aire-go is the Go implementation of AIRE, an agent protocol on QUIC. This
directory models its concurrent and distributed parts in TLA+, checks them on
small instances with TLC, and proves the most important properties for every
value of the constants with TLAPS. `PROJECT.json` lists the components, the
runs, the source lines behind every definition, the hazards and the findings.

## The system

| Part | Source | State | Operations | What is hard about it |
|---|---|---|---|---|
| Verifier | identity.go | replay cache per DID, under `v.mu`; a clock | `Verify`, `ResolveKey` | concurrent calls; the clock is read outside the lock and may be set back; saturating durations; pruning |
| Node | node.go | `started`, `stopped`, `agents` under `n.mu`; `listener` under nothing; a context; a WaitGroup | `RegisterAgent`, `Listen`, `Stop`, accept loop, `handleConn`, `handleOperation` | Listen against Stop; Add against Wait; peers that stop half-way |
| Handshake | handshake.go, conn.go | control stream, `HandshakeState` | `Conn.Handshake` on both ends | two ends decide separately; failures close the connection under the other |
| Capabilities | capability.go | none | `NegotiateCapabilities` | both ends must come to the same set |
| Frames | frame.go, conn.go | the position in a stream | `Encode`, `Decode`, `SendFrame`, `RecvFrame` | two parsers; varint boundaries; streams that end anywhere |
| Payloads | handshake.go, identity.go, node.go, cancel.go, budget.go | none | encoders and decoders of HELLO, INVOKE, CANCEL, BUDGET and did:key | boundaries, truncation, what a signature covers, second texts of a key |
| Operations | operation.go, node.go | one stream, its OpID | `NewOperation`, `Invoke`, `AcceptOperation`, `Send`, `Recv`, `Close` | stream IDs used as OpIDs on both ends; answers cut off |
| Resolver | addressing.go | none; the DNS and the web change meanwhile | `Resolve` | three lookups one after the other, fallbacks, two-way verification |
| Coordinator | cmd/aire-peers | a channel and a WaitGroup | the fan-out to worker agents | close against send; what remains when a step fails; a worker that never answers |

A Node accepts connections, runs the handshake on each (which calls the
Verifier its NodeConfig supplies, shared by all connections), then accepts
operations on it and hands each to the agent that its INVOKE frame names. A
handshake without a supplied Verifier makes a new one, so nothing is remembered
from one connection to the next. A peer whose minor version is below 2 is not
asked for a signature; the model keeps that path.

## Modules

- **Verifier** (with `MCVerifier`, `SharedVerifierProofs`). Each call of `Verify` is a
  process of four steps: `CheckTimestamp` (no lock), `RecordNonce` (the critical
  section: look-up, pruning and recording in one step), `ResolveKey`,
  `CheckSignature`. `Tick` advances the clock between any two, `SetBack` sets it
  back (a timestamp from a peer has no monotonic reading, so the code compares
  wall-clock times). Time is in ticks,
  `TicksPerMs` of them in a millisecond, so that rounding to milliseconds is
  visible; durations saturate at `MaxDuration` as `time.Duration` does.
  `latest`, the latest time the clock has shown, and `claimedAt` are history
  variables.
- **ReplayGuard**: what the callers of `Verify` rely on, without cache, lock and
  clock reading: a (DID, nonce) pair is given to one call at a time, and a call
  is told "replay" only if another call had its pair. Verifier implements it
  under the mapping `Guard`.
- **Node** (`MCNode`, `NodeProofs`). Each call of `Listen` and `Stop`, the accept
  loop, each `handleConn` and each `handleOperation` is a process; a step is
  what runs between two points where another goroutine can be noticed. Peers and
  quic-go are the environment: dialling, sending HELLO and first frames whole or
  in part, going away. `raced` is a history variable: did a Stop begin while a
  Listen was under way?
- **Capability**: the negotiation as operators on capability lists.
- **Handshake** (`MCHandshake`, `HandshakeProofs`): both ends of one connection,
  with their configurations. An end may be of another version, or another
  implementation that sends something else first. `Verify` appears by its
  result.
- **SharedVerifier** (`MCSharedVerifier`, `SharedVerifierProofs`): two connections
  of a node whose NodeConfig supplies a Verifier. It composes two instances of Handshake with
  Verifier: where Handshake has one step `Verify`, the node's end takes the
  steps of Verifier, and its result is the handshake's. A client's block may be
  the same on both connections, fresh, or of another key.
- **Frame**: varints and frames. A byte is a number below `4 * Q`, two bits of
  length class and a digit below `Q` (64 in the code); the format does not
  depend on `Q`, and with `Q = 2` all four varint lengths are small enough to
  enumerate.
- **FrameStream** (`MCFrameStream`, `FrameStreamProofs`): a peer sends frames and
  ends the stream at any byte; the bytes arrive in pieces; `readFrame` reads them field by field.
- **Payload**: the payload codecs. Each is a row of fields, so an encoder or a
  decoder is the list of the kinds of its fields.
- **PayloadExchange** (`MCPayloadExchange`, `PayloadProofs`): a payload is sent
  and arrives as it is, cut, longer by a byte, with a byte inserted, or different
  in one byte. The text of a did:key is sent and parsed like a payload.
  `CanBeSent` says which values the encoders are given. Outside of it are
  strings and integers beyond `MaxVarint`, on which `AppendVarint` panics, the
  empty Budget, and currencies whose length is not that of a currency code, which
  `Budget.Encode` writes and `DecodeBudget` refuses.
- **FieldProofs**: no model, the lemmas about varints, fields and numbers that
  FrameStreamProofs and PayloadProofs share.
- **Resolver** (`MCResolver`, `ResolverProofs`): one call of `Resolve`, a step per
  lookup, each of which may fail, while `Publish` changes the TXT record, the
  well-known URL or a document in between. Two calls share nothing, so one is
  enough. Text is what it parses to; of an Address, `Accept` is left out.
  `orderly` says whether owners keep both directions consistent at every moment;
  `published`, `named`, `bound` and `withdrawn` are history variables.
- **Operation** (`PeersProofs`): one connection with this code on both ends.
  A task is an `Invoke`, the `op.Close` that every caller in the repository goes
  on with (one step with the Send, as nothing waits for that FIN) and its calls
  of `Recv`; the other end accepts the stream and runs `handleOperation` and an
  agent. Both ends open operations. In this repository only the dialling end
  calls `Invoke`; the task "back" of the run stands for a program that accepts
  operations on a connection it dialled, which the API allows. That an INVOKE
  may be malformed or name no agent is in Node, not here.
- **Peers** (`MCPeers`, `PeersProofs`) extends Operation by the coordinator of
  cmd/aire-peers: the workers' goroutines, the WaitGroup, the channel, the
  goroutine that closes it, the loop that sends on to the client, the client.

Definitions whose names end in `_Something` (`Skew_Signed`, `Accept_NoAdd`) are
mutated forms of the definition that follows them. No specification uses them;
they stand for plausible bugs, and each makes a run fail.

## Runs

Runs that pass:

| Run | Shows | Instance |
|---|---|---|
| `verifier` | no pair is taken twice inside the window; a second acceptance needs a stale clock; the window is kept while the difference fits a Duration; pruning drops only expired nonces; Verify implements ReplayGuard | 3 calls, every kind of block, the clock past two windows and set back |
| `node` | types; Stop leaves nothing behind unless it raced a Listen; the WaitGroup is exact; operations run only after an accepted HELLO, and the node closes connections only on a bad HELLO or when stopping; Stop returns unless a peer withholds the rest of its HELLO for ever; an accepted operation is finished unless its peer withholds the rest of its first frame | 2 Listens, 2 Stops, one connection and operation, two agents |
| `handshake` | both ends agree; required capabilities are active; no half-open outcome; one end knows the reason; both calls return | all pairs of 17 configurations |
| `shared_verifier` | the same HELLO opens one of two connections; a new HELLO is not taken for a replay; the PeerNodeID of a signed peer is the DID that signed | two connections, clients of one DID with equal, fresh and badly signed blocks |
| `frame_stream` | frames arrive unchanged and in order; `readFrame` agrees with `Decode`; reading ends | one or two of 11 frames, every end of stream, every division |
| `payload_exchange` | round trips; damage is noticed; accepted payloads can be forwarded; what is signed fixes what is read; a key has one did:key | 413 values, 64 keys, and every cut, extension, inserted and changed byte |
| `resolver` | a handle's address comes from one version of a document that lists it, of a DID the domain named; both held at one moment unless the name was withdrawn during the call; with orderly owners a mismatch means that it was | 5 DIDs on 2 URLs, 3 documents, 6 TXT answers, 2 changes during the call |
| `peers` | OpIDs keep operations apart; `io.EOF` is a whole answer; no send on the closed channel; the client gets every chunk once or something was lost; a fast reply does not wait for a slow worker; nothing is left running | two workers, one of which may never answer, and an operation of the other end; either connection lost at any time |

Runs in which the code does not do what a comment or message says (each is a
finding in `PROJECT.json` with the quoted line):

| Run | What the code does |
|---|---|
| `verifier_accepted_once` | a block is verified twice when a call that read the clock early records after another call's pruning |
| `node_listen_stop_race` | a Stop during Listen leaves the socket open |
| `node_stop_in_flight` | Stop closes connections under operations that are still running |
| `shared_verifier_peer_node_id` | the handshake with a peer of version 0.1 completes without a signature, and `PeerNodeID`, which operation.go:17 and node.go:35 call authenticated, reports the NodeID that its HELLO names |

Six smaller differences have no run of their own; the models follow the code:

- a nonce stays recorded when resolving the key or checking the signature fails
  afterwards (identity.go:235), while the comment at 197 speaks of successful
  verifications;
- a timestamp more than about 292 years ahead makes `now.Sub` saturate, the
  negation of the smallest Duration is itself, and the check at identity.go:210
  passes; `WindowRespected` states this one exception;
- after a failed bind `n.started` stays set, and `Listen` then reports "already
  started" (node.go:94) for good;
- `Handshake` also returns ErrBadSignature, ErrStaleTimestamp, ErrReplayedNonce,
  ErrUnresolvableDID and ErrKeyMismatch, which its comment (handshake.go:284)
  does not list;
- a frame cut just behind its header or one of its varints yields `io.EOF`, which
  the comment at conn.go:172 keeps for the end of a stream between two frames
  (`readFrame` passes on what `io.ReadFull` returns);
- `Budget{}.Encode()` writes zero entries, which `DecodeBudget` refuses.

`CHECK_DEADLOCK FALSE` is set throughout: calls return, streams end, a stopped
node stays stopped.

### Bounds

- `MaxClock` bounds the clock; it leaves time for a block to be accepted, to
  expire, and to be pruned by a call of another block. `MaxSetBack` takes the
  clock back over a whole window. Three calls of Verify are needed for the
  stale-clock case: the first acceptance, the call that prunes, and the second
  acceptance. `verifier_accepted_once` sets `MaxSetBack = 0`, so that its
  behaviour needs no help from the clock.
- Two Listens and two Stops show every case of their critical sections. The
  node's properties about connections are per connection, so one connection
  with an operation is enough for TLC; the proofs are for any number. An agent
  sends one response, enough to meet a closed connection.
- In the codecs the integers sit on both sides of every varint boundary. Keys
  have two bytes and the alphabet five characters: as in the code, the base of
  the text is no power of the base of the bytes, and leading zeros occur.
- `MaxEdits = 2`: two changes during a call are what it takes to move a name to
  another DID and to withdraw the old document's entry.
- The fan-out has its two workers. `Admissions` are the sets of tasks that the
  peer's stream limit lets through: with a worker that gets no stream, or
  without the operation of the other end.
- In `shared_verifier` time passes until both calls have been in the critical
  section; nothing reads the clock after that.

`SYMMETRY` over the calls of Verify is sound: calls are exchangeable, the
workloads are closed under their permutations, and the run checks no liveness.

### Fairness

`node` assumes weak fairness of the steps of each goroutine (the Go
scheduler runs what can run), which includes that an agent's `Handle` returns.
Nothing is assumed of peers or of quic-go: a peer need not finish a frame, nor
close. conn.go passes no `quic.Config`, so quic-go's idle timeout closes the
connection of a peer that falls silent, but every packet of the peer restarts
that timer; a peer that keeps sending packets and withholds the rest of a frame
is never timed out. So `StopReturns` and `OperationsFinish` except the behaviours
in which such a peer withholds one for ever (`HelloWithheld`, `FrameWithheld`),
and nothing else. `RecvFrame` takes no context, so a `Stop` does wait for as long
as a peer in the middle of its HELLO stays (handshake.go:219); a withheld operation frame does not hold up Stop, because
`handleConn` closes the connection. `AgentSend` is not fair: an agent need not
answer. `handshake` assumes weak fairness of
both goroutines and nothing of the network: if it fails, the connection is lost,
and the model lets that happen at any time. `frame_stream` assumes that QUIC
delivers and that the receiver keeps reading. `peers` assumes weak fairness of
the coordinator's goroutines, of the client's loop, and of the accept loop and
the agents that serve the workers, except the agent in `Slow`, which may never
get on. `FastReplyReachesClient` is about that case; `NothingLeftBehind` starts
when the connection goes away, which ends a wait for a slow agent as well.

## Proofs

TLAPS checks all of the following for any finite or infinite number of calls,
connections (finite: a WaitGroup counts them), tasks, configurations and bounds
that satisfy the named assumptions of the modules.

- **SharedVerifierProofs**, the Verifier: `TypeOK`, `NoReplayInWindow`, `ReplayOnlyThroughStaleClock`,
  `WindowRespected`, `EvictsOnlyExpired`, and `ImplementsReplayGuard`.
  `NoReplayInWindow` is not inductive: that a second call is refused depends on
  the cache. The inductive invariant adds that every clock value a call has read
  is not ahead of the latest time the clock has shown (which holds although the
  clock goes back); that a claim whose block has not expired is in the cache
  (`LiveClaimsCached`); that every entry of the cache was claimed by a call
  (`CacheIsClaimed`, for the refinement: a call refused as a replay is one);
  that calls past the timestamp check were inside the window when they made it;
  and the order of a call's steps. The arithmetic core is `CutoffIsSafe`: a
  timestamp below the cutoff, rounded down to milliseconds, is outside the
  window in ticks. From `TimeAssumption` only `Window < MaxDuration` matters.
- **SharedVerifierProofs**, the two connections: `PeerIsAuthentic`,
  `OneHandshakePerHello`, `NewHelloIsNoReplay`, for any configurations that
  satisfy `ConfigsAssumption`. Every step of the composition is a step of the
  Verifier or leaves it alone, so the Verifier's invariant holds. It is extended by
  what a call has found out: the key it resolved is one of the DID
  (`KeyIsOfDID`), it accepts only a pair it has taken and a signature of such a
  key (`AcceptedIsSigned`), and a replay has a twin (`ReplayHasTwin`). For each
  connection, `EndInv` ties the node's end of the handshake to its call: past
  Verify with a signed peer only if the call returned ok, and for the NodeID that
  is the DID of the block. `OneHandshakePerHello` then follows from
  `NoReplayInWindow`.
- **NodeProofs**: `TypeOK`, `WaitGroupCounts`, `StopIsComplete`,
  `ConnectionDiscipline`. The invariant adds that one Listen at most gets past
  its critical section, that a Stop which did not race a Listen excludes later
  ones, that an open socket is then known to Stop, how far Stop has got, and
  that finished connections are closed. The counting lemmas relate one
  goroutine's step to the cardinality of the set of live goroutines. `wg \in Nat`
  (no panic in `Done`) follows from the count. `ConnectionDiscipline` has an
  invariant of its own: operations are accepted only behind a good HELLO, and a
  handleConn about to end has a closed connection or a stopping node.
- **HandshakeProofs**: `TypeOK`, `Agreement`, `RequiredAreActive`, `NoHalfOpen`,
  `SomeoneKnowsWhy`. The negotiation is shown symmetric (`VerdictSymmetric`,
  `ActiveSymmetric`, `MinorSymmetric`); the invariant records what each end has
  checked so far, that a failed end has closed the connection, and that whoever
  closed a connection that was not lost knows why.
- **ResolverProofs**: `TypeOK`, `BoundBothWays`, `BoundUnlessWithdrawn`,
  `MismatchMeansWithdrawn`. The histories include the present (`Recorded`), and
  the DID a call goes on with is still named or was withdrawn since it was read
  (`ReadIsNamed`). The document is fetched once: if it lists the handle while the
  name stands, both directions hold at that moment; if it does not, orderly
  owners no longer name the DID.
- **PeersProofs**, the operations: `OperationsAreSeparate`, `EOFMeansComplete`. The invariant
  says how streams are numbered (`Numbered`), that a task has its stream alone
  (`Owned`), that frames on a stream carry its ID and belong to its task
  (`Stamped`), that a service works for its own task (`Invoked`), and that what a
  task has received, what is on the wire and what the agent has sent add up, with
  the FIN behind the last frame (`Answered`). Stream IDs of the two ends differ
  by arithmetic (`StreamIDsDiffer`).
- **PeersProofs**, the fan-out: it implements Operation (`ImplementsOperation`), so it
  inherits both properties; and, for any number of workers,
  `NoSendOnClosedChannel` and `AllChunksOrLoss`. The invariant says that wg is
  the number of workers not done (`Counted`), that a chunk is in one of the
  channel, the client's stream and the client's hands, once (`Conserved`), and
  how calls and loops end (`Finished`). That a client which fails lost something
  needs Operation's invariant: a call on a connection that is up ends with its
  answer.

- **FrameStreamProofs**: `TypeOK`, `ReceivedIsPrefix`, `ParsersAgree`, for frames
  of any number and size (`FrameListsAssumption`), any number of values of a byte
  and any division of the bytes into reads; `DecodeInvertsEncode`, and
  `EveryFrameIsReceived`: a receiver at the end of a whole stream has returned all
  of it. The invariant relates the fields that `readFrame` has so far to the place
  in the sent bytes where the frame begins: a reader in the middle of a frame
  holds what `Decode` would read there, a reader that failed did so where `Decode`
  fails.
- **PayloadProofs**: `RoundTrip`, `DamageIsNoticed`, `AcceptedCanBeForwarded`,
  `SignedContentIsFixed`, `OneTextPerKey`, for all values that `CanBeSent` allows
  and all bytes that may arrive (`PayloadAssumption`, `MessagesAssumption`). The
  invariant only says how the bytes on the wire came from those of the encoder
  and what was decoded from them; the weight is in the lemmas about the codecs.
  Three facts of a row of fields carry all payloads: reading a row depends only on
  the bytes that it takes (`RowLocal`), inverts writing it (`RowInverse`), and
  yields values that can be written (`RowType`). `CancelCodec`, `InvokeCodec`,
  `HelloCodec` and `BudgetCodec` apply them to the four payloads. A cut payload is refused because
  a row read from the beginning of some bytes is read alike from all of them, and
  from those the row takes every byte. `SignedContentIsFixed` is the same
  argument: two HELLOs with equal signed bytes are two readings of one row.
  A did:key is a number written in another base behind its leading zeros;
  `ConvInverse` says that writing it in the first base gives the key back, which
  is `RoundTrip` and `OneTextPerKey`. That a cut text is refused needs more
  (`KeysArePrefixFree`): the codec bytes in front of every key, whose first is not
  zero, keep the numbers of two keys within a factor of two, and a character more
  makes a number at least twice as large.
- **FieldProofs**: no listed theorem, the lemmas that the two modules above cite.
  The library's induction theorems take an operator and cannot be instantiated, so
  induction goes through the least counterexample (`Induction`, `Recursion`): what
  a recursive function of the models computes is shown step by step. That every
  set of numbers has a least element (`NatIsWellOrdered`) is a hypothesis of these
  lemmas; `WellOrdered`, in both modules that cite them, proves it from the
  library's WellFoundedInduction. From it: varints are read as they were written
  and from no other number of bytes (`VarintInverse`, `VarintLocal`); the facts
  about rows (`RowFacts`, whose steps are restated as `RowType`, `RowLocal` and
  `RowInverse`); and the facts about did:key (`DIDKeyCodec`, with the steps
  `ConvInverse` and `KeysArePrefixFree`). `PayloadAssumption` asks for `Q >= 2`, so
  that the IDs of a Budget's fields are bytes (in the code `Q` is 64).

Only model-checked: the liveness properties (`StopReturns`, `OperationsFinish`,
`BothReturn`, `ReadingEnds`, `FastReplyReachesClient`, `NothingLeftBehind`), as
fairness and ENABLED are beyond the prover; and the violations above. Every
other property of a passing run is a theorem.

## Not modelled

- `DevTLSConfig` and `Dial`: calls of crypto/tls and quic-go. Certificates are
  not checked by the development configuration, and no property relies on them.
- The grammar of capability names: no state, and the handshake does not call it.
- Ed25519: a signature is the key that made it. Key generation.
- JSON, URL and DID text; the Resolver sees what it parses to. Caches of DNS and
  HTTP lie outside the repository; a cached answer acts like one read earlier.
- Memory allocation: in particular `decodeHelloPayloadV02` sizes a slice by a
  count it has not compared with the payload.
- quic-go's accounting of streams: when a stream counts as closed against the
  peer's limit is not visible in this code.
- Peers of versions below 0.2 are modelled in Handshake and SharedVerifier and
  need no signature; `PeerIsAuthentic` and `OneHandshakePerHello` are stated for
  signed peers. Payload decodes the HELLO of signed peers only: what an older one
  has behind its capabilities is not read.
- A second call of `Handshake` on a Conn, which its comment forbids and
  handshake.go:288 refuses once the first has completed.
- More than two connections on one Verifier in one model. Verifier itself is
  proved for any number of calls, and connections meet nowhere else.
- Timing of the demo programs, their output, and logging.

The Go memory model appears only where it has an effect that can be told apart:
`n.listener`, which Listen writes and Stop reads without a lock, is seen by Stop
either set or nil.
