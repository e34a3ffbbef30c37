-------------------------- MODULE PayloadExchange ---------------------------
(***************************************************************************)
(* A payload that one end encodes and the other decodes.  The bytes that    *)
(* arrive are those of the encoder, or differ from them as the bytes of     *)
(* another implementation might: cut short, longer by a byte, with a byte   *)
(* more somewhere, or with another byte in one place.                       *)
(***************************************************************************)
EXTENDS Payload

CONSTANT Messages   \* the values that are sent, by kind of payload

Kinds == {"CANCEL", "INVOKE", "BUDGET", "HELLO", "did:key"}

(* The values of a budget's fields.                                         *)
BudgetValues(id) ==
    CASE id = Currency -> {s \in Seq(Byte) : Len(s) = CurrencyLen}
      [] id = DeadlineMS -> {d \in Int : -Modulus <= 2 * d /\ 2 * d < Modulus}
      [] OTHER -> 0 .. MaxVarint

(* What the encoders are given.                                             *)
CanBeSent(k, v) ==
    CASE k = "CANCEL" -> IsRow(CancelFields, v)
      [] k = "INVOKE" -> /\ v = <<v[1], v[2], v[3]>> /\ v[3] \in Seq(Byte)
                         /\ {v[1], v[2]} \subseteq FieldValues("string")
      [] k = "BUDGET" -> /\ v = [id \in DOMAIN v |-> v[id]]
                         /\ DOMAIN v # {} /\ DOMAIN v \subseteq BudgetFields
                         /\ \A id \in DOMAIN v : v[id] \in BudgetValues(id)
      [] k = "HELLO" -> /\ v = [hello |-> [inner |-> v.hello.inner, caps |-> v.hello.caps],
                                block |-> v.block]
                        /\ IsRow(HelloFields, v.hello.inner)
                        /\ IsRow(Repeat(CapFields, v.hello.inner[4]), v.hello.caps)
                        /\ IsRow(BlockFields, v.block)
      [] k = "did:key" -> v \in Seq(Byte) /\ Len(v) = KeyLen

ASSUME MessagesAssumption ==
    /\ DOMAIN Messages = Kinds
    /\ \A k \in Kinds : \A v \in Messages[k] : CanBeSent(k, v)

VARIABLES
    kind, value,   \* what is sent
    wire,          \* the bytes that arrive
    change,        \* how they differ: "none", "cut", "longer", "inserted" or "other"
    received,      \* what the receiver decodes
    forwarded      \* what a third end decodes when the receiver passes it on

vars == <<kind, value, wire, change, received, forwarded>>

NotYet == [ok |-> FALSE, pending |-> TRUE]

EncodeAs(k, v) ==
    CASE k = "CANCEL" -> EncodeCancel(v)
      [] k = "INVOKE" -> encodeInvokePayload(v)
      [] k = "BUDGET" -> EncodeBudget(v)
      [] k = "HELLO" -> SignedHello(v.hello, v.block)
      [] k = "did:key" -> MakeDIDKey(v)

DecodeAs(k, bytes) ==
    CASE k = "CANCEL" -> DecodeCancel(bytes)
      [] k = "INVOKE" -> decodeInvokePayload(bytes)
      [] k = "BUDGET" -> DecodeBudget(bytes)
      [] k = "HELLO" -> DecodeHello(bytes)
      [] k = "did:key" -> ParseDIDKey(bytes)

Init ==
    /\ kind \in Kinds
    /\ value \in Messages[kind]
    /\ wire = EncodeAs(kind, value)
    /\ change = "none"
    /\ received = NotYet /\ forwarded = NotYet

Unchanged == change = "none" /\ received = NotYet

Cut ==
    /\ Unchanged /\ change' = "cut"
    /\ \E n \in 0 .. Len(wire) - 1 : wire' = SubSeq(wire, 1, n)
    /\ UNCHANGED <<kind, value, received, forwarded>>

Longer ==
    /\ Unchanged /\ change' = "longer"
    /\ \E b \in Byte : wire' = Append(wire, b)
    /\ UNCHANGED <<kind, value, received, forwarded>>

Inserted ==
    /\ Unchanged /\ change' = "inserted"
    /\ \E i \in DOMAIN wire, b \in Byte : 
           wire' = SubSeq(wire, 1, i - 1) \o <<b>> \o SubSeq(wire, i, Len(wire))
    /\ UNCHANGED <<kind, value, received, forwarded>>

OtherByte ==
    /\ Unchanged /\ change' = "other"
    /\ \E i \in DOMAIN wire, b \in Byte :
           b # wire[i] /\ wire' = [wire EXCEPT ![i] = b]
    /\ UNCHANGED <<kind, value, received, forwarded>>

Receive ==
    /\ received = NotYet
    /\ received' = DecodeAs(kind, wire)
    /\ UNCHANGED <<kind, value, wire, change, forwarded>>

Forward ==
    /\ received.ok /\ forwarded = NotYet
    /\ forwarded' = DecodeAs(kind, EncodeAs(kind, received.value))
    /\ UNCHANGED <<kind, value, wire, change, received>>

Next == Cut \/ Longer \/ Inserted \/ OtherByte \/ Receive \/ Forward

Spec == Init /\ [][Next]_vars

-----------------------------------------------------------------------------
(* What is encoded is decoded to the same value: every decoder inverts its  *)
(* encoder (cancel.go, node.go:212-233, budget.go, handshake.go:69-173,     *)
(* identity.go:60-120).                                                     *)
RoundTrip ==
    change = "none" /\ received # NotYet => received.ok /\ received.value = value

(* A payload that is cut anywhere is refused, and so is one with a byte     *)
(* more where no such bytes are defined.  The exceptions are those the code *)
(* intends: an empty CANCEL is the form of version 0.1, the arguments of an *)
(* INVOKE are all that follows, and bytes behind a HELLO's signature block  *)
(* are not looked at.                                                       *)
DamageIsNoticed ==
    \/ change \notin {"cut", "longer"} \/ ~received.ok
    \/ kind = "CANCEL" /\ wire = <<>>
    \/ kind = "INVOKE" /\ \A i \in 1 .. 2 : received.value[i] = value[i]
    \/ kind = "HELLO" /\ change = "longer" /\ received.value = value

(* A receiver may pass on what it decoded: a payload that is accepted, of   *)
(* whatever implementation, and encoded again is decoded to the same value. *)
(* (A BUDGET of unknown fields only decodes to the empty Budget, which has  *)
(* no valid encoding.)                                                      *)
AcceptedCanBeForwarded ==
    forwarded # NotYet
        => \/ forwarded.ok /\ forwarded.value = received.value
           \/ kind = "BUDGET" /\ DOMAIN received.value = {}

(* What a signature covers fixes what the receiver reads: when the bytes    *)
(* that arrive have the sender's signature, and the message the receiver    *)
(* checks it against is the one the sender signed, then the HELLO and the   *)
(* block are the sender's, although neither the length of the signature nor *)
(* what follows it is signed.                                               *)
SignedContentIsFixed ==
    kind = "HELLO" /\ received.ok /\ received.value.block[5] = value.block[5]
        /\ signedMessageBytes(FrameHello, received.inner, received.value.block)
             = signedMessageBytes(FrameHello, encodeHelloInner(value.hello), value.block)
        => received.value = value

(* A key has one did:key: a text that ParseDIDKey accepts is the one that   *)
(* MakeDIDKey gives the key.  DIDs are compared, and the replay cache is    *)
(* keyed, by their text (handshake.go:257, identity.go:220), so a second    *)
(* text would be a second identity of the same key.                         *)
OneTextPerKey == kind = "did:key" /\ received.ok => MakeDIDKey(received.value) = wire

=============================================================================
