------------------------------ MODULE Payload -------------------------------
(***************************************************************************)
(* The payloads of HELLO, INVOKE, CANCEL and BUDGET frames (handshake.go,   *)
(* identity.go, node.go, cancel.go, budget.go) and the did:key text of a    *)
(* key.  Every payload is a row of fields, so an encoder or decoder is the  *)
(* list of its fields' kinds:                                               *)
(*   "varint", "byte", "bool", "string" (or any bytes behind their length), *)
(*   "nonce" and "word" (a 64-bit big-endian integer).                      *)
(* A decoder yields [ok |-> FALSE] where the code returns an error; which   *)
(* of its errors is not told apart.                                         *)
(***************************************************************************)
EXTENDS Frame

CONSTANTS
    NonceLen,     \* bytes of a nonce (16 in the code)
    WordLen,      \* bytes of a 64-bit integer (8)
    CurrencyLen,  \* bytes of a currency code (3)
    Separator,    \* the bytes of DomainSeparator
    Alphabet,     \* number of characters of b58Alphabet (58); they stand for
                  \* their values, the other bytes for other characters
    DIDKeyPrefix, \* the characters of didKeyPrefix
    KeyCodec,     \* the bytes of ed25519PubMulticodec
    KeyLen        \* bytes of a public key (32)

ASSUME PayloadAssumption ==
    /\ Q >= 2   \* the IDs of a budget's fields, up to 4, are bytes
    /\ {NonceLen, KeyLen} \subseteq Nat \ {0}
    /\ WordLen \in 1 .. 8 /\ CurrencyLen \in 1 .. MaxVarint
    /\ Alphabet \in 2 .. Base - 1
    /\ {Separator, DIDKeyPrefix, KeyCodec} \subseteq Seq(Byte)
    /\ KeyCodec # <<>> /\ KeyCodec[1] # 0

Error == [ok |-> FALSE]

appendString(dst, s) == AppendVarint(dst, Len(s)) \o s

readString_Clamped(data) ==
    LET r == ReadVarint(data) IN
    IF r.err # "nil" THEN Short
    ELSE LET n == IF Len(data) - r.n < r.value THEN Len(data) - r.n ELSE r.value
         IN  [err |-> "nil", value |-> SubSeq(data, r.n + 1, r.n + n), n |-> r.n + n]

readString(data) ==
    LET r == ReadVarint(data) IN
    IF r.err # "nil" \/ Len(data) - r.n < r.value THEN Short
    ELSE [err |-> "nil", value |-> SubSeq(data, r.n + 1, r.n + r.value), n |-> r.n + r.value]

(* The next n bytes.                                                        *)
Take(data, n) ==
    IF Len(data) < n THEN Short ELSE [err |-> "nil", value |-> SubSeq(data, 1, n), n |-> n]

Size(kind) == CASE kind = "nonce" -> NonceLen [] kind = "word" -> WordLen
                [] OTHER -> 1

ReadField(kind, data) ==
    IF kind = "varint" THEN ReadVarint(data)
    ELSE IF kind = "string" THEN readString(data)
    ELSE IF kind = "bool" /\ data # <<>> /\ data[1] \notin {0, 1} THEN Short
    ELSE Take(data, Size(kind))

AppendField(dst, kind, v) ==
    IF kind = "varint" THEN AppendVarint(dst, v)
    ELSE IF kind = "string" THEN appendString(dst, v)
    ELSE dst \o v

(* The values that a field can hold.  (Lengths are int in Go; those beyond  *)
(* MaxVarint make AppendVarint panic.)                                      *)
FieldValues(kind) ==
    CASE kind = "varint" -> 0 .. MaxVarint
      [] kind = "string" -> {s \in Seq(Byte) : Len(s) <= MaxVarint}
      [] kind = "bool" -> {<<0>>, <<1>>}
      [] OTHER -> {s \in Seq(Byte) : Len(s) = Size(kind)}

IsRow(kinds, values) ==
    /\ values = [i \in 1 .. Len(kinds) |-> values[i]]
    /\ \A i \in 1 .. Len(kinds) : values[i] \in FieldValues(kinds[i])

(* Reads a row of fields: their values and the number of bytes they take.   *)
ReadFields(kinds, data) ==
    LET upTo[i \in 0 .. Len(kinds)] ==
            IF i = 0 THEN [ok |-> TRUE, got |-> <<>>, n |-> 0]
            ELSE LET before == upTo[i - 1] IN
                 IF ~before.ok THEN before
                 ELSE LET r == ReadField(kinds[i], Drop(data, before.n)) IN
                      IF r.err # "nil" THEN Error
                      ELSE [ok |-> TRUE, got |-> Append(before.got, r.value),
                            n |-> before.n + r.n]
    IN  upTo[Len(kinds)]

AppendFields(kinds, values) ==
    LET upTo[i \in 0 .. Len(kinds)] ==
            IF i = 0 THEN <<>> ELSE AppendField(upTo[i - 1], kinds[i], values[i])
    IN  upTo[Len(kinds)]

(* A row of fields again and again.                                         *)
Repeat(kinds, count) ==
    [i \in 1 .. count * Len(kinds) |-> kinds[((i - 1) % Len(kinds)) + 1]]

(* A count of rows is followed by the rows.  Each field takes a byte at     *)
(* least, so one row more than the bytes can hold stands for every larger   *)
(* count.  (A count beyond what make can allocate ends decodeHelloPayloadV02*)
(* in a panic; the counts of this model stay below that.)                   *)
Rows(kinds, count, data) ==
    LET most == Len(data) \div Len(kinds)
    IN  Repeat(kinds, IF count > most THEN most + 1 ELSE count)

-----------------------------------------------------------------------------
(* CANCEL: <<reason, detail>>.                                              *)

CancelFields == <<"varint", "string">>
EncodeCancel(c) == AppendFields(CancelFields, c)

DecodeCancel(payload) ==
    IF payload = <<>> THEN [ok |-> TRUE, value |-> <<0, <<>>>>]
    ELSE LET r == ReadFields(CancelFields, payload) IN
         IF r.ok /\ r.n = Len(payload) THEN [ok |-> TRUE, value |-> r.got] ELSE Error

-----------------------------------------------------------------------------
(* INVOKE: <<agent ID, operation, arguments>>.                              *)

InvokeFields == <<"string", "string">>
encodeInvokePayload(v) == AppendFields(InvokeFields, v) \o v[3]

decodeInvokePayload(payload) ==
    LET r == ReadFields(InvokeFields, payload) IN
    IF r.ok THEN [ok |-> TRUE, value |-> Append(r.got, Drop(payload, r.n))] ELSE Error

-----------------------------------------------------------------------------
(* BUDGET: a Budget is a function on the IDs of the fields that it has.     *)

TokensRemaining == 1
CostMicrounitsRemaining == 2
Currency == 3
DeadlineMS == 4
BudgetFields == TokensRemaining .. DeadlineMS

(* An int64 is stored in two's complement.                                  *)
Modulus == Base * Place[WordLen - 1]
EncodeWord(v) == BigEndian(v % Modulus, WordLen)

DecodeWord_Unsigned(bytes) == Value(bytes)

DecodeWord(bytes) ==
    IF 2 * Value(bytes) >= Modulus THEN Value(bytes) - Modulus ELSE Value(bytes)

EncodeBudgetField(id, v) ==
    CASE id = Currency -> v
      [] id = DeadlineMS -> EncodeWord(v)
      [] OTHER -> AppendVarint(<<>>, v)

(* The IDs of the fields of b, in order.                                    *)
EntryIDs(b) ==
    LET present(id) == IF id \in DOMAIN b THEN <<id>> ELSE <<>>
    IN  present(1) \o present(2) \o present(3) \o present(4)

EntryFields == <<"byte", "string">>

EntryValues(b) ==
    LET ids == EntryIDs(b) IN
    [i \in 1 .. 2 * Len(ids) |->
        LET id == ids[(i + 1) \div 2]
        IN  IF i % 2 = 1 THEN <<id>> ELSE EncodeBudgetField(id, b[id])]

EncodeBudget(b) ==
    LET num == Len(EntryIDs(b))
    IN  AppendVarint(<<>>, num) \o AppendFields(Repeat(EntryFields, num), EntryValues(b))

ValidBudgetField(id, bytes) ==
    CASE id \in {TokensRemaining, CostMicrounitsRemaining} -> ReadVarint(bytes).err = "nil"
      [] id = Currency -> Len(bytes) = CurrencyLen
      [] id = DeadlineMS -> Len(bytes) = WordLen
      [] OTHER -> TRUE

DecodeBudgetField(id, bytes) ==
    CASE id = Currency -> bytes
      [] id = DeadlineMS -> DecodeWord(bytes)
      [] OTHER -> ReadVarint(bytes).value

BudgetOf_KeepsUnknown(entries) ==
    LET ids == {entries[i].id : i \in DOMAIN entries} IN
    IF \/ \E i, j \in DOMAIN entries : i # j /\ entries[i].id = entries[j].id
       \/ \E i \in DOMAIN entries : ~ValidBudgetField(entries[i].id, entries[i].bytes)
    THEN Error
    ELSE [ok |-> TRUE,
          value |-> [id \in ids |->
                        LET bytes == entries[CHOOSE i \in DOMAIN entries :
                                                entries[i].id = id].bytes
                        IN  IF id \in BudgetFields THEN DecodeBudgetField(id, bytes)
                            ELSE bytes]]

BudgetOf(entries) ==
    LET ids == {entries[i].id : i \in DOMAIN entries} IN
    IF \/ \E i, j \in DOMAIN entries : i # j /\ entries[i].id = entries[j].id
       \/ \E i \in DOMAIN entries : ~ValidBudgetField(entries[i].id, entries[i].bytes)
    THEN Error
    ELSE [ok |-> TRUE,
          value |-> [id \in ids \cap BudgetFields |->
                        DecodeBudgetField(id, entries[CHOOSE i \in DOMAIN entries :
                                                          entries[i].id = id].bytes)]]

BudgetFrom(r, len) ==
    IF ~r.ok \/ r.n # len THEN Error
    ELSE BudgetOf([i \in 1 .. Len(r.got) \div 2 |-> [id |-> r.got[2 * i - 1][1],
                                                    bytes |-> r.got[2 * i]]])

BudgetEntries(num, data) ==
    IF num = 0 THEN Error
    ELSE BudgetFrom(ReadFields(Rows(EntryFields, num, data), data), Len(data))

DecodeBudget(payload) ==
    LET num == ReadVarint(payload) IN
    IF num.err # "nil" THEN Error ELSE BudgetEntries(num.value, Drop(payload, num.n))

-----------------------------------------------------------------------------
(* HELLO: [inner |-> <<major, minor, node ID, number of capabilities>>,     *)
(* caps |-> the fields of all capabilities] and a signature block           *)
(* <<algorithm, VMID, nonce, timestamp, signature>>.                        *)

HelloFields == <<"varint", "varint", "string", "varint">>
CapFields == <<"string", "varint", "bool">>
BlockFields == <<"byte", "string", "nonce", "word", "string">>

encodeHelloInner(h) ==
    AppendFields(HelloFields, h.inner) \o AppendFields(Repeat(CapFields, h.inner[4]), h.caps)

(* The part of the block that the signature covers.                         *)
metaBytes(block) == AppendFields(SubSeq(BlockFields, 1, 4), block)
EncodeBlock(block) == appendString(metaBytes(block), block[5])

FrameHello == 1

signedMessageBytes_NoMeta(ft, inner, block) == Separator \o <<ft>> \o inner

signedMessageBytes(ft, inner, block) == Separator \o <<ft>> \o inner \o metaBytes(block)

(* The payload and what the peer's signature covers.                        *)
SignedHello(h, block) == encodeHelloInner(h) \o EncodeBlock(block)

(* DecodeSignatureBlock on the bytes behind the capabilities, which         *)
(* runHandshake calls for a peer of version 0.2 or later.                   *)
WithBlock(head, caps, rest, payload) ==
    LET block == ReadFields(BlockFields, Drop(rest, caps.n)) IN
    IF ~block.ok THEN Error
    ELSE [ok |-> TRUE,
          value |-> [hello |-> [inner |-> head.got, caps |-> caps.got], block |-> block.got],
          inner |-> SubSeq(payload, 1, head.n + caps.n)]

WithCaps(head, rest, payload) ==
    LET caps == ReadFields(Rows(CapFields, head.got[4], rest), rest) IN
    IF ~caps.ok THEN Error ELSE WithBlock(head, caps, rest, payload)

(* The HELLO of a peer of version 0.2 or later.  Of an older one's HELLO    *)
(* runHandshake reads nothing behind the capabilities (handshake.go:245);   *)
(* this code sends none, and the properties of HELLO are about signed ones. *)
DecodeHello(payload) ==
    LET head == ReadFields(HelloFields, payload) IN
    IF ~head.ok THEN Error ELSE WithCaps(head, Drop(payload, head.n), payload)

-----------------------------------------------------------------------------
(* did:key: the text of an Ed25519 public key.  'z', the multibase prefix,  *)
(* is the last character of the alphabet and '1' the first.                 *)

Number(base, digits) ==
    LET sum[i \in 0 .. Len(digits)] ==
            IF i = 0 THEN 0 ELSE sum[i - 1] * base + digits[i]
    IN  sum[Len(digits)]

(* The digits of a number, none for 0: QuoRem until nothing is left.        *)
Digits(n, base) ==
    LET of[k \in 0 .. n] == IF k = 0 THEN <<>> ELSE Append(of[k \div base], k % base)
    IN  of[n]

LeadingZeros(s) ==
    SubSeq(s, 1, CHOOSE k \in 0 .. Len(s) : (\A i \in 1 .. k : s[i] = 0) /\ (k < Len(s) => s[k + 1] # 0))

base58btcEncode(data) == LeadingZeros(data) \o Digits(Number(Base, data), Alphabet)

base58btcDecode_NoLead(s) ==
    IF \E i \in DOMAIN s : s[i] >= Alphabet THEN Error
    ELSE [ok |-> TRUE, value |-> Digits(Number(Alphabet, s), Base)]

base58btcDecode(s) ==
    IF \E i \in DOMAIN s : s[i] >= Alphabet THEN Error
    ELSE [ok |-> TRUE, value |-> LeadingZeros(s) \o Digits(Number(Alphabet, s), Base)]

encodeMultibaseEd25519(pub) == <<Alphabet - 1>> \o base58btcEncode(KeyCodec \o pub)

HasPrefix(s, prefix) == Len(s) >= Len(prefix) /\ SubSeq(s, 1, Len(prefix)) = prefix

decodeMultibaseEd25519(s) ==
    IF Len(s) < 2 \/ Head(s) # Alphabet - 1 THEN Error
    ELSE LET raw == base58btcDecode(Tail(s)) IN
         IF ~raw.ok \/ ~HasPrefix(raw.value, KeyCodec) \/ Len(raw.value) # Len(KeyCodec) + KeyLen
         THEN Error
         ELSE [ok |-> TRUE, value |-> Drop(raw.value, Len(KeyCodec))]

MakeDIDKey(pub) == DIDKeyPrefix \o encodeMultibaseEd25519(pub)

ParseDIDKey(did) ==
    IF HasPrefix(did, DIDKeyPrefix) THEN decodeMultibaseEd25519(Drop(did, Len(DIDKeyPrefix)))
    ELSE Error

=============================================================================
