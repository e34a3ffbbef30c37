--------------------------- MODULE PayloadProofs ----------------------------
(****************************************************************************)
(* Proofs about PayloadExchange, for all values that can be sent, whatever  *)
(* their number and length, and all bytes that may arrive.                  *)
(*                                                                          *)
(* Each payload has a lemma with three parts: its decoder inverts its       *)
(* encoder (Sent), what the decoder accepts can be sent (Accepted), and     *)
(* what it makes of bytes that were cut or are longer (Damaged).  They rest *)
(* on three facts of a row of fields (FieldProofs): reading it depends only *)
(* on the bytes that it takes (RowLocal), inverts writing it (RowInverse),  *)
(* and yields values that can be written (RowType).                         *)
(****************************************************************************)
EXTENDS PayloadExchange, FieldProofs

-----------------------------------------------------------------------------
(* CANCEL: it is read as it was sent, what is accepted can be sent, and a   *)
(* byte more or less is noticed, unless nothing is left.                    *)
LEMMA CancelCodec ==
    ASSUME NatIsWellOrdered
    PROVE  /\ \A v :
                  IsRow(CancelFields, v)
                  => /\ EncodeCancel(v) \in Seq(Byte)
                     /\ DecodeCancel(EncodeCancel(v)) = [ok |-> TRUE, value |-> v]
           /\ \A data \in Seq(Byte) :
                  DecodeCancel(data).ok
                  => IsRow(CancelFields, DecodeCancel(data).value)
           /\ \A v :
                  IsRow(CancelFields, v)
                  => LET w == EncodeCancel(v)
                     IN  /\ \A n \in 0 .. Len(w) - 1 :
                               SubSeq(w, 1, n) = <<>> \/ ~DecodeCancel(SubSeq(w, 1, n)).ok
                         /\ \A b \in Byte : ~DecodeCancel(Append(w, b)).ok
<1>CancelSent.
    ASSUME NEW v, IsRow(CancelFields, v)
    PROVE  /\ EncodeCancel(v) \in Seq(Byte)
           /\ DecodeCancel(EncodeCancel(v)) = [ok |-> TRUE, value |-> v]
  <2> USE <1>CancelSent
  <2> DEFINE w == EncodeCancel(v)
  <2>1. w \in Seq(Byte) /\ Len(w) >= 2 /\ ReadFields(CancelFields, w) = Got(v, Len(w))
    <3>1. <<>> \in Seq(Byte)
      OBVIOUS
    <3> QED
      BY <3>1, PayloadFields, RowWritten, Zenon DEF EncodeCancel
  <2> HIDE DEF w
  <2>2. w # <<>>
    BY <2>1
  <2>3. DecodeCancel(w) = [ok |-> TRUE, value |-> v]
    <3> DEFINE r == ReadFields(CancelFields, w)
    <3>1. r.ok /\ r.n = Len(w) /\ r.got = v
      BY <2>1, GotParts
    <3> QED
      BY <2>2, <3>1 DEF DecodeCancel
  <2> QED
    BY <2>1, <2>3 DEF w
<1>CancelAccepted.
    ASSUME NEW data \in Seq(Byte), DecodeCancel(data).ok
    PROVE  IsRow(CancelFields, DecodeCancel(data).value)
  <2> USE <1>CancelAccepted
  <2> DEFINE r == ReadFields(CancelFields, data)
  <2>1. CASE data = <<>>
    <3> DEFINE v == <<0, <<>>>>
    <3>1. DecodeCancel(data) = [ok |-> TRUE, value |-> v]
      BY <2>1 DEF DecodeCancel
    <3>2. 0 \in FieldValues("varint") /\ <<>> \in FieldValues("string")
      <4>1. <<>> \in Seq(Byte) /\ Len(<<>>) = 0
        OBVIOUS
      <4>2. 0 \in 0 .. MaxVarint /\ 0 <= MaxVarint
        BY MaxVarintIsNat
      <4>3. <<>> \in {s \in Seq(Byte) : Len(s) <= MaxVarint}
        BY <4>1, <4>2
      <4> QED
        BY <4>2, <4>3, FieldValuesAre, Zenon
    <3>3. v = [i \in 1 .. 2 |-> v[i]] /\ v[1] = 0 /\ v[2] = <<>>
      OBVIOUS
    <3>4. CancelFields[1] = "varint" /\ CancelFields[2] = "string" /\ Len(CancelFields) = 2
      BY DEF CancelFields
    <3>5. \A i \in 1 .. 2 : v[i] \in FieldValues(CancelFields[i])
      <4>1. \A i \in 1 .. 2 : i = 1 \/ i = 2
        OBVIOUS
      <4> HIDE DEF v
      <4> QED
        BY <3>2, <3>3, <3>4, <4>1
    <3> HIDE DEF v
    <3> QED
      BY <3>1, <3>3, <3>4, <3>5 DEF IsRow
  <2>2. CASE data # <<>>
    <3>1. r.ok /\ DecodeCancel(data) = [ok |-> TRUE, value |-> r.got]
      BY <2>2, GotFields DEF DecodeCancel
    <3>2. IsRow(CancelFields, r.got)
      BY <3>1, PayloadFields, RowAccepted
    <3> QED
      BY <3>1, <3>2
  <2> QED
    BY <2>1, <2>2
<1>CancelDamaged.
    ASSUME NEW v, IsRow(CancelFields, v)
    PROVE  LET w == EncodeCancel(v)
           IN  /\ \A n \in 0 .. Len(w) - 1 :
                     SubSeq(w, 1, n) = <<>> \/ ~DecodeCancel(SubSeq(w, 1, n)).ok
               /\ \A b \in Byte : ~DecodeCancel(Append(w, b)).ok
  <2> USE <1>CancelDamaged
  <2> DEFINE w == EncodeCancel(v)
  <2>1. /\ w \in Seq(Byte) /\ ReadFields(CancelFields, w) = Got(v, Len(w))
        /\ \A rest \in Seq(Byte) : ReadFields(CancelFields, w \o rest) = Got(v, Len(w))
    <3>1. <<>> \in Seq(Byte)
      OBVIOUS
    <3> QED
      BY <3>1, PayloadFields, RowWritten, Zenon DEF EncodeCancel
  <2> HIDE DEF w
  <2>2. ASSUME NEW n \in 0 .. Len(w) - 1, SubSeq(w, 1, n) # <<>>
        PROVE  ~DecodeCancel(SubSeq(w, 1, n)).ok
    <3> DEFINE c == SubSeq(w, 1, n)
    <3>1. c \in Seq(Byte) /\ Len(c) < Len(w) /\ SameStart(c, w, Len(c))
      <4>1. n \in 0 .. n
        OBVIOUS
      <4> QED
        BY <2>1, <4>1, CutBytes
    <3> HIDE DEF c
    <3>2. ReadFields(CancelFields, c) = Error
      <4>1. ReadFields(CancelFields, w).ok /\ ReadFields(CancelFields, w).n = Len(w)
        BY <2>1, GotParts
      <4> QED
        BY <2>1, <3>1, <4>1, PayloadFields, RowShort
    <3>3. DecodeCancel(c) = Error
      BY <2>2, <3>2, GotFields DEF DecodeCancel, c
    <3> QED
      BY <3>3, GotFields DEF c
  <2>3. ASSUME NEW b \in Byte PROVE ~DecodeCancel(Append(w, b)).ok
    <3> DEFINE d == Append(w, b)
    <3>1. d = w \o <<b>> /\ <<b>> \in Seq(Byte) /\ Len(d) = Len(w) + 1 /\ Len(w) \in Nat
      BY <2>1, LongerBytes
    <3> HIDE DEF d
    <3>2. ReadFields(CancelFields, d) = Got(v, Len(w)) /\ Len(w) # Len(d)
      <4>1. ReadFields(CancelFields, d) = Got(v, Len(w))
        BY <2>1, <3>1, Zenon
      <4>2. Len(w) # Len(d)
        BY <3>1
      <4> QED
        BY <4>1, <4>2
    <3>3. d # <<>>
      BY <3>1
    <3>4. DecodeCancel(d) = Error
      <4>1. ReadFields(CancelFields, d).n = Len(w)
        BY <3>2, GotParts
      <4> QED
        BY <3>2, <3>3, <4>1 DEF DecodeCancel
    <3> QED
      BY <3>4, GotFields DEF d
  <2> QED
    BY <2>2, <2>3 DEF w
<1> QED
  BY <1>CancelSent, <1>CancelAccepted, <1>CancelDamaged, Zenon

-----------------------------------------------------------------------------
(* INVOKE.                                                                  *)
IsInvoke(v) ==
    v = <<v[1], v[2], v[3]>> /\ v[3] \in Seq(Byte) /\ {v[1], v[2]} \subseteq FieldValues("string")

(* INVOKE: it is read as it was sent, what is accepted can be sent, and     *)
(* however it is cut or followed by a byte, its names are the same.         *)
LEMMA InvokeCodec ==
    ASSUME NatIsWellOrdered
    PROVE  /\ \A v :
                  IsInvoke(v)
                  => /\ encodeInvokePayload(v) \in Seq(Byte)
                     /\ decodeInvokePayload(encodeInvokePayload(v)) = [ok |-> TRUE, value |-> v]
           /\ \A data \in Seq(Byte) :
                  decodeInvokePayload(data).ok
                  => IsInvoke(decodeInvokePayload(data).value)
           /\ \A v :
                  IsInvoke(v)
                  => LET w == encodeInvokePayload(v)
                     IN  /\ \A n \in 0 .. Len(w) - 1 :
                               LET d == decodeInvokePayload(SubSeq(w, 1, n))
                               IN  d.ok => d.value[1] = v[1] /\ d.value[2] = v[2]
                         /\ \A b \in Byte :
                               LET d == decodeInvokePayload(Append(w, b))
                               IN  d.value[1] = v[1] /\ d.value[2] = v[2]
<1>InvokeRow.
    ASSUME NEW v
    PROVE  Holds(InvokeFields, v) <=> {v[1], v[2]} \subseteq FieldValues("string")
  <2>1. InvokeFields[1] = "string" /\ InvokeFields[2] = "string" /\ Len(InvokeFields) = 2
    BY DEF InvokeFields
  <2>2. \A i \in 1 .. 2 : i = 1 \/ i = 2
    OBVIOUS
  <2>3. 1 \in 1 .. 2 /\ 2 \in 1 .. 2
    OBVIOUS
  <2> QED
    BY <2>1, <2>2, <2>3 DEF Holds
<1>AppendFacts.
    ASSUME NEW s \in Seq(AnyValue), NEW x \in AnyValue
    PROVE  /\ Append(s, x) \in Seq(AnyValue) /\ Len(Append(s, x)) = Len(s) + 1
           /\ Append(s, x)[Len(s) + 1] = x
           /\ \A i \in 1 .. Len(s) : Append(s, x)[i] = s[i]
  OBVIOUS
<1>Triple.
    ASSUME NEW g \in Seq(AnyValue), Len(g) = 2, NEW x \in AnyValue
    PROVE  Append(g, x) = <<g[1], g[2], x>>
  <2> USE <1>Triple
  <2>1. ASSUME NEW h \in Seq(AnyValue), Len(h) = 3 PROVE h = <<h[1], h[2], h[3]>>
    <3>1. DOMAIN h = 1 .. 3
      BY <2>1
    <3> QED
      BY <2>1, <3>1
  <2> DEFINE h == Append(g, x)
  <2>2. h \in Seq(AnyValue) /\ Len(h) = 3 /\ h[1] = g[1] /\ h[2] = g[2] /\ h[3] = x
    <3>1. /\ h \in Seq(AnyValue) /\ Len(h) = Len(g) + 1 /\ h[Len(g) + 1] = x
          /\ \A i \in 1 .. Len(g) : h[i] = g[i]
      BY <1>AppendFacts, Zenon
    <3>3. 1 \in 1 .. Len(g) /\ 2 \in 1 .. Len(g) /\ Len(g) + 1 = 3
      OBVIOUS
    <3> HIDE DEF h
    <3> QED
      BY <3>1, <3>3
  <2> HIDE DEF h
  <2>3. h = <<h[1], h[2], h[3]>>
    BY <2>1, <2>2
  <2>4. h = <<g[1], g[2], x>>
    BY <2>2, <2>3
  <2> QED
    BY <2>4 DEF h
(* What an INVOKE is read as, with any bytes behind its two names.          *)
<1>InvokeReads.
    ASSUME NEW v, {v[1], v[2]} \subseteq FieldValues("string"), NEW rest \in Seq(Byte)
    PROVE  LET w == AppendFields(InvokeFields, v)
               r == ReadFields(InvokeFields, w \o rest)
           IN  /\ w \in Seq(Byte) /\ w \o rest \in Seq(Byte)
               /\ r.ok /\ r.n = Len(w) /\ r.got[1] = v[1] /\ r.got[2] = v[2]
               /\ decodeInvokePayload(w \o rest) = [ok |-> TRUE, value |-> <<v[1], v[2], rest>>]
  <2> USE <1>InvokeReads
  <2> DEFINE w == AppendFields(InvokeFields, v)
             d == w \o rest
             r == ReadFields(InvokeFields, d)
             g == Values(v, 2)
  <2>1. Holds(InvokeFields, v)
    BY <1>InvokeRow
  <2>2. w \in Seq(Byte) /\ r = Got(g, Len(w))
    BY <2>1, PayloadFields, RowInverse, ZenonT(30)
  <2> HIDE DEF w
  <2>3. d \in Seq(Byte) /\ Drop(d, Len(w)) = rest
    BY <2>2, ConcatFacts, ConcatParts
  <2>4. g[1] = v[1] /\ g[2] = v[2] /\ Len(g) = 2 /\ g \in Seq(AnyValue)
    <3>1. v[1] \in AnyValue /\ v[2] \in AnyValue
      BY FieldValuesAny DEF FieldKinds
    <3>2. ASSUME NEW i \in 1 .. 2 PROVE v[i] \in AnyValue
      <4>1. i = 1 \/ i = 2
        OBVIOUS
      <4> QED
        BY <3>1, <4>1
    <3>3. g \in [1 .. 2 -> AnyValue] /\ g[1] = v[1] /\ g[2] = v[2]
      BY <3>2 DEF Values
    <3>4. ASSUME NEW k \in Nat, NEW h \in [1 .. k -> AnyValue] PROVE h \in Seq(AnyValue) /\ Len(h) = k
      OBVIOUS
    <3> HIDE DEF g
    <3> QED
      BY <3>3, <3>4, Zenon
  <2> HIDE DEF d, r, g
  <2>5. r.ok /\ r.n = Len(w) /\ r.got = g
    BY <2>2, GotParts
  <2>6. decodeInvokePayload(d) = [ok |-> TRUE, value |-> Append(g, rest)]
    BY <2>3, <2>5 DEF decodeInvokePayload, r
  <2>7. Append(g, rest) = <<v[1], v[2], rest>>
    <3>1. rest \in AnyValue
      BY DEF AnyValue
    <3> QED
      BY <2>4, <3>1, <1>Triple
  <2> QED
    BY <2>2, <2>3, <2>4, <2>5, <2>6, <2>7 DEF d, r, w
<1>InvokeSent.
    ASSUME NEW v, IsInvoke(v)
    PROVE  /\ encodeInvokePayload(v) \in Seq(Byte)
           /\ decodeInvokePayload(encodeInvokePayload(v)) = [ok |-> TRUE, value |-> v]
  <2> USE <1>InvokeSent
  <2> DEFINE w == AppendFields(InvokeFields, v) \o v[3]
  <2>1. {v[1], v[2]} \subseteq FieldValues("string") /\ v[3] \in Seq(Byte) /\ v = <<v[1], v[2], v[3]>>
    BY DEF IsInvoke
  <2>2. encodeInvokePayload(v) = w
    BY DEF encodeInvokePayload
  <2>3. w \in Seq(Byte) /\ decodeInvokePayload(w) = [ok |-> TRUE, value |-> <<v[1], v[2], v[3]>>]
    BY <2>1, <1>InvokeReads
  <2> HIDE DEF w
  <2> QED
    BY <2>1, <2>2, <2>3, Zenon
<1>InvokeCases.
    ASSUME NEW data \in Seq(Byte), decodeInvokePayload(data).ok
    PROVE  LET r == ReadFields(InvokeFields, data)
           IN  /\ r.ok /\ r.n \in 0 .. Len(data)
               /\ {r.got[1], r.got[2]} \subseteq FieldValues("string")
               /\ Drop(data, r.n) \in Seq(Byte)
               /\ decodeInvokePayload(data).value = <<r.got[1], r.got[2], Drop(data, r.n)>>
  <2> USE <1>InvokeCases
  <2> DEFINE r == ReadFields(InvokeFields, data)
             d == Drop(data, r.n)
  <2>1. r.ok /\ decodeInvokePayload(data) = [ok |-> TRUE, value |-> Append(r.got, d)]
    BY GotFields DEF decodeInvokePayload
  <2>2. r.n \in 0 .. Len(data) /\ r.got \in Seq(AnyValue) /\ Len(r.got) = 2 /\ IsRow(InvokeFields, r.got)
    BY <2>1, PayloadFields, RowAccepted
  <2>3. {r.got[1], r.got[2]} \subseteq FieldValues("string")
    <3>1. Holds(InvokeFields, r.got)
      BY <2>2 DEF IsRow, Holds
    <3> QED
      BY <3>1, <1>InvokeRow
  <2>4. d \in Seq(Byte)
    BY <2>2, DropFacts
  <2>5. Append(r.got, d) = <<r.got[1], r.got[2], d>>
    <3>1. d \in AnyValue
      BY <2>4 DEF AnyValue
    <3> HIDE DEF d, r
    <3> QED
      BY <2>2, <3>1, <1>Triple
  <2> QED
    BY <2>1, <2>2, <2>3, <2>4, <2>5
<1>InvokeAccepted.
    ASSUME NEW data \in Seq(Byte), decodeInvokePayload(data).ok
    PROVE  IsInvoke(decodeInvokePayload(data).value)
  <2> USE <1>InvokeAccepted
  <2> DEFINE r == ReadFields(InvokeFields, data)
  <2>1. PICK a, b, d : /\ decodeInvokePayload(data).value = <<a, b, d>>
                       /\ {a, b} \subseteq FieldValues("string") /\ d \in Seq(Byte)
    BY <1>InvokeCases
  <2>2. ASSUME NEW v, v = <<a, b, d>> PROVE IsInvoke(v)
    BY <2>1, <2>2 DEF IsInvoke
  <2> QED
    BY <2>1, <2>2
(* However an INVOKE is cut or followed by a byte, its names are the same.  *)
<1>InvokeDamaged.
    ASSUME NEW v, IsInvoke(v)
    PROVE  LET w == encodeInvokePayload(v)
           IN  /\ \A n \in 0 .. Len(w) - 1 :
                     LET d == decodeInvokePayload(SubSeq(w, 1, n))
                     IN  d.ok => d.value[1] = v[1] /\ d.value[2] = v[2]
               /\ \A b \in Byte :
                     LET d == decodeInvokePayload(Append(w, b))
                     IN  d.value[1] = v[1] /\ d.value[2] = v[2]
  <2> USE <1>InvokeDamaged
  <2> DEFINE u == AppendFields(InvokeFields, v)
             w == u \o v[3]
  <2>1. {v[1], v[2]} \subseteq FieldValues("string") /\ v[3] \in Seq(Byte)
    BY DEF IsInvoke
  <2>2. encodeInvokePayload(v) = w
    BY DEF encodeInvokePayload
  <2>3. /\ u \in Seq(Byte) /\ w \in Seq(Byte)
        /\ ReadFields(InvokeFields, w).got[1] = v[1] /\ ReadFields(InvokeFields, w).got[2] = v[2]
    BY <2>1, <1>InvokeReads
  <2>4. ASSUME NEW n \in 0 .. Len(w) - 1, decodeInvokePayload(SubSeq(w, 1, n)).ok
        PROVE  /\ decodeInvokePayload(SubSeq(w, 1, n)).value[1] = v[1]
               /\ decodeInvokePayload(SubSeq(w, 1, n)).value[2] = v[2]
    <3> DEFINE c == SubSeq(w, 1, n)
               r == ReadFields(InvokeFields, c)
    <3> HIDE DEF w
    <3>1. c \in Seq(Byte) /\ Len(c) = n /\ \A m \in 0 .. n : SameStart(c, w, m)
      BY <2>3, CutBytes
    <3> HIDE DEF c
    <3>2. r.ok /\ r.n \in 0 .. n /\ decodeInvokePayload(c).value = <<r.got[1], r.got[2], Drop(c, r.n)>>
      BY <2>4, <3>1, <1>InvokeCases, Zenon DEF c
    <3>3. SameStart(c, w, r.n)
      BY <3>1, <3>2
    <3>4. ReadFields(InvokeFields, w) = r
      BY <2>3, <3>1, <3>2, <3>3, PayloadFields, RowLocal
    <3>5. r.got[1] = v[1] /\ r.got[2] = v[2]
      BY <2>3, <3>4
    <3> QED
      BY <3>2, <3>5 DEF c
  <2>5. ASSUME NEW b \in Byte
        PROVE  /\ decodeInvokePayload(Append(w, b)).value[1] = v[1]
               /\ decodeInvokePayload(Append(w, b)).value[2] = v[2]
    <3>1. Append(w, b) = w \o <<b>> /\ <<b>> \in Seq(Byte)
      <4> HIDE DEF w
      <4> QED
        BY <2>3, LongerBytes
    <3> DEFINE t == v[3] \o <<b>>
    <3>2. w \o <<b>> = u \o t /\ t \in Seq(Byte)
      <4> HIDE DEF u
      <4>1. t \in Seq(Byte)
        BY <2>1, <3>1, ConcatFacts
      <4>2. ASSUME NEW x \in Seq(Byte), NEW y \in Seq(Byte) PROVE (u \o x) \o y = u \o (x \o y)
        BY <2>3, ConcatAssociative, ZenonT(60)
      <4> QED
        BY <2>1, <3>1, <4>1, <4>2, Zenon
    <3> HIDE DEF t
    <3>3. decodeInvokePayload(u \o t) = [ok |-> TRUE, value |-> <<v[1], v[2], t>>]
      BY <2>1, <3>2, <1>InvokeReads
    <3> HIDE DEF u, w
    <3>4. decodeInvokePayload(Append(w, b)) = [ok |-> TRUE, value |-> <<v[1], v[2], t>>]
      BY <3>1, <3>2, <3>3, Zenon
    <3>5. ASSUME NEW d, d = [ok |-> TRUE, value |-> <<v[1], v[2], t>>]
          PROVE  d.value[1] = v[1] /\ d.value[2] = v[2]
      BY <3>5
    <3> QED
      BY <3>4, <3>5
  <2> QED
    BY <2>2, <2>4, <2>5
<1> QED
  BY <1>InvokeSent, <1>InvokeAccepted, <1>InvokeDamaged

(* HELLO.                                                                   *)
HeadOf(p) == ReadFields(HelloFields, p)

CapsOf(p) == ReadFields(Repeat(CapFields, HeadOf(p).got[4]), Drop(p, HeadOf(p).n))

InnerOk(p) == HeadOf(p).ok /\ CapsOf(p).ok

InnerN(p) == HeadOf(p).n + CapsOf(p).n

HelloIn(p) == [inner |-> HeadOf(p).got, caps |-> CapsOf(p).got]

BlockOf(p) == ReadFields(BlockFields, Drop(p, InnerN(p)))

IsInner(h) ==
    /\ h = [inner |-> h.inner, caps |-> h.caps]
    /\ IsRow(HelloFields, h.inner) /\ IsRow(Repeat(CapFields, h.inner[4]), h.caps)

IsHello(v) ==
    /\ v = [hello |-> [inner |-> v.hello.inner, caps |-> v.hello.caps], block |-> v.block]
    /\ IsRow(HelloFields, v.hello.inner)
    /\ IsRow(Repeat(CapFields, v.hello.inner[4]), v.hello.caps)
    /\ IsRow(BlockFields, v.block)

(* Concatenation, for the steps that only rearrange it.                     *)
Cat(a, b) == a \o b

(* HELLO: it is read as it was sent, whatever follows; what is accepted can *)
(* be sent; one that is cut is refused, a byte more changes nothing; and    *)
(* what is signed fixes what is read.                                       *)
LEMMA HelloCodec ==
    ASSUME NatIsWellOrdered
    PROVE  /\ \A v : \A rest \in Seq(Byte) :
                  IsHello(v)
                  => LET w == SignedHello(v.hello, v.block)
                     IN  /\ w \in Seq(Byte)
                         /\ InnerN(w \o rest) + BlockOf(w \o rest).n = Len(w)
                         /\ DecodeHello(w \o rest)
                              = [ok |-> TRUE, value |-> v, inner |-> encodeHelloInner(v.hello)]
           /\ \A p \in Seq(Byte) :
                  DecodeHello(p).ok
                  => /\ InnerOk(p) /\ BlockOf(p).ok
                     /\ DecodeHello(p).value = [hello |-> HelloIn(p), block |-> BlockOf(p).got]
                     /\ DecodeHello(p).inner = SubSeq(p, 1, InnerN(p))
                     /\ InnerN(p) \in 0 .. Len(p) /\ BlockOf(p).n \in 0 .. Len(p) - InnerN(p)
                     /\ IsHello(DecodeHello(p).value)
           /\ \A v :
                  IsHello(v)
                  => LET w == SignedHello(v.hello, v.block)
                     IN  /\ \A n \in 0 .. Len(w) - 1 : ~DecodeHello(SubSeq(w, 1, n)).ok
                         /\ \A b \in Byte : DecodeHello(Append(w, b)).value = v
           /\ \A v : \A p \in Seq(Byte) :
                  IsHello(v) /\ DecodeHello(p).ok /\ DecodeHello(p).value.block[5] = v.block[5]
                  /\ signedMessageBytes(FrameHello, DecodeHello(p).inner, DecodeHello(p).value.block)
                     = signedMessageBytes(FrameHello, encodeHelloInner(v.hello), v.block)
                  => DecodeHello(p).value = v
(* The fields before the last one are written as a row of their own.        *)
<1>RowWithoutLast.
    ASSUME NEW kinds \in Seq(FieldKinds), NEW n \in Nat, Len(kinds) = n + 1, NEW values,
           Holds(kinds, values)
    PROVE  /\ AppendFields(SubSeq(kinds, 1, n), values) \in Seq(Byte)
           /\ AppendFields(kinds, values)
                = AppendFields(SubSeq(kinds, 1, n), values)
                      \o FieldBytes(kinds[n + 1], values[n + 1])
  <2> USE <1>RowWithoutLast
  <2> DEFINE ks == SubSeq(kinds, 1, n)
             A == Appended(kinds, values)
             B == Appended(ks, values)
             f(i) == FieldBytes(kinds[i], values[i])
             P == {k \in 0 .. n : A[k] = B[k]}
  <2>1. ks \in Seq(FieldKinds) /\ Len(ks) = n /\ \A i \in 1 .. n : ks[i] = kinds[i]
    OBVIOUS
  <2> HIDE DEF ks
  <2>2. \A i \in 1 .. n : i \in 1 .. n + 1
    OBVIOUS
  <2>3. Holds(ks, values)
    BY <2>1, <2>2 DEF Holds
  <2>4. /\ A[0] = <<>> /\ AppendFields(kinds, values) = A[n + 1]
        /\ \A k \in 0 .. n : A[k + 1] = A[k] \o f(k + 1)
    <3>1. \A k \in 0 .. n : k \in 0 .. Len(kinds) - 1
      OBVIOUS
    <3> QED
      BY <3>1, AppendedStep, Zenon
  <2>5. /\ B[0] = <<>> /\ AppendFields(ks, values) = B[n] /\ B[n] \in Seq(Byte)
        /\ \A k \in 0 .. n - 1 : B[k + 1] = B[k] \o FieldBytes(ks[k + 1], values[k + 1])
    <3>1. n \in 0 .. n
      OBVIOUS
    <3> QED
      BY <2>1, <2>3, <3>1, AppendedStep, Zenon
  <2>6. 0 \in P
    BY <2>4, <2>5
  <2>7. ASSUME NEW k \in 0 .. n - 1, k \in P PROVE k + 1 \in P
    <3>1. k \in 0 .. n /\ k + 1 \in 0 .. n /\ k + 1 \in 1 .. n
      OBVIOUS
    <3>2. A[k + 1] = A[k] \o f(k + 1)
      BY <2>4, <3>1, Zenon
    <3>3. B[k + 1] = B[k] \o f(k + 1)
      BY <2>1, <2>5, <3>1, Zenon
    <3>4. A[k + 1] = B[k + 1]
      <4> HIDE DEF A, B, f
      <4> QED
        BY <2>7, <3>2, <3>3, Zenon
    <3> QED
      BY <3>1, <3>4
  <2>8. n \in P
    <3> HIDE DEF P
    <3>1. 0 .. n \subseteq P
      BY <2>6, <2>7, Induction
    <3>2. n \in 0 .. n
      OBVIOUS
    <3> QED
      BY <3>1, <3>2
  <2>9. A[n + 1] = B[n] \o f(n + 1)
    <3>1. n \in 0 .. n
      OBVIOUS
    <3> QED
      BY <2>4, <2>8, <3>1, Zenon
  <2> QED
    BY <2>4, <2>5, <2>9, Zenon DEF ks
<1>BlockIs.
    ASSUME NEW block, IsRow(BlockFields, block)
    PROVE  /\ EncodeBlock(block) = AppendFields(BlockFields, block)
           /\ metaBytes(block) \in Seq(Byte)
           /\ EncodeBlock(block) = metaBytes(block) \o FieldBytes("string", block[5])
           /\ FieldBytes("string", block[5]) \in Seq(Byte)
  <2> USE <1>BlockIs
  <2> DEFINE m == metaBytes(block)
             s == block[5]
  <2>1. BlockFields \in Seq(FieldKinds) /\ Len(BlockFields) = 5 /\ BlockFields[5] = "string"
    BY PayloadFields DEF BlockFields
  <2>2. Holds(BlockFields, block)
    BY DEF IsRow, Holds
  <2>3. s \in Seq(Byte) /\ Len(s) <= MaxVarint
    <3>1. s \in FieldValues("string")
      BY <2>1, <2>2 DEF Holds
    <3> HIDE DEF s
    <3> QED
      BY <3>1, FieldValuesAre
  <2>4. m \in Seq(Byte) /\ AppendFields(BlockFields, block) = m \o FieldBytes("string", s)
    <3> DEFINE n == 4
    <3>1. n \in Nat /\ n + 1 = 5
      OBVIOUS
    <3> HIDE DEF n
    <3>2. /\ AppendFields(SubSeq(BlockFields, 1, n), block) \in Seq(Byte)
          /\ AppendFields(BlockFields, block)
                  = AppendFields(SubSeq(BlockFields, 1, n), block)
                        \o FieldBytes(BlockFields[n + 1], block[n + 1])
      BY <2>1, <2>2, <3>1, <1>RowWithoutLast, Zenon
    <3> USE DEF n
    <3> QED
      BY <2>1, <3>1, <3>2, Zenon DEF metaBytes
  <2>5. appendString(m, s) = m \o FieldBytes("string", s)
    <3> HIDE DEF m, s
    <3>1. <<>> \in Seq(Byte)
      OBVIOUS
    <3>2. appendString(m, s) = m \o (Varint(Len(s)) \o s)
      BY <2>3, <2>4, <3>1, StringInverse, Zenon
    <3> QED
      BY <3>2, FieldBytesAre, Zenon
  <2>6. FieldBytes("string", s) \in Seq(Byte)
    <3> HIDE DEF s
    <3>1. <<>> \in Seq(Byte)
      OBVIOUS
    <3>2. Varint(Len(s)) \o s \in Seq(Byte)
      BY <2>3, <3>1, StringInverse
    <3> QED
      BY <3>2, FieldBytesAre, Zenon
  <2> QED
    BY <2>4, <2>5, <2>6 DEF EncodeBlock
(* The kinds of the fields of the capabilities.                             *)
<1>CapKinds.
    ASSUME NEW inner, IsRow(HelloFields, inner)
    PROVE  /\ inner[4] \in Nat
           /\ Repeat(CapFields, inner[4]) \in Seq(FieldKinds)
  <2> USE <1>CapKinds
  <2>1. inner[4] \in FieldValues(HelloFields[4])
    <3>1. 4 \in 1 .. Len(HelloFields)
      BY PayloadFields
    <3> QED
      BY <3>1 DEF IsRow
  <2>2. HelloFields[4] = "varint"
    BY DEF HelloFields
  <2>3. inner[4] \in Nat
    BY <2>1, <2>2, FieldValuesAre, MaxVarintIsNat
  <2> DEFINE l == 3
  <2>4. l \in {2, 3} /\ Len(CapFields) = l /\ CapFields \in Seq(FieldKinds)
    BY PayloadFields
  <2> HIDE DEF l
  <2>5. Repeat(CapFields, inner[4]) \in Seq(FieldKinds)
    BY <2>3, <2>4, RepeatFacts, Zenon
  <2> QED
    BY <2>3, <2>5
<1>InnerType.
    ASSUME NEW p \in Seq(Byte), HeadOf(p).ok
    PROVE  /\ HeadOf(p).n \in 0 .. Len(p) /\ IsRow(HelloFields, HeadOf(p).got)
           /\ Drop(p, HeadOf(p).n) \in Seq(Byte)
           /\ Len(Drop(p, HeadOf(p).n)) = Len(p) - HeadOf(p).n
           /\ HeadOf(p).got[4] \in Nat
           /\ Repeat(CapFields, HeadOf(p).got[4]) \in Seq(FieldKinds)
           /\ CapsOf(p) = Error \/ CapsOf(p).ok
           /\ CapsOf(p).ok =>
                /\ CapsOf(p).n \in 0 .. Len(p) - HeadOf(p).n
                /\ IsRow(Repeat(CapFields, HeadOf(p).got[4]), CapsOf(p).got)
                /\ InnerN(p) \in 0 .. Len(p)
                /\ Drop(p, InnerN(p)) \in Seq(Byte)
                /\ Len(Drop(p, InnerN(p))) = Len(p) - InnerN(p)
  <2> USE <1>InnerType
  <2> DEFINE h == HeadOf(p)
             q == Drop(p, h.n)
             ks == Repeat(CapFields, h.got[4])
             c == ReadFields(ks, q)
  <2>1. h.n \in 0 .. Len(p) /\ IsRow(HelloFields, h.got)
    BY PayloadFields, RowAccepted DEF HeadOf
  <2>2. q \in Seq(Byte) /\ Len(q) = Len(p) - h.n
    BY <2>1, DropFacts
  <2>3. ks \in Seq(FieldKinds) /\ h.got[4] \in Nat
    BY <2>1, <1>CapKinds
  <2>4. c = CapsOf(p)
    BY DEF CapsOf
  <2> HIDE DEF h, q, ks
  <2>5. c = Error \/ c.ok
    BY <2>2, <2>3, RowOr
  <2>6. ASSUME c.ok
        PROVE  c.n \in 0 .. Len(q) /\ IsRow(ks, c.got)
    BY <2>2, <2>3, <2>6, RowAccepted
  <2> HIDE DEF c
  <2>7. ASSUME c.ok
        PROVE  h.n + c.n \in 0 .. Len(p)
    <3>1. Len(p) \in Nat
      OBVIOUS
    <3> QED
      BY <2>1, <2>2, <2>6, <2>7, <3>1
  <2>8. ASSUME c.ok
        PROVE  Drop(p, h.n + c.n) \in Seq(Byte) /\ Len(Drop(p, h.n + c.n)) = Len(p) - (h.n + c.n)
    BY <2>7, <2>8, DropFacts
  <2>9. InnerN(p) = h.n + c.n
    BY <2>4, SMTT(30) DEF InnerN, h
  <2> QED
    BY <2>1, <2>2, <2>3, <2>4, <2>5, <2>6, <2>7, <2>8, <2>9, SMTT(30) DEF h, q, ks
(* DecodeHello by its three parts.                                          *)
<1>HelloCases.
    ASSUME NEW p \in Seq(Byte)
    PROVE  /\ InnerOk(p) /\ BlockOf(p).ok =>
                DecodeHello(p) = [ok |-> TRUE, value |-> [hello |-> HelloIn(p), block |-> BlockOf(p).got],
                                  inner |-> SubSeq(p, 1, InnerN(p))]
           /\ ~(InnerOk(p) /\ BlockOf(p).ok) => DecodeHello(p) = Error
  <2> DEFINE h == HeadOf(p)
             q == Drop(p, h.n)
             c == CapsOf(p)
  <2>1. ~h.ok => DecodeHello(p) = Error
    BY DEF DecodeHello, HeadOf
  <2>2. h.ok => DecodeHello(p) = WithCaps(h, q, p)
    BY DEF DecodeHello, HeadOf
  <2>3. ASSUME h.ok PROVE ReadFields(Rows(CapFields, h.got[4], q), q) = c
    <3> DEFINE l == 3
    <3>1. l \in {2, 3} /\ Len(CapFields) = l /\ CapFields \in Seq(FieldKinds)
      BY PayloadFields
    <3>2. h.got[4] \in Nat /\ q \in Seq(Byte)
      BY <2>3, <1>InnerType
    <3> HIDE DEF l, h, q
    <3>3. ReadFields(Rows(CapFields, h.got[4], q), q) = ReadFields(Repeat(CapFields, h.got[4]), q)
      BY <3>1, <3>2, RowsAre, Zenon
    <3> QED
      BY <3>3 DEF CapsOf, h, q
  <2>4. ASSUME h.ok PROVE WithCaps(h, q, p) = IF ~c.ok THEN Error ELSE WithBlock(h, c, q, p)
    BY <2>3, <2>4 DEF WithCaps
  <2>5. ASSUME h.ok, c.ok PROVE Drop(q, c.n) = Drop(p, InnerN(p))
    <3>1. h.n \in 0 .. Len(p) /\ c.n \in 0 .. Len(p) - h.n
      BY <2>5, <1>InnerType
    <3>2. Drop(q, c.n) = Drop(p, h.n + c.n)
      <4> HIDE DEF h, c
      <4> QED
        BY <3>1, DropDrop
    <3> QED
      BY <3>2 DEF InnerN
  <2>6. ASSUME h.ok, c.ok
        PROVE  WithBlock(h, c, q, p) = IF ~BlockOf(p).ok THEN Error
                  ELSE [ok |-> TRUE, value |-> [hello |-> HelloIn(p), block |-> BlockOf(p).got],
                        inner |-> SubSeq(p, 1, InnerN(p))]
    <3>1. ReadFields(BlockFields, Drop(q, c.n)) = BlockOf(p)
      BY <2>5, <2>6 DEF BlockOf
    <3>2. HelloIn(p) = [inner |-> h.got, caps |-> c.got] /\ InnerN(p) = h.n + c.n
      BY DEF HelloIn, InnerN
    <3> HIDE DEF h, c, q
    <3> QED
      BY <3>1, <3>2 DEF WithBlock
  <2>7. InnerOk(p) <=> h.ok /\ c.ok
    BY DEF InnerOk
  <2> HIDE DEF h, c, q
  <2> QED
    BY <2>1, <2>2, <2>4, <2>6, <2>7
(* The part before the block depends on its own bytes only.                 *)
<1>InnerLocal.
    ASSUME NEW a \in Seq(Byte), NEW b \in Seq(Byte), InnerOk(a), SameStart(a, b, InnerN(a))
    PROVE  InnerOk(b) /\ InnerN(b) = InnerN(a) /\ HelloIn(b) = HelloIn(a)
  <2> USE <1>InnerLocal
  <2> DEFINE h == HeadOf(a)
             c == CapsOf(a)
             ks == Repeat(CapFields, h.got[4])
  <2>1. h.ok /\ c.ok
    BY SMTT(30) DEF InnerOk
  <2>2. /\ h.n \in 0 .. Len(a) /\ c.n \in 0 .. Len(a) - h.n /\ ks \in Seq(FieldKinds)
        /\ Drop(a, h.n) \in Seq(Byte) /\ InnerN(a) = h.n + c.n
    BY <2>1, <1>InnerType, SMTT(30) DEF InnerN
  <2>3. SameStart(a, b, h.n) /\ h.n \in 0 .. Len(b) /\ SameStart(Drop(a, h.n), Drop(b, h.n), c.n)
    <3>1. SameStart(a, b, h.n + c.n)
      BY <2>2
    <3> HIDE DEF h, c
    <3> QED
      BY <2>2, <3>1, SameStartDrop, ZenonT(60)
  <2>4. HeadOf(b) = h
    BY <2>1, <2>3, PayloadFields, RowLocal DEF HeadOf
  <2>5. Drop(b, h.n) \in Seq(Byte)
    BY <2>3, DropFacts
  <2>6. c = ReadFields(ks, Drop(a, h.n))
    BY DEF CapsOf
  <2>7. ReadFields(ks, Drop(b, h.n)) = c
    <3> HIDE DEF h, c, ks
    <3> QED
      BY <2>1, <2>2, <2>3, <2>5, <2>6, RowLocal, SMTT(30)
  <2>8. CapsOf(b) = c
    BY <2>4, <2>7 DEF CapsOf
  <2> QED
    BY <2>1, <2>4, <2>8 DEF InnerOk, InnerN, HelloIn
(* What encodeHelloInner writes is read as it was.                          *)
<1>InnerInverse.
    ASSUME NEW h, IsInner(h), NEW rest \in Seq(Byte)
    PROVE  LET e == encodeHelloInner(h)
           IN  /\ e \in Seq(Byte) /\ InnerOk(e \o rest)
               /\ InnerN(e \o rest) = Len(e) /\ HelloIn(e \o rest) = h
  <2> USE <1>InnerInverse
  <2> DEFINE ks == Repeat(CapFields, h.inner[4])
             a == AppendFields(HelloFields, h.inner)
             b == AppendFields(ks, h.caps)
             t == b \o rest
  <2>1. IsRow(HelloFields, h.inner) /\ IsRow(ks, h.caps) /\ h = [inner |-> h.inner, caps |-> h.caps]
    BY DEF IsInner
  <2>2. ks \in Seq(FieldKinds)
    BY <2>1, <1>CapKinds
  <2>3. b \in Seq(Byte) /\ ReadFields(ks, b \o rest) = Got(h.caps, Len(b))
    <3> HIDE DEF ks
    <3> QED
      BY <2>1, <2>2, RowWritten
  <2> HIDE DEF ks, b
  <2>4. t \in Seq(Byte)
    BY <2>3, ConcatFacts
  <2> HIDE DEF t
  <2>5. a \in Seq(Byte) /\ ReadFields(HelloFields, a \o t) = Got(h.inner, Len(a))
    BY <2>1, <2>4, PayloadFields, RowWritten
  <2> HIDE DEF a
  <2>6. (a \o b) \o rest = a \o t /\ a \o b \in Seq(Byte) /\ Len(a \o b) = Len(a) + Len(b)
    <3>1. ASSUME NEW x \in Seq(Byte), NEW y \in Seq(Byte), NEW z \in Seq(Byte)
          PROVE  (x \o y) \o z = x \o (y \o z)
      BY ConcatAssociative, ZenonT(60)
    <3> QED
      BY <2>3, <2>5, <3>1, ConcatFacts DEF t
  <2>7. encodeHelloInner(h) = a \o b
    BY DEF encodeHelloInner, a, b, ks
  <2> DEFINE p == a \o t
  <2>8. HeadOf(p) = Got(h.inner, Len(a))
    BY <2>5 DEF HeadOf
  <2>9. Drop(p, Len(a)) = t
    BY <2>4, <2>5, ConcatParts
  <2> HIDE DEF p
  <2>10. HeadOf(p).ok /\ HeadOf(p).got = h.inner /\ HeadOf(p).n = Len(a)
    BY <2>8, GotParts
  <2>11. CapsOf(p) = Got(h.caps, Len(b))
    BY <2>3, <2>9, <2>10, Zenon DEF CapsOf, ks, t
  <2>12. CapsOf(p).ok /\ CapsOf(p).got = h.caps /\ CapsOf(p).n = Len(b)
    BY <2>11, GotParts
  <2>13. InnerOk(p) /\ InnerN(p) = Len(a) + Len(b) /\ HelloIn(p) = h
    BY <2>1, <2>10, <2>12 DEF InnerOk, InnerN, HelloIn
  <2> QED
    BY <2>6, <2>7, <2>13, Zenon DEF p
(* The bytes of an inner part, a block and anything behind it.              *)
<1>HelloRead.
    ASSUME NEW inner \in Seq(Byte), InnerOk(inner), InnerN(inner) = Len(inner),
           NEW block, IsRow(BlockFields, block), NEW rest \in Seq(Byte)
    PROVE  LET w == inner \o EncodeBlock(block)
           IN  /\ w \in Seq(Byte)
               /\ InnerN(w \o rest) + BlockOf(w \o rest).n = Len(w)
               /\ DecodeHello(w \o rest)
                    = [ok |-> TRUE, value |-> [hello |-> HelloIn(inner), block |-> block],
                       inner |-> inner]
  <2> USE <1>HelloRead
  <2> DEFINE e == EncodeBlock(block)
             t == e \o rest
             w == inner \o e
             p == inner \o t
  <2>1. e \in Seq(Byte) /\ ReadFields(BlockFields, e \o rest) = Got(block, Len(e))
    BY PayloadFields, <1>BlockIs, RowWritten
  <2> HIDE DEF e
  <2>2. t \in Seq(Byte) /\ w \in Seq(Byte) /\ Len(w) = Len(inner) + Len(e)
    BY <2>1, ConcatFacts
  <2>3. w \o rest = p
    <3>1. ASSUME NEW x \in Seq(Byte), NEW y \in Seq(Byte), NEW z \in Seq(Byte)
          PROVE  (x \o y) \o z = x \o (y \o z)
      BY ConcatAssociative, ZenonT(60)
    <3> QED
      BY <2>1, <3>1, Zenon
  <2> HIDE DEF t
  <2>4. p \in Seq(Byte) /\ Drop(p, Len(inner)) = t /\ SubSeq(p, 1, Len(inner)) = inner
    BY <2>2, ConcatFacts, ConcatParts
  <2>5. SameStart(inner, p, Len(inner))
    <3>1. Len(p) = Len(inner) + Len(t) /\ \A i \in 1 .. Len(inner) : p[i] = inner[i]
      BY <2>2, ConcatFacts
    <3>2. Len(inner) \in Nat /\ Len(t) \in Nat
      BY <2>2
    <3> HIDE DEF p
    <3> QED
      BY <3>1, <3>2 DEF SameStart
  <2> HIDE DEF p
  <2>6. InnerOk(p) /\ InnerN(p) = Len(inner) /\ HelloIn(p) = HelloIn(inner)
    BY <2>4, <2>5, <1>InnerLocal
  <2>7. BlockOf(p) = Got(block, Len(e))
    BY <2>1, <2>4, <2>6, Zenon DEF BlockOf, t
  <2>8. BlockOf(p).ok /\ BlockOf(p).got = block /\ BlockOf(p).n = Len(e)
    BY <2>7, GotParts
  <2>9. DecodeHello(p) = [ok |-> TRUE, value |-> [hello |-> HelloIn(inner), block |-> block],
                          inner |-> inner]
    BY <2>4, <2>6, <2>8, <1>HelloCases, Zenon
  <2> HIDE DEF w
  <2>10. w \in Seq(Byte) /\ InnerN(w \o rest) + BlockOf(w \o rest).n = Len(w)
    BY <2>2, <2>3, <2>6, <2>8
  <2>11. DecodeHello(w \o rest) = [ok |-> TRUE, value |-> [hello |-> HelloIn(inner), block |-> block],
                          inner |-> inner]
    BY <2>3, <2>9
  <2> QED
    BY <2>10, <2>11 DEF w, e
<1>HelloParts.
    ASSUME NEW v, IsHello(v)
    PROVE  /\ IsInner(v.hello) /\ IsRow(BlockFields, v.block)
           /\ v = [hello |-> v.hello, block |-> v.block]
  <2> USE <1>HelloParts
  <2> DEFINE h == v.hello
  <2>1. v = [hello |-> [inner |-> h.inner, caps |-> h.caps], block |-> v.block]
    BY DEF IsHello
  <2>2. ASSUME NEW x, NEW y, v = [hello |-> x, block |-> y] PROVE v.hello = x /\ v.block = y
    BY <2>2
  <2>3. h = [inner |-> h.inner, caps |-> h.caps]
    BY <2>1, <2>2
  <2>4. IsRow(HelloFields, h.inner) /\ IsRow(Repeat(CapFields, h.inner[4]), h.caps)
    BY DEF IsHello
  <2> QED
    BY <2>1, <2>3, <2>4 DEF IsInner, IsHello
<1>HelloExact.
    ASSUME NEW v, IsHello(v)
    PROVE  LET e == encodeHelloInner(v.hello)
           IN  e \in Seq(Byte) /\ InnerOk(e) /\ InnerN(e) = Len(e) /\ HelloIn(e) = v.hello
  <2> USE <1>HelloExact
  <2> DEFINE e == encodeHelloInner(v.hello)
  <2>1. IsInner(v.hello)
    BY <1>HelloParts
  <2>2. <<>> \in Seq(Byte)
    OBVIOUS
  <2>3. /\ e \in Seq(Byte) /\ InnerOk(e \o <<>>)
        /\ InnerN(e \o <<>>) = Len(e) /\ HelloIn(e \o <<>>) = v.hello
    BY <2>1, <2>2, <1>InnerInverse, Zenon
  <2> HIDE DEF e
  <2>4. e \o <<>> = e
    BY <2>3
  <2> QED
    BY <2>3, <2>4 DEF e
<1>HelloSent.
    ASSUME NEW v, IsHello(v), NEW rest \in Seq(Byte)
    PROVE  LET w == SignedHello(v.hello, v.block)
           IN  /\ w \in Seq(Byte)
               /\ InnerN(w \o rest) + BlockOf(w \o rest).n = Len(w)
               /\ DecodeHello(w \o rest)
                    = [ok |-> TRUE, value |-> v, inner |-> encodeHelloInner(v.hello)]
  <2> USE <1>HelloSent
  <2> DEFINE e == encodeHelloInner(v.hello)
  <2>1. e \in Seq(Byte) /\ InnerOk(e) /\ InnerN(e) = Len(e) /\ HelloIn(e) = v.hello
    BY <1>HelloExact
  <2>2. IsRow(BlockFields, v.block) /\ v = [hello |-> v.hello, block |-> v.block]
    BY <1>HelloParts
  <2>3. SignedHello(v.hello, v.block) = e \o EncodeBlock(v.block)
    BY DEF SignedHello
  <2> HIDE DEF e
  <2> DEFINE w == e \o EncodeBlock(v.block)
  <2>4. /\ w \in Seq(Byte) /\ InnerN(w \o rest) + BlockOf(w \o rest).n = Len(w)
        /\ DecodeHello(w \o rest) = [ok |-> TRUE, value |-> [hello |-> HelloIn(e), block |-> v.block],
                         inner |-> e]
    BY <2>1, <2>2, <1>HelloRead
  <2> HIDE DEF w
  <2>5. DecodeHello(w \o rest) = [ok |-> TRUE, value |-> v, inner |-> e]
    BY <2>1, <2>2, <2>4, Zenon
  <2> QED
    BY <2>3, <2>4, <2>5 DEF w, e
<1>HelloAccepted.
    ASSUME NEW p \in Seq(Byte), DecodeHello(p).ok
    PROVE  /\ InnerOk(p) /\ BlockOf(p).ok
           /\ DecodeHello(p).value = [hello |-> HelloIn(p), block |-> BlockOf(p).got]
           /\ DecodeHello(p).inner = SubSeq(p, 1, InnerN(p))
           /\ InnerN(p) \in 0 .. Len(p) /\ BlockOf(p).n \in 0 .. Len(p) - InnerN(p)
           /\ IsHello(DecodeHello(p).value)
  <2> USE <1>HelloAccepted
  <2> DEFINE d == DecodeHello(p)
             h == HeadOf(p)
             c == CapsOf(p)
             b == BlockOf(p)
  <2>1. InnerOk(p) /\ b.ok
    <3>1. ~Error.ok
      BY GotFields
    <3> QED
      BY <3>1, <1>HelloCases
  <2>2. d = [ok |-> TRUE, value |-> [hello |-> HelloIn(p), block |-> b.got],
             inner |-> SubSeq(p, 1, InnerN(p))]
    BY <2>1, <1>HelloCases
  <2>3. h.ok /\ c.ok
    BY <2>1, SMTT(30) DEF InnerOk
  <2>4. /\ IsRow(HelloFields, h.got) /\ IsRow(Repeat(CapFields, h.got[4]), c.got)
        /\ InnerN(p) \in 0 .. Len(p) /\ Drop(p, InnerN(p)) \in Seq(Byte)
        /\ Len(Drop(p, InnerN(p))) = Len(p) - InnerN(p)
    BY <2>3, <1>InnerType, SMTT(30)
  <2>5. IsRow(BlockFields, b.got) /\ b.n \in 0 .. Len(p) - InnerN(p)
    BY <2>1, <2>4, PayloadFields, RowAccepted DEF BlockOf
  <2>6. HelloIn(p) = [inner |-> h.got, caps |-> c.got]
    BY DEF HelloIn
  <2> HIDE DEF d, h, c, b
  <2>7. d.value = [hello |-> HelloIn(p), block |-> b.got] /\ d.inner = SubSeq(p, 1, InnerN(p))
    <3>1. ASSUME NEW x, NEW y, NEW z, x = [ok |-> TRUE, value |-> y, inner |-> z]
          PROVE  x.value = y /\ x.inner = z
      BY <3>1
    <3> QED
      BY <2>2, <3>1, Zenon
  <2>8. IsHello(d.value)
    <3>1. ASSUME NEW x, NEW i, NEW j, NEW k, x = [hello |-> [inner |-> i, caps |-> j], block |-> k],
                 IsRow(HelloFields, i), IsRow(Repeat(CapFields, i[4]), j), IsRow(BlockFields, k)
          PROVE  IsHello(x)
      <4>1. x.hello = [inner |-> i, caps |-> j] /\ x.block = k /\ x.hello.inner = i /\ x.hello.caps = j
        BY <3>1
      <4> QED
        BY <3>1, <4>1 DEF IsHello
    <3>2. d.value = [hello |-> [inner |-> h.got, caps |-> c.got], block |-> b.got]
      BY <2>6, <2>7
    <3> QED
      BY <2>4, <2>5, <3>1, <3>2
  <2> QED
    BY <2>1, <2>4, <2>5, <2>7, <2>8 DEF d, b
(* What is decoded depends on the bytes that were read only.                *)
<1>HelloLocal.
    ASSUME NEW a \in Seq(Byte), NEW b \in Seq(Byte), DecodeHello(a).ok,
           SameStart(a, b, InnerN(a) + BlockOf(a).n)
    PROVE  InnerN(b) + BlockOf(b).n = InnerN(a) + BlockOf(a).n
  <2> USE <1>HelloLocal
  <2> DEFINE i == InnerN(a)
             n == BlockOf(a).n
  <2>1. /\ InnerOk(a) /\ BlockOf(a).ok /\ i \in 0 .. Len(a) /\ n \in 0 .. Len(a) - i
    BY <1>HelloAccepted, Zenon
  <2>2. SameStart(a, b, i) /\ i \in 0 .. Len(b) /\ SameStart(Drop(a, i), Drop(b, i), n)
    <3> HIDE DEF i, n
    <3> QED
      BY <2>1, SameStartDrop DEF i, n
  <2>3. InnerN(b) = i
    BY <2>1, <2>2, <1>InnerLocal
  <2>4. Drop(a, i) \in Seq(Byte) /\ Drop(b, i) \in Seq(Byte)
    BY <2>1, <2>2, DropFacts
  <2>5. ReadFields(BlockFields, Drop(b, i)) = ReadFields(BlockFields, Drop(a, i))
    <3>1. ReadFields(BlockFields, Drop(a, i)) = BlockOf(a)
      BY DEF BlockOf
    <3> HIDE DEF i
    <3> QED
      BY <2>1, <2>2, <2>4, <3>1, PayloadFields, RowLocal
  <2> QED
    BY <2>3, <2>5 DEF BlockOf
(* A HELLO that is cut is refused; one with a byte more is read as it was.  *)
<1>HelloDamaged.
    ASSUME NEW v, IsHello(v)
    PROVE  LET w == SignedHello(v.hello, v.block)
           IN  /\ \A n \in 0 .. Len(w) - 1 : ~DecodeHello(SubSeq(w, 1, n)).ok
               /\ \A b \in Byte : DecodeHello(Append(w, b)).value = v
  <2> USE <1>HelloDamaged
  <2> DEFINE w == SignedHello(v.hello, v.block)
  <2>1. w \in Seq(Byte) /\ InnerN(w) + BlockOf(w).n = Len(w)
    <3>1. <<>> \in Seq(Byte)
      OBVIOUS
    <3>2. w \in Seq(Byte) /\ InnerN(w \o <<>>) + BlockOf(w \o <<>>).n = Len(w)
      BY <3>1, <1>HelloSent, Zenon
    <3> HIDE DEF w
    <3>3. w \o <<>> = w
      BY <3>2
    <3> QED
      BY <3>2, <3>3
  <2>2. ASSUME NEW rest \in Seq(Byte) PROVE DecodeHello(w \o rest).value = v
    <3>1. DecodeHello(w \o rest) = [ok |-> TRUE, value |-> v, inner |-> encodeHelloInner(v.hello)]
      BY <1>HelloSent
    <3> QED
      BY <3>1
  <2> HIDE DEF w
  <2>3. ASSUME NEW n \in 0 .. Len(w) - 1, DecodeHello(SubSeq(w, 1, n)).ok PROVE FALSE
    <3> DEFINE c == SubSeq(w, 1, n)
               m == InnerN(c) + BlockOf(c).n
    <3>1. c \in Seq(Byte) /\ Len(c) = n /\ n \in Nat /\ n < Len(w) /\ \A k \in 0 .. n : SameStart(c, w, k)
      BY <2>1, CutBytes
    <3>2. DecodeHello(c).ok
      BY <2>3
    <3> HIDE DEF c
    <3>3. InnerN(c) \in 0 .. n /\ BlockOf(c).n \in 0 .. n - InnerN(c)
      BY <3>1, <3>2, <1>HelloAccepted, Zenon
    <3>4. m \in 0 .. n
      BY <3>1, <3>3
    <3>5. SameStart(c, w, m)
      BY <3>1, <3>4
    <3>6. Len(w) = m
      BY <2>1, <3>1, <3>2, <3>5, <1>HelloLocal
    <3> HIDE DEF m
    <3> QED
      BY <3>1, <3>4, <3>6
  <2>4. ASSUME NEW b \in Byte PROVE DecodeHello(Append(w, b)).value = v
    BY <2>1, <2>2, LongerBytes, Zenon
  <2> QED
    BY <2>3, <2>4 DEF w
<1>Cancel.
    ASSUME NEW a \in Seq(Byte), NEW x \in Seq(Byte), NEW y \in Seq(Byte), a \o x = a \o y
    PROVE  x = y
  <2> USE <1>Cancel
  <2>1. Drop(a \o x, Len(a)) = x /\ Drop(a \o y, Len(a)) = y
    BY ConcatParts, Zenon
  <2> QED
    BY <2>1
(* What a receiver read, behind any block: the part before the block stays  *)
(* as it is.                                                                *)
<1>InnerKept.
    ASSUME NEW p \in Seq(Byte), InnerOk(p)
    PROVE  LET i == SubSeq(p, 1, InnerN(p))
           IN  i \in Seq(Byte) /\ InnerOk(i) /\ InnerN(i) = Len(i) /\ HelloIn(i) = HelloIn(p)
  <2> USE <1>InnerKept
  <2> DEFINE n == InnerN(p)
             i == SubSeq(p, 1, n)
  <2>1. n \in 0 .. Len(p)
    BY <1>InnerType DEF InnerOk
  <2>2. i \in Seq(Byte) /\ Len(i) = n /\ \A k \in 1 .. n : i[k] = p[k]
    <3> HIDE DEF n
    <3> QED
      BY <2>1, PrefixFacts
  <2>3. SameStart(p, i, n)
    <3> HIDE DEF i, n
    <3>1. n <= Len(i)
      BY <2>1, <2>2
    <3> QED
      BY <2>1, <2>2, <3>1 DEF SameStart
  <2> HIDE DEF i
  <2>4. InnerOk(i) /\ InnerN(i) = n /\ HelloIn(i) = HelloIn(p)
    BY <2>2, <2>3, <1>InnerLocal
  <2> QED
    BY <2>2, <2>4, ZenonT(60) DEF i
<1>CatFacts.
    /\ \A a, b \in Seq(Byte) : Cat(a, b) \in Seq(Byte)
    /\ \A a, b, c \in Seq(Byte) : Cat(Cat(a, b), c) = Cat(a, Cat(b, c))
    /\ \A a, b, c \in Seq(Byte) : Cat(a, b) = Cat(a, c) => b = c
  <2>1. \A a, b \in Seq(Byte) : Cat(a, b) \in Seq(Byte)
    BY ConcatFacts DEF Cat
  <2>2. \A a, b, c \in Seq(Byte) : Cat(Cat(a, b), c) = Cat(a, Cat(b, c))
    <3> TAKE a, b, c \in Seq(Byte)
    <3> QED
      BY ConcatAssociative, SMTT(30) DEF Cat
  <2>3. \A a, b, c \in Seq(Byte) : Cat(a, b) = Cat(a, c) => b = c
    BY <1>Cancel, Zenon DEF Cat
  <2> QED
    BY <2>1, <2>2, <2>3
<1>CancelHead.
    ASSUME NEW h \in Seq(Byte), NEW i \in Seq(Byte), NEW j \in Seq(Byte), NEW m \in Seq(Byte),
           NEW n \in Seq(Byte), NEW s \in Seq(Byte), Cat(Cat(h, i), m) = Cat(Cat(h, j), n)
    PROVE  Cat(i, Cat(m, s)) = Cat(j, Cat(n, s))
  <2> USE <1>CancelHead
  <2>1. Cat(h, Cat(i, m)) = Cat(h, Cat(j, n))
    BY <1>CatFacts
  <2>2. Cat(i, m) = Cat(j, n)
    BY <2>1, <1>CatFacts
  <2> QED
    BY <2>2, <1>CatFacts
(* What the signature covers, and the signature, are all of a HELLO.        *)
<1>SignedIsAll.
    ASSUME NEW i \in Seq(Byte), NEW j \in Seq(Byte), NEW b, NEW c,
           IsRow(BlockFields, b), IsRow(BlockFields, c), b[5] = c[5],
           signedMessageBytes(FrameHello, i, b) = signedMessageBytes(FrameHello, j, c)
    PROVE  Cat(i, EncodeBlock(b)) = Cat(j, EncodeBlock(c))
  <2> USE <1>SignedIsAll
  <2> DEFINE h == Separator \o <<FrameHello>>
             m == metaBytes(b)
             n == metaBytes(c)
             s == FieldBytes("string", b[5])
  <2>1. h \in Seq(Byte)
    <3>1. Separator \in Seq(Byte)
      BY PayloadAssumption
    <3>2. <<FrameHello>> \in Seq(Byte)
      <4>1. 1 \in Byte
        BY BaseIsPositive DEF Byte
      <4> QED
        BY <4>1 DEF FrameHello
    <3> QED
      BY <3>1, <3>2, ConcatFacts
  <2>2. m \in Seq(Byte) /\ n \in Seq(Byte) /\ s \in Seq(Byte)
    BY <1>BlockIs
  <2>3. EncodeBlock(b) = Cat(m, s) /\ EncodeBlock(c) = Cat(n, s)
    BY <1>BlockIs, Zenon DEF Cat
  <2>4. /\ signedMessageBytes(FrameHello, i, b) = Cat(Cat(h, i), m)
        /\ signedMessageBytes(FrameHello, j, c) = Cat(Cat(h, j), n)
    BY DEF signedMessageBytes, Cat
  <2> HIDE DEF h, m, n, s
  <2>5. Cat(Cat(h, i), m) = Cat(Cat(h, j), n)
    BY <2>4, Zenon
  <2>6. Cat(i, Cat(m, s)) = Cat(j, Cat(n, s))
    BY <2>1, <2>2, <2>5, <1>CancelHead, SMTT(30)
  <2> QED
    BY <2>3, <2>6
<1>SignedFixes.
    ASSUME NEW v, IsHello(v), NEW p \in Seq(Byte), DecodeHello(p).ok,
           DecodeHello(p).value.block[5] = v.block[5],
           signedMessageBytes(FrameHello, DecodeHello(p).inner, DecodeHello(p).value.block)
             = signedMessageBytes(FrameHello, encodeHelloInner(v.hello), v.block)
    PROVE  DecodeHello(p).value = v
  <2> USE <1>SignedFixes
  <2> DEFINE d == DecodeHello(p)
             i == d.inner
             b == d.value.block
             j == encodeHelloInner(v.hello)
             w == j \o EncodeBlock(v.block)
  <2>1. /\ InnerOk(p) /\ i = SubSeq(p, 1, InnerN(p)) /\ IsHello(d.value)
        /\ d.value = [hello |-> HelloIn(p), block |-> BlockOf(p).got]
    BY <1>HelloAccepted, ZenonT(60)
  <2>2. i \in Seq(Byte) /\ InnerOk(i) /\ InnerN(i) = Len(i) /\ HelloIn(i) = HelloIn(p)
    BY <2>1, <1>InnerKept, SMTT(30)
  <2>3. j \in Seq(Byte)
    BY <1>HelloExact
  <2>4. IsRow(BlockFields, b) /\ IsRow(BlockFields, v.block) /\ d.value = [hello |-> d.value.hello, block |-> b]
    BY <2>1, <1>HelloParts
  <2>5. i \o EncodeBlock(b) = w
    <3>1. /\ b[5] = v.block[5]
          /\ signedMessageBytes(FrameHello, i, b) = signedMessageBytes(FrameHello, j, v.block)
      BY ZenonT(60)
    <3> HIDE DEF i, b, j
    <3>2. Cat(i, EncodeBlock(b)) = Cat(j, EncodeBlock(v.block))
      BY <2>2, <2>3, <2>4, <3>1, <1>SignedIsAll
    <3> QED
      BY <3>2 DEF Cat
  <2>6. d.value.hello = HelloIn(p)
    <3>1. ASSUME NEW x, NEW y, NEW z, x = [hello |-> y, block |-> z] PROVE x.hello = y
      BY <3>1
    <3> QED
      BY <2>1, <3>1, ZenonT(60)
  <2>7. <<>> \in Seq(Byte)
    OBVIOUS
  <2>8. DecodeHello(w \o <<>>) = [ok |-> TRUE, value |-> [hello |-> HelloIn(i), block |-> b], inner |-> i]
    <3> HIDE DEF i, b, w
    <3> QED
      BY <2>2, <2>4, <2>5, <2>7, <1>HelloRead, Zenon
  <2>9. DecodeHello(w \o <<>>) = [ok |-> TRUE, value |-> v, inner |-> j]
    BY <2>7, <1>HelloSent, ZenonT(60) DEF SignedHello
  <2> HIDE DEF d, i, b, j, w
  <2>10. v = [hello |-> HelloIn(i), block |-> b]
    <3>1. ASSUME NEW x, NEW y, NEW z, NEW y2, NEW z2, x = [ok |-> TRUE, value |-> y, inner |-> z],
                 x = [ok |-> TRUE, value |-> y2, inner |-> z2]
          PROVE  y = y2
      BY <3>1
    <3> QED
      BY <2>8, <2>9, <3>1, SMTT(30)
  <2>11. d.value = v
    BY <2>2, <2>4, <2>6, <2>10, Zenon
  <2> QED
    BY <2>11, Zenon DEF d
<1> QED
  BY <1>HelloSent, <1>HelloAccepted, <1>HelloDamaged, <1>SignedFixes

-----------------------------------------------------------------------------
(* A list of IDs without repetition.                                        *)
Lists(s, D) ==
    /\ s \in Seq(1 .. 4)
    /\ \A i \in 1 .. Len(s) : s[i] \in D
    /\ \A d \in D : \E i \in 1 .. Len(s) : s[i] = d
    /\ \A i, j \in 1 .. Len(s) : s[i] = s[j] => i = j

WithID(s, id, X) == s \o (IF id \in X THEN <<id>> ELSE <<>>)

IsBudget(b) ==
    /\ b = [id \in DOMAIN b |-> b[id]]
    /\ DOMAIN b # {} /\ DOMAIN b \subseteq BudgetFields
    /\ \A id \in DOMAIN b : b[id] \in BudgetValues(id)

EntryKinds(n) == Repeat(EntryFields, n)

EntriesOf(got) ==
    [i \in 1 .. Len(got) \div 2 |-> [id |-> got[2 * i - 1][1], bytes |-> got[2 * i]]]

CountOf(p) == ReadVarint(p)

EntriesIn(p) == ReadFields(EntryKinds(CountOf(p).value), Drop(p, CountOf(p).n))

(* The bytes are a count and that many entries.                             *)
IsCounted(p) ==
    /\ CountOf(p).err = "nil" /\ CountOf(p).value # 0
    /\ EntriesIn(p).ok /\ EntriesIn(p).n = Len(p) - CountOf(p).n

NoDuplicates(e) == ~\E i, j \in DOMAIN e : i # j /\ e[i].id = e[j].id

AllValid(e) == \A i \in DOMAIN e : ValidBudgetField(e[i].id, e[i].bytes)

IDsOf(e) == {e[i].id : i \in DOMAIN e}

EntryOf(e, id) == CHOOSE i \in DOMAIN e : e[i].id = id

EntriesAre(e, ids, b) ==
    /\ DOMAIN e = 1 .. Len(ids)
    /\ \A i \in 1 .. Len(ids) : /\ e[i].id = ids[i]
                                /\ e[i].bytes = EncodeBudgetField(ids[i], b[ids[i]])

(* BUDGET: it is read as it was sent, what is accepted can be sent unless it *)
(* has no known field, and a byte more or less is noticed.                  *)
LEMMA BudgetCodec ==
    ASSUME NatIsWellOrdered
    PROVE  /\ \A b :
                  IsBudget(b)
                  => /\ EncodeBudget(b) \in Seq(Byte) /\ IsCounted(EncodeBudget(b))
                     /\ DecodeBudget(EncodeBudget(b)) = [ok |-> TRUE, value |-> b]
           /\ \A p \in Seq(Byte) :
                  DecodeBudget(p).ok /\ DOMAIN DecodeBudget(p).value # {}
                  => IsBudget(DecodeBudget(p).value)
           /\ \A b :
                  IsBudget(b)
                  => LET w == EncodeBudget(b)
                     IN  /\ \A n \in 0 .. Len(w) - 1 : ~DecodeBudget(SubSeq(w, 1, n)).ok
                         /\ \A x \in Byte : ~DecodeBudget(Append(w, x)).ok
           
(* A varint, a word or a currency fits into a string.                       *)
<1>EightIsShort. 8 <= MaxVarint
  <2>1. Q \in Nat /\ Q >= 2 /\ Base = 4 * Q /\ Base >= 8 /\ Base \in Nat
    BY BaseIsPositive, PayloadAssumption
  <2>2. ASSUME NEW k \in 1 .. 7 PROVE Place[k] = Base * Place[k - 1] /\ Place[k - 1] \in Nat \ {0}
    <3>1. k \in 0 .. 7 /\ k - 1 \in 0 .. 7 /\ k # 0
      OBVIOUS
    <3> QED
      BY <3>1, Places
  <2>3. ASSUME NEW x \in Nat, NEW b \in Nat, b >= 8, x >= 1 PROVE b * x \in Nat /\ b * x >= x /\ b * x >= 8
    BY <2>3
  <2>4. Place[1] >= 8 /\ Place[1] \in Nat
    <3>1. 1 \in 1 .. 7 /\ 1 - 1 = 0
      OBVIOUS
    <3> QED
      BY <2>1, <2>2, <2>3, <3>1
  <2>5. ASSUME NEW k \in 2 .. 7, Place[k - 1] \in Nat, Place[k - 1] >= 8
        PROVE  Place[k] \in Nat /\ Place[k] >= 8
    <3>1. k \in 1 .. 7
      OBVIOUS
    <3>2. Place[k] = Base * Place[k - 1]
      BY <2>2, <3>1
    <3>3. Place[k - 1] >= 1
      BY <2>5
    <3> QED
      BY <2>1, <2>3, <2>5, <3>2, <3>3
  <2>6. Place[2] \in Nat /\ Place[2] >= 8
    BY <2>4, <2>5
  <2>7. Place[3] \in Nat /\ Place[3] >= 8
    BY <2>6, <2>5
  <2>8. Place[4] \in Nat /\ Place[4] >= 8
    BY <2>7, <2>5
  <2>9. Place[5] \in Nat /\ Place[5] >= 8
    BY <2>8, <2>5
  <2>10. Place[6] \in Nat /\ Place[6] >= 8
    BY <2>9, <2>5
  <2>11. Place[7] \in Nat /\ Place[7] >= 8
    BY <2>10, <2>5
  <2>12. Limit(3) = Q * Place[7]
    <3>1. Sizes[3 + 1] - 1 = 7
      BY DEF Sizes
    <3> QED
      BY <3>1 DEF Limit
  <2>13. ASSUME NEW x \in Nat, NEW q \in Nat, q >= 2, x >= 8 PROVE q * x >= 16
    BY <2>13
  <2> QED
    BY <2>1, <2>11, <2>12, <2>13, MaxVarintIsNat
<1>ModulusIsPositive. Modulus \in Nat \ {0} /\ WordLen - 1 \in 0 .. 7
  <2>1. WordLen - 1 \in 0 .. 7
    BY PayloadAssumption
  <2>2. Place[WordLen - 1] \in Nat \ {0}
    BY <2>1, Places
  <2>3. ASSUME NEW x \in Nat \ {0}, NEW b \in Nat \ {0} PROVE b * x \in Nat \ {0}
    BY <2>3
  <2> QED
    BY <2>1, <2>2, <2>3, BaseIsPositive DEF Modulus
(* Two's complement, by its modulus.                                        *)
<1>Complement.
    ASSUME NEW m \in Nat \ {0}, NEW v \in Int, -m <= 2 * v, 2 * v < m
    PROVE  /\ v % m \in Nat /\ v % m < m
           /\ v >= 0 => v % m = v
           /\ v < 0 => v % m = v + m
  <2> USE <1>Complement
  <2>1. v % m \in 0 .. m - 1 /\ v \div m \in Int /\ v = m * (v \div m) + (v % m)
    OBVIOUS
  <2>2. ASSUME NEW q \in Int, NEW r \in 0 .. m - 1, v = m * q + r
        PROVE  (v >= 0 => r = v) /\ (v < 0 => r = v + m)
    <3>1. CASE q = 0
      BY <2>2, <3>1
    <3>2. CASE q = -1
      BY <2>2, <3>2
    <3>3. CASE q >= 1
      <4>1. m * q >= m
        BY <3>3
      <4> QED
        BY <2>2, <4>1
    <3>4. CASE q <= -2
      <4>1. m * q <= -2 * m
        BY <3>4
      <4> QED
        BY <2>2, <4>1
    <3> QED
      BY <3>1, <3>2, <3>3, <3>4
  <2>3. (v >= 0 => v % m = v) /\ (v < 0 => v % m = v + m)
    <3> DEFINE q == v \div m
               r == v % m
    <3>1. q \in Int /\ r \in 0 .. m - 1 /\ v = m * q + r
      BY <2>1
    <3> HIDE DEF q, r
    <3>2. (v >= 0 => r = v) /\ (v < 0 => r = v + m)
      BY <2>2, <3>1
    <3> QED
      BY <3>2 DEF r
  <2>4. v % m \in Nat /\ v % m < m
    <3> DEFINE r == v % m
    <3>1. r \in 0 .. m - 1
      BY <2>1
    <3> HIDE DEF r
    <3>2. r \in Nat /\ r < m
      BY <3>1
    <3> QED
      BY <3>2 DEF r
  <2> QED
    BY <2>3, <2>4
<1>WordInverse.
    ASSUME NEW v \in Int, -Modulus <= 2 * v, 2 * v < Modulus
    PROVE  /\ EncodeWord(v) \in Seq(Byte) /\ Len(EncodeWord(v)) = WordLen
           /\ DecodeWord(EncodeWord(v)) = v
  <2> USE <1>WordInverse
  <2> DEFINE m == Modulus
             u == v % m
             b == BigEndian(u, WordLen)
  <2>1. m \in Nat \ {0} /\ WordLen \in 1 .. 8
    BY <1>ModulusIsPositive, PayloadAssumption
  <2>2. u \in Nat /\ u < m /\ (v >= 0 => u = v) /\ (v < 0 => u = v + m)
    <3> HIDE DEF m
    <3> QED
      BY <2>1, <1>Complement DEF m
  <2>3. EncodeWord(v) = b
    BY DEF EncodeWord
  <2> HIDE DEF u
  <2>4. b \in Seq(Byte) /\ Len(b) = WordLen /\ Value(b) = u
    <3>1. u < Base * Place[WordLen - 1]
      BY <2>2 DEF Modulus
    <3> QED
      BY <2>1, <2>2, <3>1, DigitsOf, Zenon
  <2> HIDE DEF b
  <2>5. DecodeWord(b) = IF 2 * u >= m THEN u - m ELSE u
    BY <2>4 DEF DecodeWord
  <2>6. (IF 2 * u >= m THEN u - m ELSE u) = v
    <3> HIDE DEF m
    <3>1. -m <= 2 * v /\ 2 * v < m
      BY DEF m
    <3> QED
      BY <2>1, <2>2, <3>1
  <2> QED
    BY <2>3, <2>4, <2>5, <2>6
<1>WordBounded.
    ASSUME NEW bytes \in Seq(Byte), Len(bytes) = WordLen
    PROVE  DecodeWord(bytes) \in Int /\ -Modulus <= 2 * DecodeWord(bytes) /\ 2 * DecodeWord(bytes) < Modulus
  <2> USE <1>WordBounded
  <2> DEFINE m == Modulus
             x == Value(bytes)
  <2>1. m \in Nat \ {0} /\ WordLen \in 1 .. 8
    BY <1>ModulusIsPositive, PayloadAssumption
  <2>2. x \in Nat /\ x < m
    <3>1. bytes[1] \in Byte
      <4>1. 1 \in 1 .. Len(bytes)
        BY <2>1
      <4> QED
        BY <4>1
    <3>2. bytes[1] < Base /\ Base \in Nat
      BY <3>1, BaseIsPositive DEF Byte
    <3> QED
      BY <2>1, <3>2, ValueBound, Zenon DEF Modulus
  <2>3. DecodeWord(bytes) = IF 2 * x >= m THEN x - m ELSE x
    BY DEF DecodeWord
  <2> HIDE DEF m, x
  <2>4. ASSUME NEW d, d = IF 2 * x >= m THEN x - m ELSE x PROVE d \in Int /\ -m <= 2 * d /\ 2 * d < m
    BY <2>1, <2>2, <2>4
  <2> QED
    BY <2>3, <2>4 DEF m
(* The bytes of one field of a budget.                                      *)
<1>BudgetFieldIs.
    ASSUME NEW v, NEW bytes
    PROVE  /\ \A id \in {1, 2} : /\ EncodeBudgetField(id, v) = <<>> \o Varint(v)
                                 /\ ValidBudgetField(id, bytes) <=> ReadVarint(bytes).err = "nil"
                                 /\ DecodeBudgetField(id, bytes) = ReadVarint(bytes).value
                                 /\ BudgetValues(id) = 0 .. MaxVarint
           /\ EncodeBudgetField(3, v) = v
           /\ ValidBudgetField(3, bytes) <=> Len(bytes) = CurrencyLen
           /\ DecodeBudgetField(3, bytes) = bytes
           /\ BudgetValues(3) = {s \in Seq(Byte) : Len(s) = CurrencyLen}
           /\ EncodeBudgetField(4, v) = EncodeWord(v)
           /\ ValidBudgetField(4, bytes) <=> Len(bytes) = WordLen
           /\ DecodeBudgetField(4, bytes) = DecodeWord(bytes)
           /\ BudgetValues(4) = {d \in Int : -Modulus <= 2 * d /\ 2 * d < Modulus}
  <2>1. ASSUME NEW id \in {1, 2}
        PROVE  /\ EncodeBudgetField(id, v) = <<>> \o Varint(v)
               /\ ValidBudgetField(id, bytes) <=> ReadVarint(bytes).err = "nil"
               /\ DecodeBudgetField(id, bytes) = ReadVarint(bytes).value
               /\ BudgetValues(id) = 0 .. MaxVarint
    <3>1. id # Currency /\ id # DeadlineMS /\ id \in {TokensRemaining, CostMicrounitsRemaining}
      BY DEF Currency, DeadlineMS, TokensRemaining, CostMicrounitsRemaining
    <3>2. EncodeBudgetField(id, v) = AppendVarint(<<>>, v)
      BY <3>1 DEF EncodeBudgetField
    <3>3. AppendVarint(<<>>, v) = <<>> \o Varint(v)
      BY AppendsVarint, Zenon
    <3>4. ValidBudgetField(id, bytes) <=> ReadVarint(bytes).err = "nil"
      BY <3>1, Zenon DEF ValidBudgetField
    <3>5. DecodeBudgetField(id, bytes) = ReadVarint(bytes).value
      BY <3>1, Zenon DEF DecodeBudgetField
    <3>6. BudgetValues(id) = 0 .. MaxVarint
      BY <3>1, Zenon DEF BudgetValues
    <3> HIDE DEF Varint
    <3> QED
      BY <3>2, <3>3, <3>4, <3>5, <3>6, Zenon
  <2>2. 3 = Currency /\ 3 # DeadlineMS /\ 3 \notin {TokensRemaining, CostMicrounitsRemaining}
    BY DEF Currency, DeadlineMS, TokensRemaining, CostMicrounitsRemaining
  <2>3. 4 # Currency /\ 4 = DeadlineMS /\ 4 \notin {TokensRemaining, CostMicrounitsRemaining}
    BY DEF Currency, DeadlineMS, TokensRemaining, CostMicrounitsRemaining
  <2>4. EncodeBudgetField(3, v) = v /\ DecodeBudgetField(3, bytes) = bytes
    BY <2>2 DEF EncodeBudgetField, DecodeBudgetField
  <2>5. ValidBudgetField(3, bytes) <=> Len(bytes) = CurrencyLen
    BY <2>2 DEF ValidBudgetField
  <2>6. BudgetValues(3) = {s \in Seq(Byte) : Len(s) = CurrencyLen}
    BY <2>2 DEF BudgetValues
  <2>7. EncodeBudgetField(4, v) = EncodeWord(v) /\ DecodeBudgetField(4, bytes) = DecodeWord(bytes)
    BY <2>3 DEF EncodeBudgetField, DecodeBudgetField
  <2>8. ValidBudgetField(4, bytes) <=> Len(bytes) = WordLen
    BY <2>3 DEF ValidBudgetField
  <2>9. BudgetValues(4) = {d \in Int : -Modulus <= 2 * d /\ 2 * d < Modulus}
    BY <2>3 DEF BudgetValues
  <2> QED
    BY <2>1, <2>4, <2>5, <2>6, <2>7, <2>8, <2>9, Zenon
<1>BudgetIDs. BudgetFields = 1 .. 4 /\ \A id \in 1 .. 4 : id \in {1, 2} \/ id = 3 \/ id = 4
  BY DEF BudgetFields, TokensRemaining, DeadlineMS
<1>BudgetFieldInverse.
    ASSUME NEW id \in 1 .. 4, NEW v \in BudgetValues(id)
    PROVE  LET bytes == EncodeBudgetField(id, v)
           IN  /\ bytes \in FieldValues("string") /\ ValidBudgetField(id, bytes)
               /\ DecodeBudgetField(id, bytes) = v
  <2> DEFINE bytes == EncodeBudgetField(id, v)
  <2>1. CASE id \in {1, 2}
    <3>1. v \in 0 .. MaxVarint /\ bytes = <<>> \o Varint(v)
      BY <2>1, <1>BudgetFieldIs, Zenon
    <3>2. /\ Varint(v) \in Seq(Byte) /\ Len(Varint(v)) \in 1 .. 8
          /\ ReadVarint(Varint(v) \o <<>>).err = "nil" /\ ReadVarint(Varint(v) \o <<>>).value = v
      <4>1. <<>> \in Seq(Byte)
        OBVIOUS
      <4> QED
        BY <3>1, <4>1, VarintInverse, Zenon
    <3>3. Varint(v) \o <<>> = Varint(v) /\ <<>> \o Varint(v) = Varint(v)
      <4> DEFINE w == Varint(v)
      <4>1. w \in Seq(Byte)
        BY <3>2
      <4> HIDE DEF w
      <4>2. w \o <<>> = w /\ <<>> \o w = w
        BY <4>1
      <4> QED
        BY <4>2 DEF w
    <3>4. bytes = Varint(v)
      BY <3>1, <3>3
    <3> HIDE DEF bytes
    <3>5. ReadVarint(bytes).err = "nil" /\ ReadVarint(bytes).value = v
      BY <3>2, <3>3, <3>4
    <3>6. bytes \in Seq(Byte) /\ Len(bytes) \in 1 .. 8
      BY <3>2, <3>4
    <3>7. Len(bytes) <= MaxVarint
      <4>1. \A n \in 1 .. 8 : n <= MaxVarint
        BY <1>EightIsShort, MaxVarintIsNat
      <4> QED
        BY <3>6, <4>1, Zenon
    <3> QED
      BY <2>1, <3>5, <3>6, <3>7, <1>BudgetFieldIs, FieldValuesAre, ZenonT(60) DEF bytes
  <2>2. CASE id = 3
    <3>1. v \in Seq(Byte) /\ Len(v) = CurrencyLen /\ bytes = v
      BY <2>2, <1>BudgetFieldIs, Zenon
    <3>2. Len(v) <= MaxVarint
      BY <3>1, PayloadAssumption, MaxVarintIsNat
    <3> QED
      BY <2>2, <3>1, <3>2, <1>BudgetFieldIs, FieldValuesAre, Zenon
  <2>3. CASE id = 4
    <3>1. v \in Int /\ -Modulus <= 2 * v /\ 2 * v < Modulus /\ bytes = EncodeWord(v)
      BY <2>3, <1>BudgetFieldIs, Zenon
    <3>2. bytes \in Seq(Byte) /\ Len(bytes) = WordLen /\ DecodeWord(bytes) = v
      BY <3>1, <1>WordInverse
    <3>3. Len(bytes) <= MaxVarint
      BY <3>2, <1>EightIsShort, MaxVarintIsNat, PayloadAssumption, SMTT(30)
    <3> HIDE DEF bytes
    <3> QED
      BY <2>3, <3>2, <3>3, <1>BudgetFieldIs, FieldValuesAre, Zenon DEF bytes
  <2> QED
    BY <2>1, <2>2, <2>3, <1>BudgetIDs, Zenon
<1>BudgetFieldBounded.
    ASSUME NEW id \in 1 .. 4, NEW bytes \in Seq(Byte), ValidBudgetField(id, bytes)
    PROVE  DecodeBudgetField(id, bytes) \in BudgetValues(id)
  <2> USE <1>BudgetFieldBounded
  <2>1. CASE id \in {1, 2}
    <3>1. ReadVarint(bytes).err = "nil"
      BY <2>1, <1>BudgetFieldIs
    <3>2. ReadVarint(bytes).value \in 0 .. MaxVarint
      BY <3>1, VarintBounded
    <3> QED
      BY <2>1, <3>2, <1>BudgetFieldIs, Zenon
  <2>2. CASE id = 3
    BY <2>2, <1>BudgetFieldIs, Zenon
  <2>3. CASE id = 4
    <3>1. Len(bytes) = WordLen
      BY <2>3, <1>BudgetFieldIs, Zenon
    <3>2. DecodeWord(bytes) \in {d \in Int : -Modulus <= 2 * d /\ 2 * d < Modulus}
      BY <3>1, <1>WordBounded
    <3> QED
      BY <2>3, <3>2, <1>BudgetFieldIs, Zenon
  <2> QED
    BY <2>1, <2>2, <2>3, <1>BudgetIDs
<1>ListsMore.
    ASSUME NEW s, NEW D, Lists(s, D), NEW id \in 1 .. 4, id \notin D, NEW X
    PROVE  LET u == WithID(s, id, X)
           IN  Lists(u, D \cup ({id} \cap X)) /\ Len(u) <= Len(s) + 1 /\ Len(u) \in Nat
  <2> USE <1>ListsMore
  <2>1. s \in Seq(1 .. 4) /\ Len(s) \in Nat
    BY DEF Lists
  <2>2. CASE id \in X
    <3> DEFINE u == s \o <<id>>
               n == Len(s)
    <3>1. u \in Seq(1 .. 4) /\ Len(u) = n + 1 /\ u[n + 1] = id /\ \A i \in 1 .. n : u[i] = s[i]
      BY <2>1
    <3>2. D \cup ({id} \cap X) = D \cup {id}
      BY <2>2
    <3>3. \A i \in 1 .. n + 1 : i \in 1 .. n \/ i = n + 1
      BY <2>1
    <3>4. (\A i \in 1 .. n : i \in 1 .. n + 1) /\ n + 1 \in 1 .. n + 1 /\ n \in Nat
      BY <2>1
    <3> HIDE DEF u, n
    <3>5. \A i \in 1 .. n : u[i] \in D
      BY <3>1 DEF Lists, n
    <3>6. \A i \in 1 .. n + 1 : u[i] \in D \cup {id}
      BY <3>1, <3>3, <3>5
    <3>7. ASSUME NEW d \in D \cup {id} PROVE \E i \in 1 .. n + 1 : u[i] = d
      <4>1. CASE d = id
        BY <3>1, <3>4, <4>1
      <4>2. CASE d \in D
        <5>1. PICK i \in 1 .. n : s[i] = d
          BY <4>2 DEF Lists, n
        <5> QED
          BY <3>1, <3>4, <5>1
      <4> QED
        BY <4>1, <4>2
    <3>8. ASSUME NEW i \in 1 .. n + 1, NEW j \in 1 .. n + 1, u[i] = u[j] PROVE i = j
      <4>1. CASE i = n + 1 /\ j = n + 1
        BY <4>1
      <4>2. CASE i \in 1 .. n /\ j \in 1 .. n
        <5>1. s[i] = s[j]
          BY <3>1, <3>8, <4>2
        <5> QED
          BY <4>2, <5>1 DEF Lists, n
      <4>3. CASE i \in 1 .. n /\ j = n + 1
        BY <3>1, <3>5, <3>8, <4>3
      <4>4. CASE i = n + 1 /\ j \in 1 .. n
        BY <3>1, <3>5, <3>8, <4>4
      <4> QED
        BY <3>3, <4>1, <4>2, <4>3, <4>4
    <3>9. Lists(u, D \cup {id}) /\ Len(u) <= n + 1 /\ Len(u) \in Nat
      BY <3>1, <3>4, <3>6, <3>7, <3>8 DEF Lists
    <3> QED
      BY <2>2, <3>2, <3>9, Zenon DEF u, n, WithID
  <2>3. CASE id \notin X
    <3>1. s \o <<>> = s
      BY <2>1
    <3>2. D \cup ({id} \cap X) = D
      BY <2>3
    <3>3. Len(s) <= Len(s) + 1
      BY <2>1
    <3> QED
      BY <2>1, <2>3, <3>1, <3>2, <3>3, Zenon DEF WithID
  <2> QED
    BY <2>2, <2>3
<1>EntryIDsAre.
    ASSUME NEW b, DOMAIN b \subseteq 1 .. 4, DOMAIN b # {}
    PROVE  Lists(EntryIDs(b), DOMAIN b) /\ Len(EntryIDs(b)) \in 1 .. 4
  <2> USE <1>EntryIDsAre
  <2> DEFINE X == DOMAIN b
             t(id) == IF id \in X THEN <<id>> ELSE <<>>
             u1 == WithID(<<>>, 1, X)
             u2 == WithID(u1, 2, X)
             u3 == WithID(u2, 3, X)
             u4 == WithID(u3, 4, X)
             D1 == {} \cup ({1} \cap X)
             D2 == D1 \cup ({2} \cap X)
             D3 == D2 \cup ({3} \cap X)
             D4 == D3 \cup ({4} \cap X)
  <2>0. X \subseteq 1 .. 4
    OBVIOUS
  <2>1. EntryIDs(b) = u4
    <3>1. t(1) \in Seq(Nat)
      OBVIOUS
    <3>2. <<>> \o t(1) = t(1)
      BY <3>1
    <3> QED
      BY <3>2 DEF EntryIDs, WithID
  <2> HIDE DEF X
  <2>2. Lists(<<>>, {}) /\ Len(<<>>) = 0
    BY DEF Lists
  <2>3. 1 \in 1 .. 4 /\ 2 \in 1 .. 4 /\ 3 \in 1 .. 4 /\ 4 \in 1 .. 4
    OBVIOUS
  <2>4. Lists(u1, D1) /\ Len(u1) <= 0 + 1 /\ Len(u1) \in Nat
    <3>1. 1 \notin {}
      OBVIOUS
    <3> QED
      BY <2>2, <2>3, <3>1, <1>ListsMore, Zenon
  <2>5. 2 \notin D1 /\ 3 \notin D2 /\ 4 \notin D3
    OBVIOUS
  <2> HIDE DEF u1, D1
  <2>6. Lists(u2, D2) /\ Len(u2) <= Len(u1) + 1 /\ Len(u2) \in Nat
    BY <2>3, <2>4, <2>5, <1>ListsMore
  <2> HIDE DEF u2, D2
  <2>7. Lists(u3, D3) /\ Len(u3) <= Len(u2) + 1 /\ Len(u3) \in Nat
    BY <2>3, <2>5, <2>6, <1>ListsMore
  <2> HIDE DEF u3, D3
  <2>8. Lists(u4, D4) /\ Len(u4) <= Len(u3) + 1 /\ Len(u4) \in Nat
    BY <2>3, <2>5, <2>7, <1>ListsMore
  <2>9. D4 = X
    <3>1. \A d \in X : d = 1 \/ d = 2 \/ d = 3 \/ d = 4
      BY <2>0
    <3>2. \A d : d \in D4 <=> d \in X
      BY <3>1, Zenon DEF D1, D2, D3
    <3> HIDE DEF D4
    <3> QED
      BY <3>2
  <2> HIDE DEF u4, D4
  <2>10. Len(u4) \in 0 .. 4
    <3>1. ASSUME NEW a \in Nat, NEW c \in Nat, NEW d \in Nat, NEW e \in Nat,
                 a <= 0 + 1, c <= a + 1, d <= c + 1, e <= d + 1
          PROVE  e \in 0 .. 4
      BY <3>1
    <3> QED
      BY <2>4, <2>6, <2>7, <2>8, <3>1, Zenon
  <2>11. Len(u4) # 0
    <3>1. PICK d \in X : TRUE
      BY DEF X
    <3>2. \E i \in 1 .. Len(u4) : u4[i] = d
      BY <2>8, <2>9 DEF Lists
    <3> QED
      BY <3>2
  <2> QED
    BY <2>1, <2>8, <2>9, <2>10, <2>11 DEF X
(* The places of an entry's ID and of its bytes.                            *)
<1>Halves.
    ASSUME NEW n \in Nat
    PROVE  /\ (2 * n) \div 2 = n
           /\ \A i \in 1 .. n : /\ 2 * i - 1 \in 1 .. 2 * n /\ 2 * i \in 1 .. 2 * n
                                /\ ((2 * i - 1) + 1) \div 2 = i /\ (2 * i + 1) \div 2 = i
                                /\ (2 * i - 1) % 2 = 1 /\ (2 * i) % 2 = 0
           /\ \A k \in 1 .. 2 * n : /\ (k + 1) \div 2 \in 1 .. n
                                    /\ k % 2 = 1 => (k - 1) % 2 = 0
                                    /\ k % 2 # 1 => k % 2 = 0 /\ (k - 1) % 2 = 1
                                    /\ k = 2 * ((k + 1) \div 2) - 1 \/ k = 2 * ((k + 1) \div 2)
  OBVIOUS
<1>EntryKindsAre.
    ASSUME NEW n \in Nat
    PROVE  /\ EntryKinds(n) \in Seq(FieldKinds) /\ Len(EntryKinds(n)) = 2 * n
           /\ \A k \in 1 .. 2 * n : /\ k % 2 = 1 => EntryKinds(n)[k] = "byte"
                                    /\ k % 2 # 1 => EntryKinds(n)[k] = "string"
           /\ \A data \in Seq(Byte) :
                  ReadFields(Rows(EntryFields, n, data), data) = ReadFields(EntryKinds(n), data)
  <2> DEFINE l == 2
  <2>1. l \in {2, 3} /\ Len(EntryFields) = l /\ EntryFields \in Seq(FieldKinds) /\ n * l = 2 * n
    BY PayloadFields
  <2>2. EntryFields[1] = "byte" /\ EntryFields[2] = "string"
    BY DEF EntryFields
  <2>3. \A k \in 1 .. 2 * n : (k % 2 = 1 => ((k - 1) % l) + 1 = 1) /\ (k % 2 # 1 => ((k - 1) % l) + 1 = 2)
    BY <1>Halves
  <2> HIDE DEF l
  <2>4. /\ EntryKinds(n) \in Seq(FieldKinds) /\ Len(EntryKinds(n)) = n * l
        /\ \A k \in 1 .. n * l : EntryKinds(n)[k] = EntryFields[((k - 1) % l) + 1]
    BY <2>1, RepeatFacts, Zenon DEF EntryKinds
  <2>5. \A data \in Seq(Byte) :
            ReadFields(Rows(EntryFields, n, data), data) = ReadFields(EntryKinds(n), data)
    BY <2>1, RowsAre, Zenon DEF EntryKinds
  <2>6. ASSUME NEW k \in 1 .. 2 * n
        PROVE  /\ k % 2 = 1 => EntryKinds(n)[k] = "byte"
               /\ k % 2 # 1 => EntryKinds(n)[k] = "string"
    <3>1. EntryKinds(n)[k] = EntryFields[((k - 1) % l) + 1]
      BY <2>1, <2>4
    <3> QED
      BY <2>2, <2>3, <3>1
  <2> QED
    BY <2>1, <2>4, <2>5, <2>6
<1>EntryRow.
    ASSUME NEW b, IsBudget(b)
    PROVE  LET ids == EntryIDs(b)
               n == Len(ids)
               vs == EntryValues(b)
           IN  /\ n \in 1 .. 4
               /\ IsRow(EntryKinds(n), vs)
               /\ Len(vs) \div 2 = n
               /\ \A i \in 1 .. n : /\ ids[i] \in DOMAIN b /\ ids[i] \in 1 .. 4
                                    /\ vs[2 * i - 1] = <<ids[i]>> /\ vs[2 * i - 1][1] = ids[i]
                                    /\ vs[2 * i] = EncodeBudgetField(ids[i], b[ids[i]])
  <2> USE <1>EntryRow
  <2> DEFINE ids == EntryIDs(b)
             n == Len(ids)
             vs == EntryValues(b)
             e(id) == EncodeBudgetField(id, b[id])
  <2>1. DOMAIN b \subseteq 1 .. 4 /\ DOMAIN b # {} /\ \A id \in DOMAIN b : b[id] \in BudgetValues(id)
    BY <1>BudgetIDs DEF IsBudget
  <2>2. Lists(ids, DOMAIN b) /\ n \in 1 .. 4
    BY <2>1, <1>EntryIDsAre, SMTT(30)
  <2>3. \A i \in 1 .. n : ids[i] \in DOMAIN b
    BY <2>2 DEF Lists
  <2>4. vs = [k \in 1 .. 2 * n |->
                IF k % 2 = 1 THEN <<ids[(k + 1) \div 2]>> ELSE e(ids[(k + 1) \div 2])]
    BY DEF EntryValues
  <2> HIDE DEF ids, vs
  <2> HIDE DEF n
  <2>5. n \in Nat /\ \A i \in 1 .. n : ids[i] \in 1 .. 4
    BY <2>1, <2>2, <2>3
  <2>6. ASSUME NEW k \in 1 .. 2 * n PROVE vs[k] \in FieldValues(EntryKinds(n)[k])
    <3> DEFINE id == ids[(k + 1) \div 2]
    <3>1. id \in DOMAIN b /\ id \in 1 .. 4 /\ b[id] \in BudgetValues(id)
      BY <2>1, <2>3, <2>5, <1>Halves, SMTT(30)
    <3>2. vs[k] = IF k % 2 = 1 THEN <<id>> ELSE e(id)
      BY <2>4
    <3>3. CASE k % 2 = 1
      <4>1. EntryKinds(n)[k] = "byte" /\ vs[k] = <<id>>
        BY <2>5, <3>2, <3>3, <1>EntryKindsAre, Zenon
      <4>2. id \in Byte
        <5>1. \A j \in 1 .. 4 : j \in Byte
          BY BaseIsPositive, PayloadAssumption DEF Byte
        <5> QED
          BY <3>1, <5>1
      <4>3. Size("byte") = 1
        BY DEF Size
      <4> HIDE DEF id
      <4>4. <<id>> \in Seq(Byte) /\ Len(<<id>>) = 1
        BY <4>2
      <4> QED
        BY <4>1, <4>3, <4>4, FieldValuesAre, Zenon
    <3>4. CASE k % 2 # 1
      <4>1. EntryKinds(n)[k] = "string" /\ vs[k] = e(id)
        BY <2>5, <3>2, <3>4, <1>EntryKindsAre, Zenon
      <4>2. e(id) \in FieldValues("string")
        <5> HIDE DEF id
        <5> QED
          BY <3>1, <1>BudgetFieldInverse
      <4> QED
        BY <4>1, <4>2
    <3> QED
      BY <3>3, <3>4
  <2>7. DOMAIN vs = 1 .. 2 * n /\ vs = [k \in 1 .. 2 * n |-> vs[k]] /\ Len(vs) = 2 * n
    <3>1. 2 * n \in Nat
      BY <2>5
    <3> HIDE DEF e
    <3> QED
      BY <2>4, <3>1
  <2>8. IsRow(EntryKinds(n), vs)
    BY <2>5, <2>6, <2>7, <1>EntryKindsAre, SMTT(30) DEF IsRow
  <2>9. Len(vs) \div 2 = n
    BY <2>5, <2>7, <1>Halves, SMTT(30)
  <2>10. ASSUME NEW i \in 1 .. n
         PROVE  vs[2 * i - 1] = <<ids[i]>> /\ vs[2 * i] = e(ids[i]) /\ vs[2 * i - 1][1] = ids[i]
    <3>1. /\ 2 * i - 1 \in 1 .. 2 * n /\ 2 * i \in 1 .. 2 * n
          /\ ((2 * i - 1) + 1) \div 2 = i /\ (2 * i + 1) \div 2 = i
          /\ (2 * i - 1) % 2 = 1 /\ (2 * i) % 2 = 0
      BY <2>5, <1>Halves
    <3>2. vs[2 * i - 1] = IF (2 * i - 1) % 2 = 1 THEN <<ids[((2 * i - 1) + 1) \div 2]>>
                          ELSE e(ids[((2 * i - 1) + 1) \div 2])
      BY <2>4, <3>1, Zenon
    <3>3. vs[2 * i] = IF (2 * i) % 2 = 1 THEN <<ids[(2 * i + 1) \div 2]>>
                          ELSE e(ids[(2 * i + 1) \div 2])
      BY <2>4, <3>1, Zenon
    <3>4. vs[2 * i - 1] = <<ids[i]>>
      BY <3>1, <3>2, SMTT(30)
    <3>5. vs[2 * i] = e(ids[i])
      BY <3>1, <3>3, SMTT(30)
    <3> QED
      BY <3>4, <3>5
  <2> QED
    BY <2>2, <2>3, <2>5, <2>8, <2>9, <2>10, Zenon DEF ids, n, vs
<1>CountType.
    ASSUME NEW p \in Seq(Byte), CountOf(p).err = "nil"
    PROVE  /\ CountOf(p).n \in 0 .. Len(p) /\ CountOf(p).value \in Nat
           /\ Drop(p, CountOf(p).n) \in Seq(Byte)
           /\ Len(Drop(p, CountOf(p).n)) = Len(p) - CountOf(p).n
           /\ EntryKinds(CountOf(p).value) \in Seq(FieldKinds)
  <2> USE <1>CountType
  <2> DEFINE r == CountOf(p)
  <2>1. r.n \in 1 .. Len(p) /\ r.value \in Nat
    BY ReadVarintCases, Zenon DEF CountOf
  <2> HIDE DEF r
  <2>2. r.n \in 0 .. Len(p)
    BY <2>1
  <2>3. Drop(p, r.n) \in Seq(Byte) /\ Len(Drop(p, r.n)) = Len(p) - r.n
    BY <2>2, DropFacts, Zenon
  <2>4. EntryKinds(r.value) \in Seq(FieldKinds)
    BY <2>1, <1>EntryKindsAre, Zenon
  <2> QED
    BY <2>1, <2>2, <2>3, <2>4 DEF r
<1>BudgetCases.
    ASSUME NEW p \in Seq(Byte)
    PROVE  /\ IsCounted(p) => DecodeBudget(p) = BudgetOf(EntriesOf(EntriesIn(p).got))
           /\ ~IsCounted(p) => DecodeBudget(p) = Error
  <2> DEFINE r == CountOf(p)
             q == Drop(p, r.n)
             e == EntriesIn(p)
  <2>1. r.err # "nil" => DecodeBudget(p) = Error
    BY DEF DecodeBudget, CountOf
  <2>2. r.err = "nil" => DecodeBudget(p) = BudgetEntries(r.value, q)
    BY DEF DecodeBudget, CountOf
  <2>3. ASSUME r.err = "nil", r.value # 0 PROVE BudgetEntries(r.value, q) = BudgetFrom(e, Len(p) - r.n)
    <3>1. r.value \in Nat /\ q \in Seq(Byte) /\ Len(q) = Len(p) - r.n
      BY <2>3, <1>CountType
    <3>2. e = ReadFields(EntryKinds(r.value), q)
      BY DEF EntriesIn
    <3> HIDE DEF r, q, e
    <3>3. ReadFields(Rows(EntryFields, r.value, q), q) = e
      BY <3>1, <3>2, <1>EntryKindsAre, Zenon
    <3>4. BudgetEntries(r.value, q) = BudgetFrom(ReadFields(Rows(EntryFields, r.value, q), q), Len(q))
      BY <2>3 DEF BudgetEntries
    <3> QED
      BY <3>1, <3>3, <3>4
  <2>4. r.value = 0 => BudgetEntries(r.value, q) = Error
    BY SMTT(30) DEF BudgetEntries
  <2>5. BudgetFrom(e, Len(p) - r.n) = IF ~e.ok \/ e.n # Len(p) - r.n THEN Error ELSE BudgetOf(EntriesOf(e.got))
    BY DEF BudgetFrom, EntriesOf
  <2>6. IsCounted(p) <=> r.err = "nil" /\ r.value # 0 /\ e.ok /\ e.n = Len(p) - r.n
    BY DEF IsCounted
  <2> HIDE DEF r, q, e
  <2> QED
    BY <2>1, <2>2, <2>3, <2>4, <2>5, <2>6 DEF e
(* What is counted ends with its bytes: no other such bytes begin with them.*)
<1>CountedLocal.
    ASSUME NEW a \in Seq(Byte), NEW b \in Seq(Byte), IsCounted(a), IsCounted(b),
           SameStart(a, b, Len(a))
    PROVE  Len(a) = Len(b)
  <2> USE <1>CountedLocal
  <2> DEFINE r == CountOf(a)
             n == r.n
             m == EntriesIn(a).n
  <2>1. r.err = "nil" /\ EntriesIn(a).ok /\ m = Len(a) - n
    BY DEF IsCounted
  <2>2. /\ n \in 0 .. Len(a) /\ Drop(a, n) \in Seq(Byte) /\ Len(Drop(a, n)) = Len(a) - n
        /\ EntryKinds(r.value) \in Seq(FieldKinds)
    BY <2>1, <1>CountType
  <2>3. Len(a) \in Nat /\ Len(b) \in Nat
    OBVIOUS
  <2>4. m \in 0 .. Len(a) - n /\ n + m = Len(a)
    <3> HIDE DEF n, m
    <3> QED
      BY <2>1, <2>2, <2>3, SMTT(30)
  <2>5. SameStart(a, b, n) /\ n \in 0 .. Len(b) /\ SameStart(Drop(a, n), Drop(b, n), m)
    <3>1. SameStart(a, b, n + m)
      BY <2>4
    <3> HIDE DEF n, m
    <3> QED
      BY <2>2, <2>4, <3>1, SameStartDrop, SMTT(30)
  <2>6. CountOf(b).n = n /\ CountOf(b).value = r.value
    <3>1. n <= Len(b) /\ \A i \in 1 .. n : a[i] = b[i]
      BY <2>5 DEF SameStart
    <3> QED
      BY <2>1, <3>1, VarintLocal DEF CountOf
  <2>7. Drop(b, n) \in Seq(Byte)
    BY <2>5, DropFacts, SMTT(30)
  <2>8. EntriesIn(b) = EntriesIn(a)
    <3>1. EntriesIn(a) = ReadFields(EntryKinds(r.value), Drop(a, n))
      BY DEF EntriesIn
    <3>2. EntriesIn(b) = ReadFields(EntryKinds(r.value), Drop(b, n))
      BY <2>6 DEF EntriesIn
    <3> HIDE DEF r, n
    <3> QED
      BY <2>1, <2>2, <2>5, <2>7, <3>1, <3>2, RowLocal, ZenonT(60)
  <2>9. m = Len(b) - n
    BY <2>6, <2>8 DEF IsCounted
  <2> HIDE DEF n, m
  <2> QED
    BY <2>2, <2>3, <2>4, <2>9, SMTT(30)
<1>BudgetOfIs.
    ASSUME NEW e
    PROVE  BudgetOf(e) =
              IF NoDuplicates(e) /\ AllValid(e)
              THEN [ok |-> TRUE, value |-> [id \in IDsOf(e) \cap BudgetFields |->
                                                DecodeBudgetField(id, e[EntryOf(e, id)].bytes)]]
              ELSE Error
  <2>1. CASE NoDuplicates(e) /\ AllValid(e)
    <3>1. ~(\/ \E i, j \in DOMAIN e : i # j /\ e[i].id = e[j].id
            \/ \E i \in DOMAIN e : ~ValidBudgetField(e[i].id, e[i].bytes))
      BY <2>1, Zenon DEF NoDuplicates, AllValid
    <3> QED
      BY <2>1, <3>1, Zenon DEF BudgetOf, IDsOf, EntryOf
  <2>2. CASE ~(NoDuplicates(e) /\ AllValid(e))
    <3>1. \/ \E i, j \in DOMAIN e : i # j /\ e[i].id = e[j].id
          \/ \E i \in DOMAIN e : ~ValidBudgetField(e[i].id, e[i].bytes)
      BY <2>2, Zenon DEF NoDuplicates, AllValid
    <3> QED
      BY <2>2, <3>1, Zenon DEF BudgetOf, IDsOf, EntryOf
  <2> QED
    BY <2>1, <2>2, Zenon
<1>BudgetOfEntries.
    ASSUME NEW b, IsBudget(b), NEW ids, Lists(ids, DOMAIN b), NEW e, EntriesAre(e, ids, b)
    PROVE  BudgetOf(e) = [ok |-> TRUE, value |-> b]
  <2> USE <1>BudgetOfEntries
  <2>0. /\ DOMAIN e = 1 .. Len(ids)
        /\ \A i \in 1 .. Len(ids) : /\ e[i].id = ids[i]
                                    /\ e[i].bytes = EncodeBudgetField(ids[i], b[ids[i]])
    BY DEF EntriesAre
  <2>1. /\ DOMAIN b \subseteq 1 .. 4 /\ BudgetFields = 1 .. 4
        /\ \A id \in DOMAIN b : b[id] \in BudgetValues(id)
        /\ b = [id \in DOMAIN b |-> b[id]]
    BY <1>BudgetIDs DEF IsBudget
  <2>2. /\ \A i \in 1 .. Len(ids) : ids[i] \in DOMAIN b
        /\ \A d \in DOMAIN b : \E i \in 1 .. Len(ids) : ids[i] = d
        /\ \A i, j \in 1 .. Len(ids) : ids[i] = ids[j] => i = j
    BY DEF Lists
  <2>3. NoDuplicates(e)
    <3>1. ASSUME NEW i \in 1 .. Len(ids), NEW j \in 1 .. Len(ids), e[i].id = e[j].id PROVE i = j
      <4>1. e[i].id = ids[i] /\ e[j].id = ids[j]
        BY <2>0
      <4> QED
        BY <2>2, <3>1, <4>1, Zenon
    <3> QED
      BY <2>0, <3>1, Zenon DEF NoDuplicates
  <2>4. AllValid(e)
    <3>1. ASSUME NEW i \in 1 .. Len(ids) PROVE ValidBudgetField(e[i].id, e[i].bytes)
      <4>1. ids[i] \in 1 .. 4 /\ b[ids[i]] \in BudgetValues(ids[i])
        BY <2>1, <2>2
      <4>2. ValidBudgetField(ids[i], EncodeBudgetField(ids[i], b[ids[i]]))
        BY <4>1, <1>BudgetFieldInverse, ZenonT(60)
      <4>3. e[i].id = ids[i] /\ e[i].bytes = EncodeBudgetField(ids[i], b[ids[i]])
        BY <2>0
      <4> QED
        BY <4>2, <4>3, Zenon
    <3> QED
      BY <2>0, <3>1, Zenon DEF AllValid
  <2>5. IDsOf(e) \cap BudgetFields = DOMAIN b
    <3>1. ASSUME NEW d \in DOMAIN b PROVE \E i \in 1 .. Len(ids) : e[i].id = d
      BY <2>0, <2>2
    <3>2. ASSUME NEW i \in 1 .. Len(ids) PROVE e[i].id \in DOMAIN b
      BY <2>0, <2>2, Zenon
    <3>3. IDsOf(e) = DOMAIN b
      BY <2>0, <3>1, <3>2, ZenonT(60) DEF IDsOf
    <3> QED
      BY <2>1, <3>3, ZenonT(60)
  <2>6. ASSUME NEW d \in DOMAIN b PROVE DecodeBudgetField(d, e[EntryOf(e, d)].bytes) = b[d]
    <3> DEFINE k == EntryOf(e, d)
    <3>1. PICK i \in 1 .. Len(ids) : ids[i] = d
      BY <2>2, SMTT(30)
    <3>2. i \in DOMAIN e /\ e[i].id = d
      BY <2>0, <3>1
    <3>3. k \in DOMAIN e /\ e[k].id = d
      BY <3>2, Zenon DEF EntryOf
    <3> HIDE DEF k
    <3>4. e[k].bytes = EncodeBudgetField(d, b[d])
      <4>1. k \in 1 .. Len(ids) /\ ids[k] = d
        BY <2>0, <3>3, ZenonT(60)
      <4>2. e[k].bytes = EncodeBudgetField(ids[k], b[ids[k]])
        BY <2>0, <4>1
      <4> QED
        BY <4>1, <4>2, Zenon
    <3>5. d \in 1 .. 4 /\ b[d] \in BudgetValues(d)
      BY <2>1
    <3>6. DecodeBudgetField(d, EncodeBudgetField(d, b[d])) = b[d]
      BY <3>5, <1>BudgetFieldInverse
    <3> QED
      BY <3>4, <3>6 DEF k
  <2>7. [id \in DOMAIN b |-> DecodeBudgetField(id, e[EntryOf(e, id)].bytes)] = [id \in DOMAIN b |-> b[id]]
    BY <2>6, Zenon
  <2>8. BudgetOf(e) = [ok |-> TRUE, value |-> [id \in IDsOf(e) \cap BudgetFields |->
                                                  DecodeBudgetField(id, e[EntryOf(e, id)].bytes)]]
    BY <2>3, <2>4, <1>BudgetOfIs, Zenon
  <2>9. [id \in IDsOf(e) \cap BudgetFields |-> DecodeBudgetField(id, e[EntryOf(e, id)].bytes)] = b
    BY <2>1, <2>5, <2>7
  <2> QED
    BY <2>8, <2>9, ZenonT(60)
<1>BudgetSent.
    ASSUME NEW b, IsBudget(b)
    PROVE  /\ EncodeBudget(b) \in Seq(Byte) /\ IsCounted(EncodeBudget(b))
           /\ DecodeBudget(EncodeBudget(b)) = [ok |-> TRUE, value |-> b]
  <2> USE <1>BudgetSent
  <2> DEFINE ids == EntryIDs(b)
             n == Len(ids)
             vs == EntryValues(b)
             w == AppendFields(EntryKinds(n), vs)
             c == Varint(n)
             p == c \o w
  <2>1. n \in 1 .. 4 /\ IsRow(EntryKinds(n), vs) /\ Len(vs) \div 2 = n
    BY <1>EntryRow
  <2>2. n \in Nat /\ n # 0 /\ n \in 0 .. MaxVarint
    <3>1. \A i \in 1 .. 4 : i \in Nat /\ i # 0 /\ i \in 0 .. MaxVarint
      BY <1>EightIsShort, MaxVarintIsNat
    <3> HIDE DEF n
    <3> QED
      BY <2>1, <3>1, Zenon
  <2>3. w \in Seq(Byte) /\ ReadFields(EntryKinds(n), w) = Got(vs, Len(w))
    <3>1. EntryKinds(n) \in Seq(FieldKinds) /\ <<>> \in Seq(Byte)
      BY <2>2, <1>EntryKindsAre
    <3> HIDE DEF n, vs
    <3> QED
      BY <2>1, <3>1, RowWritten, Zenon
  <2> HIDE DEF w
  <2>4. c \in Seq(Byte) /\ ReadVarint(p).err = "nil" /\ ReadVarint(p).n = Len(c) /\ ReadVarint(p).value = n
    <3> HIDE DEF n
    <3> QED
      BY <2>2, <2>3, VarintInverse
  <2>5. EncodeBudget(b) = p
    <3>1. EncodeBudget(b) = AppendVarint(<<>>, n) \o w
      BY DEF EncodeBudget, EntryKinds, w
    <3>2. AppendVarint(<<>>, n) = <<>> \o c
      BY AppendsVarint, Zenon
    <3> HIDE DEF c, n
    <3>3. <<>> \o c = c
      BY <2>4, SMTT(30)
    <3> QED
      BY <3>1, <3>2, <3>3
  <2> HIDE DEF c
  <2>6. p \in Seq(Byte) /\ Len(p) = Len(c) + Len(w) /\ Drop(p, Len(c)) = w
    BY <2>3, <2>4, ConcatFacts, ConcatParts
  <2>7. CountOf(p).err = "nil" /\ CountOf(p).n = Len(c) /\ CountOf(p).value = n
    BY <2>4 DEF CountOf
  <2> HIDE DEF p
  <2>8. EntriesIn(p) = Got(vs, Len(w))
    BY <2>3, <2>6, <2>7 DEF EntriesIn
  <2>9. EntriesIn(p).ok /\ EntriesIn(p).got = vs /\ EntriesIn(p).n = Len(w)
    <3> HIDE DEF vs
    <3> QED
      BY <2>8, GotParts
  <2>10. Len(w) = Len(p) - Len(c)
    <3>1. Len(w) \in Nat /\ Len(c) \in Nat
      BY <2>3, <2>4
    <3> QED
      BY <2>6, <3>1
  <2>11. IsCounted(p)
    BY <2>2, <2>7, <2>9, <2>10 DEF IsCounted
  <2>12. DecodeBudget(p) = BudgetOf(EntriesOf(vs))
    BY <2>6, <2>9, <2>11, <1>BudgetCases
  <2>13. BudgetOf(EntriesOf(vs)) = [ok |-> TRUE, value |-> b]
    <3> DEFINE e == EntriesOf(vs)
    <3>1. DOMAIN e = 1 .. n /\ \A i \in 1 .. n : e[i] = [id |-> vs[2 * i - 1][1], bytes |-> vs[2 * i]]
      BY <2>1 DEF EntriesOf
    <3>2. \A i \in 1 .. n : vs[2 * i - 1][1] = ids[i] /\ vs[2 * i] = EncodeBudgetField(ids[i], b[ids[i]])
      BY <1>EntryRow, Zenon
    <3>3. Lists(ids, DOMAIN b)
      <4>1. DOMAIN b \subseteq 1 .. 4 /\ DOMAIN b # {}
        BY <1>BudgetIDs, ZenonT(60) DEF IsBudget
      <4> QED
        BY <4>1, <1>EntryIDsAre
    <3> HIDE DEF e, vs, ids
    <3>4. ASSUME NEW i \in 1 .. n PROVE e[i].id = ids[i] /\ e[i].bytes = EncodeBudgetField(ids[i], b[ids[i]])
      <4>1. ASSUME NEW x, NEW y, NEW z, x = [id |-> y, bytes |-> z] PROVE x.id = y /\ x.bytes = z
        BY <4>1
      <4>2. e[i].id = vs[2 * i - 1][1] /\ e[i].bytes = vs[2 * i]
        BY <3>1, <4>1
      <4> QED
        BY <3>2, <4>2
    <3>5. BudgetOf(e) = [ok |-> TRUE, value |-> b]
      <4>1. \A i \in 1 .. n : e[i].id = ids[i] /\ e[i].bytes = EncodeBudgetField(ids[i], b[ids[i]])
        BY <3>4, ZenonT(60)
      <4>2. EntriesAre(e, ids, b)
        BY <3>1, <4>1 DEF EntriesAre
      <4> QED
        BY <3>3, <4>2, <1>BudgetOfEntries, SMTT(30)
    <3> QED
      BY <3>5, ZenonT(60) DEF e
  <2> QED
    BY <2>5, <2>6, <2>11, <2>12, <2>13, ZenonT(60) DEF p
(* A budget that is cut or has a byte more is refused.                      *)
<1>BudgetDamaged.
    ASSUME NEW b, IsBudget(b)
    PROVE  LET w == EncodeBudget(b)
           IN  /\ \A n \in 0 .. Len(w) - 1 : ~DecodeBudget(SubSeq(w, 1, n)).ok
               /\ \A x \in Byte : ~DecodeBudget(Append(w, x)).ok
  <2> USE <1>BudgetDamaged
  <2> DEFINE w == EncodeBudget(b)
  <2>1. w \in Seq(Byte) /\ IsCounted(w)
    BY <1>BudgetSent
  <2>2. ASSUME NEW p \in Seq(Byte), DecodeBudget(p).ok PROVE IsCounted(p)
    <3>1. ~Error.ok
      BY GotFields
    <3> QED
      BY <2>2, <3>1, <1>BudgetCases
  <2> HIDE DEF w
  <2>3. ASSUME NEW n \in 0 .. Len(w) - 1, DecodeBudget(SubSeq(w, 1, n)).ok PROVE FALSE
    <3> DEFINE c == SubSeq(w, 1, n)
    <3>1. c \in Seq(Byte) /\ Len(c) = n /\ n \in Nat /\ n < Len(w) /\ \A k \in 0 .. n : SameStart(c, w, k)
      BY <2>1, CutBytes
    <3>2. DecodeBudget(c).ok
      BY <2>3
    <3> HIDE DEF c
    <3>3. IsCounted(c)
      BY <2>2, <3>1, <3>2
    <3>4. SameStart(c, w, Len(c))
      <4>1. n \in 0 .. n
        BY <3>1
      <4> QED
        BY <3>1, <4>1
    <3>5. Len(c) = Len(w)
      BY <2>1, <3>1, <3>3, <3>4, <1>CountedLocal, SMTT(30)
    <3> QED
      BY <2>1, <3>1, <3>5
  <2>4. ASSUME NEW x \in Byte, DecodeBudget(Append(w, x)).ok PROVE FALSE
    <3> DEFINE c == Append(w, x)
    <3>1. c \in Seq(Byte) /\ Len(c) = Len(w) + 1 /\ Len(w) \in Nat
      BY <2>1, LongerBytes
    <3>2. \A i \in 1 .. Len(w) : w[i] = c[i]
      BY <2>1
    <3>3. DecodeBudget(c).ok
      BY <2>4
    <3> HIDE DEF c
    <3>4. IsCounted(c)
      BY <2>2, <3>1, <3>3
    <3>5. SameStart(w, c, Len(w))
      BY <3>1, <3>2 DEF SameStart
    <3>6. Len(w) = Len(c)
      BY <2>1, <3>1, <3>4, <3>5, <1>CountedLocal, SMTT(30)
    <3> QED
      BY <3>1, <3>6
  <2> QED
    BY <2>3, <2>4 DEF w
(* What is accepted can be encoded, unless it has no known field.           *)
<1>BudgetAccepted.
    ASSUME NEW p \in Seq(Byte), DecodeBudget(p).ok, DOMAIN DecodeBudget(p).value # {}
    PROVE  IsBudget(DecodeBudget(p).value)
  <2> USE <1>BudgetAccepted
  <2> DEFINE n == CountOf(p).value
             g == EntriesIn(p).got
             e == EntriesOf(g)
             v == [id \in IDsOf(e) \cap BudgetFields |-> DecodeBudgetField(id, e[EntryOf(e, id)].bytes)]
  <2>0. ~Error.ok
    BY GotFields
  <2>1. IsCounted(p) /\ DecodeBudget(p) = BudgetOf(e)
    BY <2>0, <1>BudgetCases
  <2>2. /\ n \in Nat /\ EntryKinds(n) \in Seq(FieldKinds) /\ Drop(p, CountOf(p).n) \in Seq(Byte)
    BY <2>1, <1>CountType, SMTT(30) DEF IsCounted
  <2>3. IsRow(EntryKinds(n), g) /\ Len(g) = Len(EntryKinds(n))
    <3>1. EntriesIn(p).ok
      BY <2>1 DEF IsCounted
    <3> QED
      BY <2>2, <3>1, RowAccepted, SMTT(30) DEF EntriesIn
  <2>4. Len(g) = 2 * n /\ \A i \in 1 .. n : g[2 * i] \in FieldValues("string")
    <3> HIDE DEF n, g
    <3>1. Len(EntryKinds(n)) = 2 * n
      BY <2>2, <1>EntryKindsAre
    <3>2. ASSUME NEW i \in 1 .. n PROVE g[2 * i] \in FieldValues("string")
      <4>1. 2 * i \in 1 .. 2 * n /\ (2 * i) % 2 = 0
        BY <2>2, <1>Halves
      <4>2. EntryKinds(n)[2 * i] = "string"
        BY <2>2, <4>1, <1>EntryKindsAre
      <4>3. g[2 * i] \in FieldValues(EntryKinds(n)[2 * i])
        BY <2>3, <3>1, <4>1, SMTT(30) DEF IsRow
      <4> QED
        BY <4>2, <4>3, SMTT(30)
    <3> QED
      BY <2>3, <3>1, <3>2
  <2>5. DOMAIN e = 1 .. n /\ \A i \in 1 .. n : e[i].bytes \in Seq(Byte)
    <3>1. Len(g) \div 2 = n
      BY <2>2, <2>4, <1>Halves
    <3>2. e = [i \in 1 .. n |-> [id |-> g[2 * i - 1][1], bytes |-> g[2 * i]]]
      BY <3>1, Zenon DEF EntriesOf
    <3> HIDE DEF e, g, n
    <3>3. DOMAIN e = 1 .. n /\ \A i \in 1 .. n : e[i].bytes = g[2 * i]
      BY <3>2
    <3> QED
      BY <2>4, <3>3, FieldValuesAre, ZenonT(60)
  <2>6. AllValid(e) /\ BudgetOf(e) = [ok |-> TRUE, value |-> v]
    <3> HIDE DEF e
    <3> QED
      BY <2>0, <2>1, <1>BudgetOfIs, Zenon
  <2>7. ASSUME NEW d \in IDsOf(e) \cap BudgetFields PROVE v[d] \in BudgetValues(d)
    <3> DEFINE k == EntryOf(e, d)
    <3> HIDE DEF e
    <3>1. k \in DOMAIN e /\ e[k].id = d
      <4>1. \E i \in DOMAIN e : e[i].id = d
        BY DEF IDsOf
      <4> QED
        BY <4>1, Zenon DEF EntryOf
    <3>2. v[d] = DecodeBudgetField(d, e[k].bytes)
      BY Zenon
    <3> HIDE DEF k, v
    <3>3. ValidBudgetField(d, e[k].bytes) /\ e[k].bytes \in Seq(Byte)
      BY <2>5, <2>6, <3>1 DEF AllValid
    <3>4. d \in 1 .. 4
      BY <1>BudgetIDs, SMTT(30)
    <3> QED
      BY <3>2, <3>3, <3>4, <1>BudgetFieldBounded
  <2>8. DecodeBudget(p).value = v
    BY <2>1, <2>6
  <2>9. DOMAIN v = IDsOf(e) \cap BudgetFields /\ v = [id \in DOMAIN v |-> v[id]]
    <3> HIDE DEF e
    <3> QED
      OBVIOUS
  <2> HIDE DEF v, e
  <2> QED
    BY <2>7, <2>8, <2>9, SMTT(30) DEF IsBudget
<1> QED
  BY <1>BudgetSent, <1>BudgetAccepted, <1>BudgetDamaged

-----------------------------------------------------------------------------
(* All kinds of payloads.                                                   *)
LEMMA ByKind ==
    ASSUME NEW v, NEW p
    PROVE  /\ EncodeAs("CANCEL", v) = EncodeCancel(v) /\ DecodeAs("CANCEL", p) = DecodeCancel(p)
           /\ EncodeAs("INVOKE", v) = encodeInvokePayload(v) /\ DecodeAs("INVOKE", p) = decodeInvokePayload(p)
           /\ EncodeAs("BUDGET", v) = EncodeBudget(v) /\ DecodeAs("BUDGET", p) = DecodeBudget(p)
           /\ EncodeAs("HELLO", v) = SignedHello(v.hello, v.block) /\ DecodeAs("HELLO", p) = DecodeHello(p)
           /\ EncodeAs("did:key", v) = MakeDIDKey(v) /\ DecodeAs("did:key", p) = ParseDIDKey(p)
<1>1. /\ EncodeAs("CANCEL", v) = EncodeCancel(v) /\ EncodeAs("INVOKE", v) = encodeInvokePayload(v)
      /\ EncodeAs("BUDGET", v) = EncodeBudget(v) /\ EncodeAs("HELLO", v) = SignedHello(v.hello, v.block)
      /\ EncodeAs("did:key", v) = MakeDIDKey(v)
  BY DEF EncodeAs
<1>2. /\ DecodeAs("CANCEL", p) = DecodeCancel(p) /\ DecodeAs("INVOKE", p) = decodeInvokePayload(p)
      /\ DecodeAs("BUDGET", p) = DecodeBudget(p) /\ DecodeAs("HELLO", p) = DecodeHello(p)
      /\ DecodeAs("did:key", p) = ParseDIDKey(p)
  BY DEF DecodeAs
<1> QED
  BY <1>1, <1>2, Zenon

(* What can be sent, by kind of payload.                                    *)
LEMMA SentByKind ==
    ASSUME NEW v
    PROVE  /\ CanBeSent("CANCEL", v) <=> IsRow(CancelFields, v)
           /\ CanBeSent("INVOKE", v) <=> IsInvoke(v)
           /\ CanBeSent("BUDGET", v) <=> IsBudget(v)
           /\ CanBeSent("HELLO", v) <=> IsHello(v)
           /\ CanBeSent("did:key", v) <=> IsKey(v)
<1>1. CanBeSent("CANCEL", v) <=> IsRow(CancelFields, v)
  BY DEF CanBeSent
<1>2. CanBeSent("INVOKE", v) <=> IsInvoke(v)
  BY DEF CanBeSent, IsInvoke
<1>3. CanBeSent("BUDGET", v) <=> IsBudget(v)
  BY DEF CanBeSent, IsBudget
<1>4. CanBeSent("HELLO", v) <=> IsHello(v)
  BY DEF CanBeSent, IsHello
<1>5. CanBeSent("did:key", v) <=> IsKey(v)
  BY SMTT(30) DEF CanBeSent, IsKey
<1> QED
  BY <1>1, <1>2, <1>3, <1>4, <1>5, SMTT(30)

(* Every decoder inverts its encoder.                                       *)
LEMMA Sent ==
    ASSUME NatIsWellOrdered, NEW k \in Kinds, NEW v, CanBeSent(k, v)
    PROVE  /\ EncodeAs(k, v) \in Seq(Byte)
           /\ DecodeAs(k, EncodeAs(k, v)).ok /\ DecodeAs(k, EncodeAs(k, v)).value = v
<1>1. CASE k = "CANCEL"
  <2> DEFINE w == EncodeCancel(v)
  <2>1. IsRow(CancelFields, v) /\ EncodeAs(k, v) = w
    BY <1>1, ByKind, SentByKind, Zenon
  <2>2. \A p : DecodeAs(k, p) = DecodeCancel(p)
    BY <1>1, ByKind, Zenon
  <2>3. w \in Seq(Byte) /\ DecodeCancel(w) = [ok |-> TRUE, value |-> v]
    BY <2>1, CancelCodec, Zenon
  <2> HIDE DEF w
  <2> QED
    BY <2>1, <2>2, <2>3
<1>2. CASE k = "INVOKE"
  <2> DEFINE w == encodeInvokePayload(v)
  <2>1. IsInvoke(v) /\ EncodeAs(k, v) = w
    BY <1>2, ByKind, SentByKind, Zenon
  <2>2. \A p : DecodeAs(k, p) = decodeInvokePayload(p)
    BY <1>2, ByKind, Zenon
  <2>3. w \in Seq(Byte) /\ decodeInvokePayload(w) = [ok |-> TRUE, value |-> v]
    BY <2>1, InvokeCodec, Zenon
  <2> HIDE DEF w
  <2> QED
    BY <2>1, <2>2, <2>3
<1>3. CASE k = "BUDGET"
  <2> DEFINE w == EncodeBudget(v)
  <2>1. IsBudget(v) /\ EncodeAs(k, v) = w
    BY <1>3, ByKind, SentByKind, Zenon
  <2>2. \A p : DecodeAs(k, p) = DecodeBudget(p)
    BY <1>3, ByKind, Zenon
  <2>3. w \in Seq(Byte) /\ DecodeBudget(w) = [ok |-> TRUE, value |-> v]
    BY <2>1, BudgetCodec, Zenon
  <2> HIDE DEF w
  <2> QED
    BY <2>1, <2>2, <2>3
<1>4. CASE k = "HELLO"
  <2> DEFINE w == SignedHello(v.hello, v.block)
  <2>1. IsHello(v) /\ EncodeAs(k, v) = w /\ DecodeAs(k, w) = DecodeHello(w)
    BY <1>4, ByKind, SentByKind, Zenon
  <2>2. w \in Seq(Byte) /\ <<>> \in Seq(Byte)
    <3>1. <<>> \in Seq(Byte)
      OBVIOUS
    <3> QED
      BY <2>1, <3>1, HelloCodec, Zenon
  <2>3. DecodeHello(w \o <<>>) = [ok |-> TRUE, value |-> v, inner |-> encodeHelloInner(v.hello)]
    BY <2>1, <2>2, HelloCodec, Zenon
  <2> HIDE DEF w
  <2>4. w \o <<>> = w
    BY <2>2
  <2> QED
    BY <2>1, <2>2, <2>3, <2>4
<1>5. CASE k = "did:key"
  <2> DEFINE w == MakeDIDKey(v)
  <2>1. IsKey(v) /\ EncodeAs(k, v) = w
    BY <1>5, ByKind, SentByKind, Zenon
  <2>2. \A p : DecodeAs(k, p) = ParseDIDKey(p)
    BY <1>5, ByKind, Zenon
  <2>3. w \in Seq(Byte) /\ ParseDIDKey(w) = [ok |-> TRUE, value |-> v]
    BY <2>1, DIDKeyCodec, Zenon
  <2> HIDE DEF w
  <2> QED
    BY <2>1, <2>2, <2>3
<1> QED
  BY <1>1, <1>2, <1>3, <1>4, <1>5, SMTT(30) DEF Kinds

(* What a decoder accepts can be sent, but for a Budget of unknown fields.  *)
LEMMA Accepted ==
    ASSUME NatIsWellOrdered, NEW k \in Kinds, NEW p \in Seq(Byte), DecodeAs(k, p).ok
    PROVE  \/ CanBeSent(k, DecodeAs(k, p).value)
           \/ k = "BUDGET" /\ DOMAIN DecodeAs(k, p).value = {}
<1>1. CASE k = "CANCEL"
  <2>1. DecodeAs(k, p) = DecodeCancel(p)
    BY <1>1, ByKind, Zenon
  <2>2. IsRow(CancelFields, DecodeCancel(p).value)
    BY <2>1, CancelCodec, Zenon
  <2> QED
    BY <1>1, <2>1, <2>2, SentByKind, Zenon
<1>2. CASE k = "INVOKE"
  <2>1. DecodeAs(k, p) = decodeInvokePayload(p)
    BY <1>2, ByKind, Zenon
  <2>2. IsInvoke(decodeInvokePayload(p).value)
    BY <2>1, InvokeCodec, Zenon
  <2> QED
    BY <1>2, <2>1, <2>2, SentByKind, Zenon
<1>3. CASE k = "BUDGET"
  <2>1. DecodeAs(k, p) = DecodeBudget(p)
    BY <1>3, ByKind, Zenon
  <2>2. DOMAIN DecodeBudget(p).value # {} => IsBudget(DecodeBudget(p).value)
    BY <2>1, BudgetCodec, Zenon
  <2>3. IsBudget(DecodeBudget(p).value) => CanBeSent(k, DecodeBudget(p).value)
    BY <1>3, SentByKind, Zenon
  <2> QED
    BY <1>3, <2>1, <2>2, <2>3, Zenon
<1>4. CASE k = "HELLO"
  <2>1. DecodeAs(k, p) = DecodeHello(p)
    BY <1>4, ByKind, Zenon
  <2>2. IsHello(DecodeHello(p).value)
    BY <2>1, HelloCodec, Zenon
  <2> QED
    BY <1>4, <2>1, <2>2, SentByKind, Zenon
<1>5. CASE k = "did:key"
  <2>1. DecodeAs(k, p) = ParseDIDKey(p)
    BY <1>5, ByKind, Zenon
  <2>2. IsKey(ParseDIDKey(p).value)
    BY <2>1, DIDKeyCodec, Zenon
  <2> QED
    BY <1>5, <2>1, <2>2, SentByKind, Zenon
<1> QED
  BY <1>1, <1>2, <1>3, <1>4, <1>5 DEF Kinds

(* What DamageIsNoticed says of bytes that are cut or longer.               *)
Noticed(k, v, p) ==
    \/ ~DecodeAs(k, p).ok
    \/ k = "CANCEL" /\ p = <<>>
    \/ k = "INVOKE" /\ DecodeAs(k, p).value[1] = v[1] /\ DecodeAs(k, p).value[2] = v[2]

(* What decoders make of a payload that was cut or is longer by a byte.     *)
LEMMA Damaged ==
    ASSUME NatIsWellOrdered, NEW k \in Kinds, NEW v, CanBeSent(k, v)
    PROVE  LET w == EncodeAs(k, v)
           IN  /\ \A n \in 0 .. Len(w) - 1 : Noticed(k, v, SubSeq(w, 1, n))
               /\ \A b \in Byte : \/ Noticed(k, v, Append(w, b))
                                  \/ k = "HELLO" /\ DecodeAs(k, Append(w, b)).value = v
<1>1. CASE k = "CANCEL"
  <2> DEFINE w == EncodeCancel(v)
  <2>1. IsRow(CancelFields, v) /\ EncodeAs(k, v) = w
    BY <1>1, ByKind, SentByKind, Zenon
  <2>2. \A p : DecodeAs(k, p) = DecodeCancel(p)
    BY <1>1, ByKind, Zenon
  <2>3. \A n \in 0 .. Len(w) - 1 : SubSeq(w, 1, n) = <<>> \/ ~DecodeCancel(SubSeq(w, 1, n)).ok
    BY <2>1, CancelCodec, Zenon
  <2>4. \A b \in Byte : ~DecodeCancel(Append(w, b)).ok
    BY <2>1, CancelCodec, ZenonT(60)
  <2> HIDE DEF w
  <2>5. \A n \in 0 .. Len(w) - 1 : Noticed(k, v, SubSeq(w, 1, n))
    BY <1>1, <2>2, <2>3, ZenonT(60) DEF Noticed
  <2>6. \A b \in Byte : \/ Noticed(k, v, Append(w, b))
                        \/ k = "HELLO" /\ DecodeAs(k, Append(w, b)).value = v
    BY <1>1, <2>2, <2>4 DEF Noticed
  <2> QED
    BY <2>1, <2>5, <2>6
<1>2. CASE k = "INVOKE"
  <2> DEFINE w == encodeInvokePayload(v)
  <2>1. IsInvoke(v) /\ EncodeAs(k, v) = w
    BY <1>2, ByKind, SentByKind, Zenon
  <2>2. \A p : DecodeAs(k, p) = decodeInvokePayload(p)
    BY <1>2, ByKind, Zenon
  <2>3. ASSUME NEW n \in 0 .. Len(w) - 1
        PROVE  LET d == decodeInvokePayload(SubSeq(w, 1, n))
               IN  d.ok => d.value[1] = v[1] /\ d.value[2] = v[2]
    BY <2>1, InvokeCodec, Zenon
  <2>4. ASSUME NEW b \in Byte
        PROVE  LET d == decodeInvokePayload(Append(w, b))
               IN  d.value[1] = v[1] /\ d.value[2] = v[2]
    BY <2>1, InvokeCodec, Zenon
  <2> HIDE DEF w
  <2>5. \A n \in 0 .. Len(w) - 1 : Noticed(k, v, SubSeq(w, 1, n))
    BY <1>2, <2>2, <2>3, SMTT(30) DEF Noticed
  <2>6. \A b \in Byte : \/ Noticed(k, v, Append(w, b))
                        \/ k = "HELLO" /\ DecodeAs(k, Append(w, b)).value = v
    BY <1>2, <2>2, <2>4 DEF Noticed
  <2> QED
    BY <2>1, <2>5, <2>6
<1>3. CASE k = "BUDGET"
  <2> DEFINE w == EncodeBudget(v)
  <2>1. IsBudget(v) /\ EncodeAs(k, v) = w
    BY <1>3, ByKind, SentByKind, Zenon
  <2>2. \A p : DecodeAs(k, p) = DecodeBudget(p)
    BY <1>3, ByKind, Zenon
  <2>3. \A n \in 0 .. Len(w) - 1 : ~DecodeBudget(SubSeq(w, 1, n)).ok
    BY <2>1, BudgetCodec, Zenon
  <2>4. \A b \in Byte : ~DecodeBudget(Append(w, b)).ok
    BY <2>1, BudgetCodec, Zenon
  <2> HIDE DEF w
  <2>5. \A n \in 0 .. Len(w) - 1 : Noticed(k, v, SubSeq(w, 1, n))
    BY <1>3, <2>2, <2>3, SMTT(30) DEF Noticed
  <2>6. \A b \in Byte : \/ Noticed(k, v, Append(w, b))
                        \/ k = "HELLO" /\ DecodeAs(k, Append(w, b)).value = v
    BY <1>3, <2>2, <2>4 DEF Noticed
  <2> QED
    BY <2>1, <2>5, <2>6
<1>4. CASE k = "HELLO"
  <2> DEFINE w == SignedHello(v.hello, v.block)
  <2>1. IsHello(v) /\ EncodeAs(k, v) = w
    BY <1>4, ByKind, SentByKind, Zenon
  <2>2. \A p : DecodeAs(k, p) = DecodeHello(p)
    BY <1>4, ByKind, Zenon
  <2>3. \A n \in 0 .. Len(w) - 1 : ~DecodeHello(SubSeq(w, 1, n)).ok
    BY <2>1, HelloCodec, Zenon
  <2>4. \A b \in Byte : DecodeHello(Append(w, b)).value = v
    BY <2>1, HelloCodec, Zenon
  <2> HIDE DEF w
  <2>5. \A n \in 0 .. Len(w) - 1 : Noticed(k, v, SubSeq(w, 1, n))
    BY <1>4, <2>2, <2>3 DEF Noticed
  <2>6. \A b \in Byte : \/ Noticed(k, v, Append(w, b))
                        \/ k = "HELLO" /\ DecodeAs(k, Append(w, b)).value = v
    BY <1>4, <2>2, <2>4 DEF Noticed
  <2> QED
    BY <2>1, <2>5, <2>6
<1>5. CASE k = "did:key"
  <2> DEFINE w == MakeDIDKey(v)
  <2>1. IsKey(v) /\ EncodeAs(k, v) = w
    BY <1>5, ByKind, SentByKind, Zenon
  <2>2. \A p : DecodeAs(k, p) = ParseDIDKey(p)
    BY <1>5, ByKind, Zenon
  <2>3. \A n \in 0 .. Len(w) - 1 : ~ParseDIDKey(SubSeq(w, 1, n)).ok
    BY <2>1, DIDKeyCodec, Zenon
  <2>4. \A b \in Byte : ~ParseDIDKey(Append(w, b)).ok
    BY <2>1, DIDKeyCodec, Zenon
  <2> HIDE DEF w
  <2>5. \A n \in 0 .. Len(w) - 1 : Noticed(k, v, SubSeq(w, 1, n))
    BY <1>5, <2>2, <2>3, SMTT(30) DEF Noticed
  <2>6. \A b \in Byte : \/ Noticed(k, v, Append(w, b))
                        \/ k = "HELLO" /\ DecodeAs(k, Append(w, b)).value = v
    BY <1>5, <2>2, <2>4 DEF Noticed
  <2> QED
    BY <2>1, <2>5, <2>6
<1> QED
  BY <1>1, <1>2, <1>3, <1>4, <1>5 DEF Kinds

-----------------------------------------------------------------------------
INSTANCE WellFoundedInduction

(* Numbers are well ordered, so what the lemmas assume of them holds.       *)
LEMMA WellOrdered == NatIsWellOrdered
<1> SUFFICES ASSUME NEW T, T \subseteq Nat, T # {}
             PROVE  \E x \in T : \A y \in T : x <= y
  BY Zenon DEF NatIsWellOrdered
<1> DEFINE R == OpToRel(<, Nat)
<1>1. IsWellFoundedOn(R, Nat)
  BY NatLessThanWellFounded, Zenon
<1>2. \A x, y \in Nat : x < y => <<x, y>> \in R
  BY DEF OpToRel
<1> HIDE DEF R
<1>3. PICK x \in T : \A y \in T : ~(<<y, x>> \in R)
  BY <1>1, WFMin, Zenon
<1>4. \A y \in T : x <= y
  <2> SUFFICES ASSUME NEW y \in T PROVE x <= y
    OBVIOUS
  <2>1. ~(<<y, x>> \in R)
    BY <1>3
  <2>2. x \in Nat /\ y \in Nat
    OBVIOUS
  <2>3. ~(y < x)
    BY <1>2, <2>1, <2>2, Zenon
  <2> QED
    BY <2>2, <2>3
<1> QED
  BY <1>4

-----------------------------------------------------------------------------
(* The exchange.                                                            *)

(* How the bytes that arrive come from those of the encoder.                *)
Arrived(w) ==
    /\ change = "none" => wire = w
    /\ change = "cut" => \E n \in 0 .. Len(w) - 1 : wire = SubSeq(w, 1, n)
    /\ change = "longer" => \E b \in Byte : wire = Append(w, b)

IInv ==
    /\ kind \in Kinds /\ CanBeSent(kind, value) /\ wire \in Seq(Byte)
    /\ change \in {"none", "cut", "longer", "inserted", "other"}
    /\ Arrived(EncodeAs(kind, value))
    /\ received = NotYet \/ received = DecodeAs(kind, wire)
    /\ \/ forwarded = NotYet
       \/ received.ok /\ forwarded = DecodeAs(kind, EncodeAs(kind, received.value))

(* Before anything arrived nothing was accepted.                            *)
LEMMA NotYetIsNotOk == ~NotYet.ok
BY DEF NotYet

(* Init puts on the wire what the encoder made.                             *)
LEMMA Starts == Init => IInv
<1> SUFFICES ASSUME Init PROVE IInv
  OBVIOUS
<1>1. kind \in Kinds /\ CanBeSent(kind, value)
  BY MessagesAssumption, Zenon DEF Init
<1>2. wire \in Seq(Byte)
  BY <1>1, Sent, WellOrdered, ZenonT(60) DEF Init
<1> QED
  BY <1>1, <1>2 DEF Init, IInv, Arrived

(* What arrives are bytes, however they were changed.                       *)
LEMMA ChangedBytes ==
    ASSUME NEW w \in Seq(Byte)
    PROVE  /\ \A n \in 0 .. Len(w) - 1 : SubSeq(w, 1, n) \in Seq(Byte)
           /\ \A b \in Byte : Append(w, b) \in Seq(Byte)
           /\ \A i \in DOMAIN w, b \in Byte :
                 SubSeq(w, 1, i - 1) \o <<b>> \o SubSeq(w, i, Len(w)) \in Seq(Byte)
           /\ \A i \in DOMAIN w, b \in Byte : [w EXCEPT ![i] = b] \in Seq(Byte)
<1>1. \A n \in 0 .. Len(w) - 1 : SubSeq(w, 1, n) \in Seq(Byte)
  OBVIOUS
<1>2. \A b \in Byte : Append(w, b) \in Seq(Byte)
  OBVIOUS
<1>3. ASSUME NEW i \in DOMAIN w, NEW b \in Byte
      PROVE  SubSeq(w, 1, i - 1) \o <<b>> \o SubSeq(w, i, Len(w)) \in Seq(Byte)
  <2>1. SubSeq(w, 1, i - 1) \in Seq(Byte) /\ <<b>> \in Seq(Byte) /\ SubSeq(w, i, Len(w)) \in Seq(Byte)
    OBVIOUS
  <2> QED
    BY <2>1, ConcatFacts
<1>4. \A i \in DOMAIN w, b \in Byte : [w EXCEPT ![i] = b] \in Seq(Byte)
  OBVIOUS
<1> QED
  BY <1>1, <1>2, <1>3, <1>4

(* Every step keeps the invariant.                                          *)
LEMMA Steps == IInv /\ [Next]_vars => IInv'
<1> SUFFICES ASSUME IInv, [Next]_vars PROVE IInv'
  OBVIOUS
<1> DEFINE w == EncodeAs(kind, value)
           changes == {"none", "cut", "longer", "inserted", "other"}
<1>0. /\ kind \in Kinds /\ CanBeSent(kind, value) /\ wire \in Seq(Byte) /\ change \in changes
      /\ Arrived(w) /\ (received = NotYet \/ received = DecodeAs(kind, wire))
      /\ \/ forwarded = NotYet
         \/ received.ok /\ forwarded = DecodeAs(kind, EncodeAs(kind, received.value))
  BY SMTT(30) DEF IInv
<1>1. ASSUME Unchanged, UNCHANGED <<kind, value, received, forwarded>>, change' \in changes,
             wire' \in Seq(Byte), Arrived(w)'
      PROVE  IInv'
  <2>1. received = NotYet /\ forwarded = NotYet
    BY <1>0, <1>1, NotYetIsNotOk, SMTT(30) DEF Unchanged
  <2>2. kind' = kind /\ value' = value /\ received' = NotYet /\ forwarded' = NotYet
    BY <1>1, <2>1, SMTT(30)
  <2> QED
    BY <1>0, <1>1, <2>2, ZenonT(60) DEF IInv
<1>2. CASE Cut
  <2>1. wire = w
    BY <1>0, <1>2 DEF Cut, Unchanged, Arrived
  <2>2. PICK n \in 0 .. Len(wire) - 1 : wire' = SubSeq(wire, 1, n)
    BY <1>2 DEF Cut
  <2>3. wire' \in Seq(Byte)
    BY <1>0, <2>2, ChangedBytes, SMTT(30)
  <2>4. Arrived(w)'
    BY <1>2, <2>1, <2>2 DEF Cut, Arrived
  <2> QED
    BY <1>1, <1>2, <2>3, <2>4, ZenonT(60) DEF Cut
<1>3. CASE Longer
  <2>1. wire = w
    BY <1>0, <1>3 DEF Longer, Unchanged, Arrived
  <2>2. PICK b \in Byte : wire' = Append(wire, b)
    BY <1>3 DEF Longer
  <2>3. wire' \in Seq(Byte)
    BY <1>0, <2>2, ChangedBytes
  <2>4. Arrived(w)'
    BY <1>3, <2>1, <2>2, ZenonT(60) DEF Longer, Arrived
  <2> QED
    BY <1>1, <1>3, <2>3, <2>4, ZenonT(60) DEF Longer
<1>4. CASE Inserted
  <2>1. wire' \in Seq(Byte)
    BY <1>0, <1>4, ChangedBytes, ZenonT(60) DEF Inserted
  <2>2. Arrived(w)'
    BY <1>4 DEF Inserted, Arrived
  <2> QED
    BY <1>1, <1>4, <2>1, <2>2, ZenonT(60) DEF Inserted
<1>5. CASE OtherByte
  <2>1. wire' \in Seq(Byte)
    BY <1>0, <1>5, ChangedBytes, SMTT(30) DEF OtherByte
  <2>2. Arrived(w)'
    BY <1>5, Zenon DEF OtherByte, Arrived
  <2> QED
    BY <1>1, <1>5, <2>1, <2>2, ZenonT(60) DEF OtherByte
<1>6. CASE Receive
  <2>1. forwarded = NotYet
    BY <1>0, <1>6, NotYetIsNotOk, SMTT(30) DEF Receive
  <2>2. UNCHANGED <<kind, value, wire, change, forwarded>> /\ received' = DecodeAs(kind, wire)
    BY <1>6 DEF Receive
  <2>3. Arrived(w)'
    BY <1>0, <2>2, ZenonT(60) DEF Arrived
  <2> QED
    BY <1>0, <2>1, <2>2, <2>3, ZenonT(60) DEF IInv
<1>7. CASE Forward
  <2>1. UNCHANGED <<kind, value, wire, change, received>> /\ received.ok
        /\ forwarded' = DecodeAs(kind, EncodeAs(kind, received.value))
    BY <1>7 DEF Forward
  <2>2. Arrived(w)'
    BY <1>0, <2>1, ZenonT(60) DEF Arrived
  <2> QED
    BY <1>0, <2>1, <2>2, SMTT(30) DEF IInv
<1>8. CASE UNCHANGED vars
  <2>1. UNCHANGED <<kind, value, wire, change, received, forwarded>>
    BY <1>8, SMTT(30) DEF vars
  <2>2. Arrived(w)'
    BY <1>0, <2>1 DEF Arrived
  <2> QED
    BY <1>0, <2>1, <2>2, SMTT(30) DEF IInv
<1> QED
  BY <1>2, <1>3, <1>4, <1>5, <1>6, <1>7, <1>8, ZenonT(60) DEF Next

(* The invariant holds in every state.                                      *)
LEMMA Invariance == Spec => []IInv
BY Starts, Steps, PTL DEF Spec

(* What is encoded is decoded to the same value, whatever the lengths of    *)
(* the fields and the values sent: CANCEL, INVOKE, BUDGET, HELLO and did:key.*)
THEOREM RoundTrips == Spec => []RoundTrip
<1>1. IInv => RoundTrip
  <2> SUFFICES ASSUME IInv, change = "none", received # NotYet
               PROVE  received.ok /\ received.value = value
    BY DEF RoundTrip
  <2>1. kind \in Kinds /\ CanBeSent(kind, value) /\ received = DecodeAs(kind, wire)
        /\ wire = EncodeAs(kind, value)
    BY DEF IInv, Arrived
  <2> QED
    BY <2>1, Sent, WellOrdered, SMTT(30)
<1> QED
  BY <1>1, Invariance, PTL

(* A payload that is cut, or longer where the code defines no such bytes,   *)
(* is refused, at every place where it is cut and for every byte more.      *)
THEOREM DamageNoticed == Spec => []DamageIsNoticed
<1>1. IInv => DamageIsNoticed
  <2> SUFFICES ASSUME IInv, change \in {"cut", "longer"}, received.ok
               PROVE  \/ kind = "CANCEL" /\ wire = <<>>
                      \/ kind = "INVOKE" /\ \A i \in 1 .. 2 : received.value[i] = value[i]
                      \/ kind = "HELLO" /\ change = "longer" /\ received.value = value
    BY DEF DamageIsNoticed
  <2> DEFINE w == EncodeAs(kind, value)
  <2>1. kind \in Kinds /\ CanBeSent(kind, value) /\ received = DecodeAs(kind, wire) /\ Arrived(w)
    BY NotYetIsNotOk DEF IInv
  <2>2. \/ Noticed(kind, value, wire)
        \/ kind = "HELLO" /\ change = "longer" /\ DecodeAs(kind, wire).value = value
    <3>1. /\ \A n \in 0 .. Len(w) - 1 : Noticed(kind, value, SubSeq(w, 1, n))
          /\ \A b \in Byte : \/ Noticed(kind, value, Append(w, b))
                             \/ kind = "HELLO" /\ DecodeAs(kind, Append(w, b)).value = value
      BY <2>1, Damaged, WellOrdered, SMTT(30)
    <3> HIDE DEF w
    <3>2. CASE change = "cut"
      BY <2>1, <3>1, <3>2, Zenon DEF Arrived
    <3>3. CASE change = "longer"
      BY <2>1, <3>1, <3>3, ZenonT(60) DEF Arrived
    <3> QED
      BY <3>2, <3>3
  <2>3. Noticed(kind, value, wire)
          => \/ kind = "CANCEL" /\ wire = <<>>
             \/ kind = "INVOKE" /\ received.value[1] = value[1] /\ received.value[2] = value[2]
    BY <2>1 DEF Noticed
  <2>4. \A i \in 1 .. 2 : i = 1 \/ i = 2
    OBVIOUS
  <2> QED
    BY <2>1, <2>2, <2>3, <2>4, ZenonT(60)
<1> QED
  BY <1>1, Invariance, PTL

(* What a receiver accepts, from whatever bytes, it can pass on unchanged.  *)
THEOREM CanBeForwarded == Spec => []AcceptedCanBeForwarded
<1>1. IInv => AcceptedCanBeForwarded
  <2> SUFFICES ASSUME IInv, forwarded # NotYet
               PROVE  \/ forwarded.ok /\ forwarded.value = received.value
                      \/ kind = "BUDGET" /\ DOMAIN received.value = {}
    BY DEF AcceptedCanBeForwarded
  <2>1. /\ kind \in Kinds /\ wire \in Seq(Byte) /\ received.ok /\ received = DecodeAs(kind, wire)
        /\ forwarded = DecodeAs(kind, EncodeAs(kind, received.value))
    BY NotYetIsNotOk DEF IInv
  <2>2. CanBeSent(kind, received.value) \/ (kind = "BUDGET" /\ DOMAIN received.value = {})
    BY <2>1, Accepted, WellOrdered
  <2> QED
    BY <2>1, <2>2, Sent, WellOrdered, SMTT(30)
<1> QED
  BY <1>1, Invariance, PTL

(* The bytes that a HELLO's signature covers, with the signature, determine *)
(* the HELLO and its block, however a receiver's bytes were changed.        *)
THEOREM SignedContentFixed == Spec => []SignedContentIsFixed
<1>1. IInv => SignedContentIsFixed
  <2> SUFFICES ASSUME IInv, kind = "HELLO", received.ok, received.value.block[5] = value.block[5],
                      signedMessageBytes(FrameHello, received.inner, received.value.block)
                        = signedMessageBytes(FrameHello, encodeHelloInner(value.hello), value.block)
               PROVE  received.value = value
    BY SMTT(30) DEF SignedContentIsFixed
  <2>1. IsHello(value) /\ wire \in Seq(Byte) /\ received = DecodeHello(wire)
    BY NotYetIsNotOk, SentByKind, ByKind, Zenon DEF IInv
  <2> QED
    BY <2>1, HelloCodec, WellOrdered, ZenonT(60)
<1> QED
  BY <1>1, Invariance, PTL

(* A text that ParseDIDKey accepts is the one that MakeDIDKey gives the key. *)
THEOREM OneText == Spec => []OneTextPerKey
<1>1. IInv => OneTextPerKey
  <2> SUFFICES ASSUME IInv, kind = "did:key", received.ok PROVE MakeDIDKey(received.value) = wire
    BY ZenonT(60) DEF OneTextPerKey
  <2>1. wire \in Seq(Byte) /\ received = ParseDIDKey(wire)
    BY NotYetIsNotOk, ByKind DEF IInv
  <2> QED
    BY <2>1, DIDKeyCodec, WellOrdered
<1> QED
  BY <1>1, Invariance, PTL

=============================================================================
