-------------------------- MODULE FrameStreamProofs -------------------------
(***************************************************************************)
(* Frames on a stream and the parser readFrame, for every sequence of       *)
(* frames, every delivery and every place where the stream ends.            *)
(*                                                                          *)
(* 1. The stream.  DecodeFrom is the recursive function within DecodeAll,   *)
(*    Written(fs)[k] the bytes of the first k frames.                       *)
(* 2. The receiver.  IInv relates its state to the place s where the frame  *)
(*    that it is reading begins.  A step of the reader either advances      *)
(*    within the frame, returns FrameAt(sent, s), or fails as Decode does   *)
(*    (Outcome).                                                            *)
(***************************************************************************)
EXTENDS FrameStream, FieldProofs

-----------------------------------------------------------------------------
(* Decode.                                                                  *)
LEMMA SubSeqOfDrop ==
    ASSUME NEW data \in Seq(Byte), NEW p \in 0 .. Len(data), NEW a \in 0 .. Len(data) - p,
           NEW n \in 0 .. Len(data) - p - a
    PROVE  SubSeq(Drop(data, p), a + 1, a + n) = SubSeq(data, p + a + 1, p + a + n)
<1> DEFINE d == Drop(data, p)
<1>1. d \in Seq(Byte) /\ Len(d) = Len(data) - p /\ \A i \in 1 .. Len(data) - p : d[i] = data[p + i]
  BY DropFacts
<1> HIDE DEF d
<1>2. SubSeq(d, a + 1, a + n) = [i \in 1 .. n |-> d[a + i]]
  <2>1. ASSUME NEW c \in Seq(Byte), NEW j \in Nat, NEW k \in Nat
        PROVE  SubSeq(c, j + 1, j + k) = [i \in 1 .. k |-> c[j + i]]
    BY <2>1
  <2>2. a \in Nat /\ n \in Nat
    OBVIOUS
  <2> QED
    BY <1>1, <2>1, <2>2
<1>3. SubSeq(data, p + a + 1, p + a + n) = [i \in 1 .. n |-> data[p + a + i]]
  OBVIOUS
<1>4. \A i \in 1 .. n : d[a + i] = data[p + a + i]
  BY <1>1, SMTT(30)
<1> QED
  BY <1>2, <1>3, <1>4, Zenon DEF d

(* The varints and the payload of a frame that begins at s.                 *)
OpIDAt(data, s) == ReadVarint(Drop(data, s + 2))

LenAt(data, s) == ReadVarint(Drop(data, s + 2 + OpIDAt(data, s).n))

PayloadAt(data, s) == s + 2 + OpIDAt(data, s).n + LenAt(data, s).n

(* The frame at s has its opID, and its length too.                         *)
HasOpID(data, s) ==
    /\ data \in Seq(Byte) /\ s \in 0 .. Len(data) /\ Len(data) - s >= 2
    /\ OpIDAt(data, s).err = "nil"

HasLen(data, s) == HasOpID(data, s) /\ LenAt(data, s).err = "nil"

FrameAt(data, s) ==
    [type |-> data[s + 1], flags |-> data[s + 2], opID |-> OpIDAt(data, s).value,
     payload |-> SubSeq(data, PayloadAt(data, s) + 1, PayloadAt(data, s) + LenAt(data, s).value)]

(* What Decode makes of the bytes from s on.                                *)
LEMMA OpIDBytes ==
    ASSUME NatIsWellOrdered, NEW data, NEW s, HasOpID(data, s)
    PROVE  /\ OpIDAt(data, s).n \in 1 .. Len(data) - s - 2
           /\ s + 2 + OpIDAt(data, s).n \in s + 3 .. Len(data)
<1>0. data \in Seq(Byte) /\ s \in 0 .. Len(data) /\ s + 2 \in 0 .. Len(data) /\ Len(data) \in Nat
  BY DEF HasOpID
<1>1. Drop(data, s + 2) \in Seq(Byte) /\ Len(Drop(data, s + 2)) = Len(data) - (s + 2)
  BY <1>0, DropFacts
<1>2. OpIDAt(data, s).n \in 1 .. Len(Drop(data, s + 2))
  BY <1>1, ReadVarintCases DEF OpIDAt, HasOpID
<1> QED
  BY <1>0, <1>1, <1>2

(* A payload length that was read lies within the data, with the payload    *)
(* behind.                                                                  *)
LEMMA LenBytes ==
    ASSUME NatIsWellOrdered, NEW data, NEW s, HasLen(data, s)
    PROVE  /\ LenAt(data, s).n \in 1 .. Len(data) - s - 2 - OpIDAt(data, s).n
           /\ PayloadAt(data, s) \in s + 4 .. Len(data)
           /\ LenAt(data, s).value \in Nat
<1> DEFINE o == OpIDAt(data, s).n
           l == LenAt(data, s)
<1>0. /\ data \in Seq(Byte) /\ s \in 0 .. Len(data) /\ Len(data) \in Nat
      /\ s + 2 + o \in 0 .. Len(data) /\ o \in 1 .. Len(data) - s - 2
  BY OpIDBytes DEF HasLen, HasOpID
<1>1. Drop(data, s + 2 + o) \in Seq(Byte) /\ Len(Drop(data, s + 2 + o)) = Len(data) - (s + 2 + o)
  BY <1>0, DropFacts, Zenon
<1>2. l.n \in 1 .. Len(Drop(data, s + 2 + o)) /\ l.value \in Nat
  BY <1>1, ReadVarintCases DEF LenAt, HasLen
<1>3. PayloadAt(data, s) = s + 2 + o + l.n
  BY DEF PayloadAt
<1> HIDE DEF o, l
<1>4. ASSUME NEW k \in Nat, NEW a \in 1 .. k - s - 2, NEW b \in 1 .. k - (s + 2 + a)
      PROVE  b \in 1 .. k - s - 2 - a /\ s + 2 + a + b \in s + 4 .. k
  BY <1>0
<1>5. l.n \in 1 .. Len(data) - s - 2 - o /\ PayloadAt(data, s) \in s + 4 .. Len(data)
  BY <1>0, <1>1, <1>2, <1>3, <1>4
<1> QED
  BY <1>2, <1>5 DEF o, l

(* Decode refuses data in which the header or a varint is not whole.        *)
LEMMA DecodeShort ==
    ASSUME NatIsWellOrdered, NEW data \in Seq(Byte), NEW s \in 0 .. Len(data), ~HasLen(data, s)
    PROVE  Decode(Drop(data, s)) = Refused("ErrShortBuffer")
<1> DEFINE d == Drop(data, s)
           o == OpIDAt(data, s)
           l == LenAt(data, s)
<1>1. d \in Seq(Byte) /\ Len(d) = Len(data) - s
  BY DropFacts
<1>2. CASE Len(data) - s < 2
  <2>1. Len(d) < 2
    BY <1>1, <1>2
  <2> QED
    BY <2>1 DEF Decode
<1>3. CASE Len(data) - s >= 2
  <2>1. ~(Len(d) < 2)
    BY <1>1, <1>3
  <2>2. Drop(d, 2) = Drop(data, s + 2) /\ s + 2 \in 0 .. Len(data)
    BY <1>3, DropDrop
  <2>3. o = ReadVarint(Drop(d, 2))
    BY <2>2 DEF OpIDAt
  <2>4. o.err \in {"nil", "ErrShortBuffer"}
    BY <2>2, DropFacts, ReadVarintCases DEF OpIDAt
  <2>5. CASE o.err # "nil"
    BY <2>1, <2>3, <2>4, <2>5 DEF Decode
  <2>6. CASE o.err = "nil"
    <3>1. HasOpID(data, s)
      BY <1>3, <2>6 DEF HasOpID
    <3>2. o.n \in 1 .. Len(data) - s - 2 /\ s + 2 + o.n \in s + 3 .. Len(data)
      BY <3>1, OpIDBytes
    <3>3. 2 + o.n \in 0 .. Len(data) - s /\ s + (2 + o.n) = s + 2 + o.n
          /\ s + 2 + o.n \in 0 .. Len(data)
      BY <1>3, <3>2, SMTT(30)
    <3>4. Drop(d, 2 + o.n) = Drop(data, s + 2 + o.n)
      BY <3>3, DropDrop
    <3>5. l = ReadVarint(Drop(d, 2 + o.n))
      BY <3>4 DEF LenAt
    <3>6. l.err \in {"nil", "ErrShortBuffer"}
      BY <3>3, DropFacts, ReadVarintCases DEF LenAt
    <3>7. l.err = "ErrShortBuffer"
      BY <3>1, <3>6 DEF HasLen
    <3> QED
      BY <2>1, <2>3, <2>6, <3>5, <3>7 DEF Decode
  <2> QED
    BY <2>5, <2>6
<1> QED
  BY <1>2, <1>3

(* What Decode makes of data whose varints are whole, by the payload        *)
(* length.                                                                  *)
LEMMA DecodeComplete ==
    ASSUME NatIsWellOrdered, NEW data, NEW s, HasLen(data, s)
    PROVE  LET v == LenAt(data, s).value
               e == PayloadAt(data, s)
           IN  Decode(Drop(data, s))
                 = IF v > MaxFrameSize THEN Refused("ErrFrameTooLarge")
                   ELSE IF Len(data) - e < v THEN Refused("ErrShortBuffer")
                   ELSE [err |-> "nil", n |-> e + v - s, frame |-> FrameAt(data, s)]
<1> DEFINE d == Drop(data, s)
           o == OpIDAt(data, s)
           l == LenAt(data, s)
           e == PayloadAt(data, s)
           v == l.value
           p == 2 + o.n + l.n
<1>0. /\ data \in Seq(Byte) /\ s \in 0 .. Len(data) /\ Len(data) - s >= 2 /\ Len(data) \in Nat
      /\ o.err = "nil" /\ l.err = "nil"
  BY DEF HasLen, HasOpID
<1>1. o.n \in 1 .. Len(data) - s - 2 /\ s + 2 + o.n \in s + 3 .. Len(data)
  BY OpIDBytes DEF HasLen
<1>2. l.n \in 1 .. Len(data) - s - 2 - o.n /\ e \in s + 4 .. Len(data) /\ v \in Nat
  BY LenBytes
<1>3. e = s + 2 + o.n + l.n
  BY DEF PayloadAt
<1>4. d \in Seq(Byte) /\ Len(d) = Len(data) - s /\ \A i \in 1 .. Len(data) - s : d[i] = data[s + i]
  BY <1>0, DropFacts
<1>5. ~(Len(d) < 2) /\ d[1] = data[s + 1] /\ d[2] = data[s + 2]
  BY <1>0, <1>4
<1>6. o = ReadVarint(Drop(d, 2))
  BY <1>0, DropDrop DEF OpIDAt
<1>7. l = ReadVarint(Drop(d, 2 + o.n))
  <2>1. 2 + o.n \in 0 .. Len(data) - s /\ s + (2 + o.n) = s + 2 + o.n
    <3>1. ASSUME NEW m \in Nat, NEW x \in 0 .. m, NEW y \in 1 .. m - x - 2
          PROVE  2 + y \in 0 .. m - x /\ x + (2 + y) = x + 2 + y
      BY <3>1
    <3> QED
      BY <1>0, <1>1, <3>1, Zenon
  <2>2. Drop(d, 2 + o.n) = Drop(data, s + 2 + o.n)
    BY <1>0, <2>1, DropDrop, SMTT(30)
  <2> QED
    BY <2>2 DEF LenAt
<1>8. Decode(d) = IF v > MaxFrameSize THEN Refused("ErrFrameTooLarge")
                  ELSE IF Len(d) - p < v THEN Refused("ErrShortBuffer")
                  ELSE [err |-> "nil", n |-> p + v,
                        frame |-> [type |-> d[1], flags |-> d[2], opID |-> o.value,
                                   payload |-> SubSeq(d, p + 1, p + v)]]
  BY <1>0, <1>5, <1>6, <1>7 DEF Decode
<1>9. FrameAt(data, s) = [type |-> data[s + 1], flags |-> data[s + 2], opID |-> o.value,
                          payload |-> SubSeq(data, e + 1, e + v)]
  BY DEF FrameAt
<1> SUFFICES Decode(d) = IF v > MaxFrameSize THEN Refused("ErrFrameTooLarge")
                         ELSE IF Len(data) - e < v THEN Refused("ErrShortBuffer")
                         ELSE [err |-> "nil", n |-> e + v - s, frame |-> FrameAt(data, s)]
  OBVIOUS
<1> HIDE DEF d, o, l, e, v
<1>10. Len(d) - p = Len(data) - e /\ p + v = e + v - s /\ s + p = e /\ p \in 0 .. Len(data) - s
  <2>1. ASSUME NEW k \in Nat, NEW a \in 1 .. k - s - 2, NEW b \in 1 .. k - s - 2 - a
        PROVE  /\ (k - s) - (2 + a + b) = k - (s + 2 + a + b) /\ s + (2 + a + b) = s + 2 + a + b
               /\ 2 + a + b + v = s + 2 + a + b + v - s /\ 2 + a + b \in 0 .. k - s
    BY <1>0, <1>2
  <2>2. /\ (Len(data) - s) - (2 + o.n + l.n) = Len(data) - (s + 2 + o.n + l.n)
        /\ s + (2 + o.n + l.n) = s + 2 + o.n + l.n
        /\ 2 + o.n + l.n + v = s + 2 + o.n + l.n + v - s
        /\ 2 + o.n + l.n \in 0 .. Len(data) - s
    BY <1>0, <1>1, <1>2, <2>1, Zenon
  <2> QED
    BY <1>3, <1>4, <2>2, Zenon
<1>11. CASE ~(v > MaxFrameSize) /\ ~(Len(data) - e < v)
  <2> HIDE DEF p
  <2>1. v \in 0 .. Len(data) - s - p
    BY <1>0, <1>2, <1>10, <1>11
  <2>2. SubSeq(d, p + 1, p + v) = SubSeq(data, s + p + 1, s + p + v)
    BY <1>0, <1>10, <2>1, SubSeqOfDrop, Zenon DEF d
  <2>3. SubSeq(d, p + 1, p + v) = SubSeq(data, e + 1, e + v)
    BY <1>10, <2>2, Zenon
  <2> QED
    BY <1>5, <1>8, <1>9, <1>10, <1>11, <2>3, Zenon
<1> HIDE DEF p
<1> QED
  BY <1>8, <1>10, <1>11

-----------------------------------------------------------------------------
(* Decode of what Encode gives.                                             *)
LEMMA VarintLen ==
    ASSUME NatIsWellOrdered, NEW v \in 0 .. MaxVarint
    PROVE  Varint(v) \in Seq(Byte) /\ Len(Varint(v)) \in Nat
<1>1. Varint(v) \in Seq(Byte)
  BY VarintBytes, Zenon
<1> QED
  BY <1>1

(* What Encode writes, byte by byte.                                        *)
LEMMA EncodeBytes ==
    ASSUME NatIsWellOrdered, NEW f \in Frames
    PROVE  LET a == Varint(f.opID)
               b == Varint(Len(f.payload))
               c == f.payload
           IN  /\ Encode(f) \in Seq(Byte)
               /\ Len(Encode(f)) = 2 + Len(a) + Len(b) + Len(c)
               /\ Encode(f)[1] = f.type /\ Encode(f)[2] = f.flags
               /\ \A i \in 1 .. Len(a) : Encode(f)[2 + i] = a[i]
               /\ \A i \in 1 .. Len(b) : Encode(f)[2 + Len(a) + i] = b[i]
               /\ \A i \in 1 .. Len(c) : Encode(f)[2 + Len(a) + Len(b) + i] = c[i]
<1> DEFINE a == Varint(f.opID)
           b == Varint(Len(f.payload))
           c == f.payload
           h == <<f.type, f.flags>>
           ha == h \o a
           hab == ha \o b
           e == hab \o c
<1>1. /\ f.type \in Byte /\ f.flags \in Byte /\ f.opID \in 0 .. MaxVarint
      /\ c \in Seq(Byte) /\ Len(c) \in 0 .. MaxVarint
  BY DEF Frames
<1>2. a \in Seq(Byte) /\ b \in Seq(Byte) /\ Len(a) \in Nat /\ Len(b) \in Nat /\ Len(c) \in Nat
  <2>1. a \in Seq(Byte) /\ b \in Seq(Byte) /\ Len(a) \in Nat /\ Len(b) \in Nat
    BY <1>1, VarintLen, Zenon
  <2> QED
    BY <1>1, <2>1
<1>3. h \in Seq(Byte) /\ Len(h) = 2 /\ h[1] = f.type /\ h[2] = f.flags
  BY <1>1
<1>4. Encode(f) = e
  BY AppendsVarint, Zenon DEF Encode
<1> SUFFICES /\ e \in Seq(Byte)
             /\ Len(e) = 2 + Len(a) + Len(b) + Len(c)
             /\ e[1] = f.type /\ e[2] = f.flags
             /\ \A i \in 1 .. Len(a) : e[2 + i] = a[i]
             /\ \A i \in 1 .. Len(b) : e[2 + Len(a) + i] = b[i]
             /\ \A i \in 1 .. Len(c) : e[2 + Len(a) + Len(b) + i] = c[i]
  BY <1>4, Zenon
<1> HIDE DEF a, b, c, h
<1>5. /\ ha \in Seq(Byte) /\ Len(ha) = 2 + Len(a) /\ ha[1] = h[1] /\ ha[2] = h[2]
      /\ \A i \in 1 .. Len(a) : ha[2 + i] = a[i]
  <2>1. /\ ha \in Seq(Byte) /\ Len(ha) = Len(h) + Len(a)
        /\ \A i \in 1 .. Len(h) : ha[i] = h[i]
        /\ \A i \in 1 .. Len(a) : ha[Len(h) + i] = a[i]
    BY <1>2, <1>3, ConcatFacts, Zenon
  <2> HIDE DEF ha
  <2> QED
    BY <1>2, <1>3, <2>1
<1> HIDE DEF ha
<1>6. /\ hab \in Seq(Byte) /\ Len(hab) = 2 + Len(a) + Len(b)
      /\ \A i \in 1 .. Len(ha) : hab[i] = ha[i]
      /\ \A i \in 1 .. Len(b) : hab[2 + Len(a) + i] = b[i]
  <2>1. /\ hab \in Seq(Byte) /\ Len(hab) = Len(ha) + Len(b)
        /\ \A i \in 1 .. Len(ha) : hab[i] = ha[i]
        /\ \A i \in 1 .. Len(b) : hab[Len(ha) + i] = b[i]
    BY <1>2, <1>5, ConcatFacts, Zenon
  <2> HIDE DEF hab
  <2> QED
    BY <1>2, <1>5, <2>1, Zenon
<1> HIDE DEF hab
<1>7. /\ e \in Seq(Byte) /\ Len(e) = 2 + Len(a) + Len(b) + Len(c)
      /\ \A i \in 1 .. Len(hab) : e[i] = hab[i]
      /\ \A i \in 1 .. Len(c) : e[2 + Len(a) + Len(b) + i] = c[i]
  <2>1. /\ e \in Seq(Byte) /\ Len(e) = Len(hab) + Len(c)
        /\ \A i \in 1 .. Len(hab) : e[i] = hab[i]
        /\ \A i \in 1 .. Len(c) : e[Len(hab) + i] = c[i]
    BY <1>1, <1>6, ConcatFacts, Zenon
  <2> HIDE DEF e
  <2> QED
    BY <1>2, <1>6, <2>1, Zenon
<1> HIDE DEF e
<1>8. e[1] = f.type /\ e[2] = f.flags
  BY <1>2, <1>3, <1>5, <1>6, <1>7
<1>9. \A i \in 1 .. Len(a) : e[2 + i] = a[i]
  <2> SUFFICES ASSUME NEW i \in 1 .. Len(a) PROVE e[2 + i] = a[i]
    OBVIOUS
  <2>1. 2 + i \in 1 .. Len(ha) /\ 2 + i \in 1 .. Len(hab)
    BY <1>2, <1>5, <1>6
  <2> QED
    BY <1>5, <1>6, <1>7, <2>1
<1>10. \A i \in 1 .. Len(b) : e[2 + Len(a) + i] = b[i]
  <2> SUFFICES ASSUME NEW i \in 1 .. Len(b) PROVE e[2 + Len(a) + i] = b[i]
    OBVIOUS
  <2>1. 2 + Len(a) + i \in 1 .. Len(hab)
    BY <1>2, <1>6
  <2> QED
    BY <1>6, <1>7, <2>1
<1> QED
  BY <1>7, <1>8, <1>9, <1>10

(* A piece of what the bytes begin as.                                      *)
LEMMA BeginsAsPart ==
    ASSUME NEW data \in Seq(Byte), NEW s \in Nat, NEW w \in Seq(Byte), BeginsAs(data, s, w),
           NEW k \in Nat, s + k <= Len(data), NEW v \in Seq(Byte), k + Len(v) <= Len(w),
           \A i \in 1 .. Len(v) : w[k + i] = v[i]
    PROVE  BeginsAs(Drop(data, s + k), 0, v)
<1> DEFINE d == Drop(data, s + k)
<1>1. s + k \in 0 .. Len(data)
  OBVIOUS
<1>2. Len(d) = Len(data) - (s + k) /\ \A i \in 1 .. Len(data) - (s + k) : d[i] = data[(s + k) + i]
  BY <1>1, DropFacts, Zenon
<1> HIDE DEF d
<1>3. ASSUME NEW i \in 1 .. Len(v), 0 + i <= Len(d) PROVE d[0 + i] = v[i]
  <2>1. /\ 0 + i = i /\ i \in 1 .. Len(data) - (s + k) /\ (s + k) + i = s + (k + i)
        /\ k + i \in 1 .. Len(w) /\ s + (k + i) <= Len(data)
    BY <1>2, <1>3
  <2>2. data[s + (k + i)] = w[k + i]
    BY <2>1, SMTT(30) DEF BeginsAs
  <2> QED
    BY <1>2, <2>1, <2>2
<1> QED
  BY <1>3 DEF BeginsAs, d

(* SendFrame and readFrame's format are inverse: where the bytes begin as   *)
(* an encoded frame does, the frame that is read there is that frame.       *)
LEMMA DecodesWhatWasSent ==
    ASSUME NatIsWellOrdered,
           NEW data, NEW s, HasLen(data, s), NEW f \in Frames, BeginsAs(data, s, Encode(f)),
           Len(data) - PayloadAt(data, s) >= LenAt(data, s).value
    PROVE  /\ FrameAt(data, s) = f
           /\ PayloadAt(data, s) + LenAt(data, s).value = s + Len(Encode(f))
<1> DEFINE a == Varint(f.opID)
           b == Varint(Len(f.payload))
           c == f.payload
           w == Encode(f)
           o == OpIDAt(data, s)
           l == LenAt(data, s)
<1>0. /\ data \in Seq(Byte) /\ s \in 0 .. Len(data) /\ Len(data) - s >= 2 /\ Len(data) \in Nat
      /\ o.err = "nil" /\ l.err = "nil" /\ HasOpID(data, s)
  BY DEF HasLen, HasOpID
<1>1. /\ f.type \in Byte /\ f.flags \in Byte /\ f.opID \in 0 .. MaxVarint
      /\ c \in Seq(Byte) /\ Len(c) \in 0 .. MaxVarint /\ Len(c) \in Nat
      /\ f = [type |-> f.type, flags |-> f.flags, opID |-> f.opID, payload |-> c]
  BY DEF Frames
<1>2. a \in Seq(Byte) /\ b \in Seq(Byte) /\ Len(a) \in Nat /\ Len(b) \in Nat
  BY <1>1, VarintLen, Zenon
<1>3. /\ w \in Seq(Byte) /\ Len(w) = 2 + Len(a) + Len(b) + Len(c)
      /\ w[1] = f.type /\ w[2] = f.flags
      /\ \A i \in 1 .. Len(a) : w[2 + i] = a[i]
      /\ \A i \in 1 .. Len(b) : w[2 + Len(a) + i] = b[i]
      /\ \A i \in 1 .. Len(c) : w[2 + Len(a) + Len(b) + i] = c[i]
  BY EncodeBytes, Zenon
<1>3a. Len(w) = 2 + Len(a) + Len(b) + Len(c)
  BY <1>3
<1> HIDE DEF w, c
<1>4. o.n = Len(a) /\ o.value = f.opID
  <2>1. BeginsAs(Drop(data, s + 2), 0, a)
    <3>1. 2 + Len(a) <= Len(w) /\ s + 2 <= Len(data) /\ s \in Nat
      BY <1>0, <1>1, <1>2, <1>3
    <3> HIDE DEF a
    <3> QED
      BY <1>0, <1>2, <1>3, <3>1, BeginsAsPart, ZenonT(60) DEF w
  <2>2. Drop(data, s + 2) \in Seq(Byte)
    BY <1>0, DropFacts
  <2> QED
    BY <1>0, <1>1, <2>1, <2>2, VarintIsRead DEF OpIDAt
<1>5. o.n \in 1 .. Len(data) - s - 2 /\ s + 2 + o.n \in s + 3 .. Len(data)
  BY <1>0, OpIDBytes
<1>6. l.n = Len(b) /\ l.value = Len(c)
  <2>1. BeginsAs(Drop(data, s + (2 + Len(a))), 0, b)
    <3>0. ASSUME NEW i \in Nat, NEW j \in Nat, NEW k \in Nat, NEW m \in Nat,
                 NEW q \in 0 .. m, q + 2 + i \in q + 3 .. m
          PROVE  /\ (2 + i) + j <= 2 + i + j + k /\ q + (2 + i) <= m /\ q \in Nat
                 /\ 2 + i \in Nat
      BY <3>0
    <3>1. /\ (2 + Len(a)) + Len(b) <= Len(w) /\ s + (2 + Len(a)) <= Len(data) /\ s \in Nat
          /\ 2 + Len(a) \in Nat
      <4>1. s + 2 + Len(a) \in s + 3 .. Len(data)
        BY <1>4, <1>5
      <4> HIDE DEF a, b
      <4> QED
        BY <1>0, <1>1, <1>2, <1>3a, <3>0, <4>1, SMTT(30)
    <3> HIDE DEF a, b
    <3> QED
      BY <1>0, <1>2, <1>3, <3>1, BeginsAsPart, Zenon DEF w
  <2>2. s + (2 + Len(a)) = s + 2 + o.n
    BY <1>0, <1>2, <1>4
  <2>3. Drop(data, s + 2 + o.n) \in Seq(Byte)
    BY <1>0, <1>5, DropFacts
  <2>4. BeginsAs(Drop(data, s + 2 + o.n), 0, b)
    BY <2>1, <2>2
  <2> QED
    BY <1>0, <1>1, <2>3, <2>4, VarintIsRead DEF LenAt, c
<1> DEFINE e == PayloadAt(data, s)
           v == l.value
<1>7. e = s + 2 + Len(a) + Len(b) /\ e \in s + 4 .. Len(data) /\ v = Len(c)
  BY <1>4, <1>6, LenBytes DEF PayloadAt
<1>7a. Len(data) - e >= v
  OBVIOUS
<1>7b. FrameAt(data, s) = [type |-> data[s + 1], flags |-> data[s + 2], opID |-> o.value,
                           payload |-> SubSeq(data, e + 1, e + v)]
  BY DEF FrameAt
<1> HIDE DEF a, b, o, l, e, v
<1>8. SubSeq(data, e + 1, e + v) = c
  <2> DEFINE x == SubSeq(data, e + 1, e + v)
  <2>1. e \in 0 .. Len(data) /\ v \in 0 .. Len(data) - e
    BY <1>0, <1>1, <1>7, <1>7a
  <2>2. x \in Seq(Byte) /\ Len(x) = v /\ \A i \in 1 .. v : x[i] = data[e + i]
    BY <1>0, <2>1, SubSeqFacts, Zenon
  <2> HIDE DEF x
  <2>3. ASSUME NEW i \in 1 .. v PROVE data[e + i] = c[i]
    <3>1. e + i = s + (2 + Len(a) + Len(b) + i) /\ e + i <= Len(data)
          /\ 2 + Len(a) + Len(b) + i \in 1 .. Len(w)
      <4>1. s \in Nat /\ i \in Nat /\ i >= 1 /\ i <= v /\ Len(c) \in Nat
        BY <1>0, <1>1, <1>7
      <4> QED
        BY <1>0, <1>2, <1>3a, <1>7, <2>1, <4>1, SMTT(30)
    <3>2. data[s + (2 + Len(a) + Len(b) + i)] = w[2 + Len(a) + Len(b) + i]
      BY <3>1 DEF BeginsAs, w
    <3> QED
      BY <1>3, <1>7, <3>1, <3>2, Zenon
  <2>4. x = c
    BY <1>1, <1>7, <2>2, <2>3, SameBytes, SMTT(30)
  <2> QED
    BY <2>4 DEF x
<1>9. data[s + 1] = f.type /\ data[s + 2] = f.flags
  <2>1. 1 \in 1 .. Len(w) /\ 2 \in 1 .. Len(w) /\ s + 1 <= Len(data) /\ s + 2 <= Len(data)
    BY <1>0, <1>1, <1>2, <1>3, SMTT(30)
  <2> QED
    BY <1>3, <2>1 DEF BeginsAs, w
<1>10. FrameAt(data, s) = f
  BY <1>1, <1>4, <1>7b, <1>8, <1>9, Zenon
<1>11. e + v = s + Len(w)
  <2>1. s \in Nat /\ Len(c) \in Nat
    BY <1>0, <1>1
  <2> QED
    BY <1>2, <1>3a, <1>7, <2>1
<1> QED
  BY <1>10, <1>11 DEF e, v, l, w

(* ReadVarint fails where the bytes that the first one announces are        *)
(* missing.                                                                 *)
LEMMA VarintIsShort ==
    ASSUME NatIsWellOrdered, NEW data \in Seq(Byte), NEW p \in 0 .. Len(data),
           p # Len(data) => Len(data) - p < Sizes[data[p + 1] \div Q + 1]
    PROVE  ReadVarint(Drop(data, p)).err # "nil"
<1>1. CASE p = Len(data)
  <2>1. Drop(data, p) \in Seq(Byte) /\ Drop(data, p) = <<>>
    BY <1>1, DropFacts
  <2> QED
    BY <2>1, ReadVarintCases
<1>2. CASE p # Len(data)
  <2>1. p \in 0 .. Len(data) - 1
    BY <1>2
  <2> DEFINE d == Drop(data, p)
  <2>2. d \in Seq(Byte) /\ Len(d) < Sizes[d[1] \div Q + 1]
    BY <1>2, <2>1, VarintClass
  <2> HIDE DEF d
  <2>3. ReadVarint(d).err = "ErrShortBuffer"
    BY <2>2, ReadVarintCases
  <2> QED
    BY <2>3 DEF d
<1> QED
  BY <1>1, <1>2

-----------------------------------------------------------------------------
(* Frames by themselves.                                                    *)

(* Decode reads back the frame that Encode wrote, whatever follows it: the     *)
(* argument, from the well-ordering of the natural numbers.                    *)
LEMMA EncodedIsDecoded ==
    ASSUME NatIsWellOrdered,
           NEW f \in Frames, Len(f.payload) <= MaxFrameSize, NEW rest \in Seq(Byte)
    PROVE  Decode(Encode(f) \o rest) = [err |-> "nil", n |-> Len(Encode(f)), frame |-> f]
<1> DEFINE a == Varint(f.opID)
           b == Varint(Len(f.payload))
           c == f.payload
           w == Encode(f)
           data == w \o rest
           A == Len(a)
           B == Len(b)
<1>1. /\ f.opID \in 0 .. MaxVarint /\ c \in Seq(Byte) /\ Len(c) \in 0 .. MaxVarint
      /\ Len(c) \in Nat
  BY DEF Frames
<1>2. a \in Seq(Byte) /\ b \in Seq(Byte) /\ A \in Nat /\ B \in Nat
  BY <1>1, VarintLen, Zenon
<1>3. /\ w \in Seq(Byte) /\ Len(w) = 2 + A + B + Len(c)
      /\ \A i \in 1 .. A : w[2 + i] = a[i]
      /\ \A i \in 1 .. B : w[2 + A + i] = b[i]
  BY EncodeBytes, Zenon
<1>4. /\ data \in Seq(Byte) /\ Len(data) = Len(w) + Len(rest)
      /\ \A i \in 1 .. Len(w) : data[i] = w[i]
  BY <1>3, ConcatFacts, Zenon
<1>5. Len(rest) \in Nat
  OBVIOUS
<1> SUFFICES Decode(data) = [err |-> "nil", n |-> Len(w), frame |-> f]
  OBVIOUS
<1> HIDE DEF w, data, a, b, c
<1>6. BeginsAs(data, 0, w)
  <2>1. ASSUME NEW i \in 1 .. Len(w) PROVE 0 + i = i
    BY <1>1, <1>2, <1>3, <2>1
  <2> QED
    BY <1>4, <2>1 DEF BeginsAs
<1>7. /\ 2 \in 0 .. Len(data) /\ 2 + A \in 0 .. Len(data) /\ Len(data) - 2 >= A
      /\ Len(data) - (2 + A) >= B /\ Len(data) \in Nat /\ 2 + A <= Len(w)
      /\ 2 + A + B <= Len(w) /\ 0 + 2 = 2 /\ 0 + (2 + A) = 2 + A /\ 2 + A \in Nat
      /\ (2 + A) + B <= Len(w) /\ 0 + 2 <= Len(data) /\ 0 + (2 + A) <= Len(data)
  <2> HIDE DEF A, B
  <2> QED
    BY <1>1, <1>2, <1>3, <1>4, <1>5
<1>8. BeginsAs(Drop(data, 2), 0, a)
  <2>1. BeginsAs(Drop(data, 0 + 2), 0, a)
    BY <1>2, <1>3, <1>4, <1>6, <1>7, BeginsAsPart, ZenonT(60)
  <2> QED
    BY <1>7, <2>1
<1>9. OpIDAt(data, 0).err = "nil" /\ OpIDAt(data, 0).n = A
  <2>1. ReadVarint(Drop(data, 2)).err = "nil" /\ ReadVarint(Drop(data, 2)).n = A
    BY <1>1, <1>4, <1>7, <1>8, VarintComplete, SMTT(30) DEF a
  <2> QED
    BY <1>7, <2>1 DEF OpIDAt
<1>10. BeginsAs(Drop(data, 2 + A), 0, b)
  <2>1. BeginsAs(Drop(data, 0 + (2 + A)), 0, b)
    BY <1>2, <1>3, <1>4, <1>6, <1>7, BeginsAsPart, ZenonT(60)
  <2> QED
    BY <1>7, <2>1
<1>11. /\ LenAt(data, 0).err = "nil" /\ LenAt(data, 0).n = B /\ LenAt(data, 0).value = Len(c)
  <2>1. LET r == ReadVarint(Drop(data, 2 + A))
        IN  r.err = "nil" /\ r.n = B /\ r.value = Len(c)
    BY <1>1, <1>4, <1>7, <1>10, VarintComplete, SMTT(30) DEF b, c
  <2>2. 0 + 2 + OpIDAt(data, 0).n = 2 + A
    BY <1>7, <1>9
  <2> QED
    BY <2>1, <2>2 DEF LenAt
<1>12. HasLen(data, 0)
  <2>1. 0 \in 0 .. Len(data) /\ Len(data) - 0 >= 2
    BY <1>7
  <2> QED
    BY <1>4, <1>9, <1>11, <2>1 DEF HasLen, HasOpID
<1> DEFINE e == PayloadAt(data, 0)
           v == LenAt(data, 0).value
<1>13. e = 2 + A + B /\ v = Len(c)
  BY <1>2, <1>7, <1>9, <1>11, Zenon DEF PayloadAt
<1> HIDE DEF A, B
<1>14. Len(data) - e >= v /\ ~(Len(data) - e < v) /\ ~(v > MaxFrameSize)
  <2>1. Len(c) <= MaxFrameSize
    BY DEF c
  <2> HIDE DEF e, v
  <2> QED
    BY <1>1, <1>2, <1>3, <1>4, <1>5, <1>13, <2>1, FrameAssumption, SMTT(30)
<1>15. FrameAt(data, 0) = f /\ e + v = 0 + Len(w)
  <2>1. BeginsAs(data, 0, Encode(f))
    BY <1>6 DEF w
  <2> QED
    BY <1>12, <1>14, <2>1, DecodesWhatWasSent DEF w
<1>16. Decode(Drop(data, 0)) = [err |-> "nil", n |-> e + v - 0, frame |-> f]
  BY <1>12, <1>14, <1>15, DecodeComplete
<1>17. Drop(data, 0) = data
  <2>1. 0 \in 0 .. Len(data)
    BY <1>7
  <2> DEFINE d == Drop(data, 0)
  <2>2. /\ d \in Seq(Byte) /\ Len(d) = Len(data) - 0
        /\ \A i \in 1 .. Len(data) - 0 : d[i] = data[0 + i]
    BY <1>4, <2>1, DropFacts
  <2> HIDE DEF d
  <2>3. Len(d) = Len(data) /\ \A i \in 1 .. Len(d) : d[i] = data[i]
    BY <1>7, <2>2
  <2>4. d = data
    BY <1>4, <2>2, <2>3, SameBytes
  <2> QED
    BY <2>4 DEF d
<1>18. e + v - 0 = Len(w)
  <2> HIDE DEF e, v
  <2> QED
    BY <1>1, <1>2, <1>3, <1>13, <1>15, SMTT(30)
<1> QED
  BY <1>16, <1>17, <1>18

-----------------------------------------------------------------------------
(* All the frames of the bytes sent: DecodeAll is a recursive function of   *)
(* the place where the next frame begins.                                   *)
AnyFrame == [type : Byte, flags : Byte, opID : Nat, payload : Seq(Byte)]

DecodeErrors == {"nil", "ErrShortBuffer", "ErrFrameTooLarge"}

Decoded == [frames : Seq(AnyFrame), err : DecodeErrors, end : Nat]

(* One step of DecodeAll's function: r is what Decode returns at p.         *)
From(r, p, g) ==
    IF r.err # "nil" THEN [frames |-> <<>>, err |-> r.err, end |-> p]
    ELSE [g[p + r.n] EXCEPT !.frames = <<r.frame>> \o @]

IsFrom(g, data) == g = [p \in 0 .. Len(data) |-> From(Decode(Drop(data, p)), p, g)]

DecodeFrom(data) == CHOOSE g : IsFrom(g, data)

(* The decoded rest of a stream is of its type; where Decode refuses, it ends; *)
(* and where Decode finds a frame, it is that frame and the rest behind it. *)
LEMMA DecodeAllFacts ==
    ASSUME NatIsWellOrdered
    PROVE  /\ \A data \in Seq(Byte) :
                  \A s \in 0 .. Len(data) : DecodeFrom(data)[s] \in Decoded
           /\ \A data \in Seq(Byte) : \A s \in 0 .. Len(data) :
                  Decode(Drop(data, s)).err # "nil"
                  => /\ DecodeFrom(data)[s].frames = <<>>
                     /\ DecodeFrom(data)[s].err = Decode(Drop(data, s)).err
           /\ \A data \in Seq(Byte) : \A s \in 0 .. Len(data) :
                  Decode(Drop(data, s)).err = "nil"
                  => LET r == Decode(Drop(data, s))
                         g == DecodeFrom(data)
                     IN  /\ s + r.n \in 0 .. Len(data)
                         /\ g[s].frames = <<r.frame>> \o g[s + r.n].frames
                         /\ g[s].err = g[s + r.n].err
<1>DecodeResult.
    ASSUME NEW data \in Seq(Byte), NEW s \in 0 .. Len(data)
    PROVE  LET r == Decode(Drop(data, s))
           IN  /\ r.err \in DecodeErrors
               /\ r.err = "nil" => /\ r.n \in 1 .. Len(data) - s
                                   /\ r.frame \in AnyFrame
  <2> DEFINE r == Decode(Drop(data, s))
  <2>1. CASE ~HasLen(data, s)
    BY <2>1, DecodeShort DEF Refused, DecodeErrors
  <2>2. CASE HasLen(data, s)
    <3> DEFINE v == LenAt(data, s).value
               e == PayloadAt(data, s)
    <3>1. e \in s + 4 .. Len(data) /\ v \in Nat
      BY <2>2, LenBytes
    <3>2. r = IF v > MaxFrameSize THEN Refused("ErrFrameTooLarge")
              ELSE IF Len(data) - e < v THEN Refused("ErrShortBuffer")
              ELSE [err |-> "nil", n |-> e + v - s, frame |-> FrameAt(data, s)]
      BY <2>2, DecodeComplete
    <3> SUFFICES /\ r.err \in DecodeErrors
                 /\ r.err = "nil" => r.n \in 1 .. Len(data) - s /\ r.frame \in AnyFrame
      OBVIOUS
    <3>3. CASE v > MaxFrameSize \/ Len(data) - e < v
      BY <3>2, <3>3 DEF Refused, DecodeErrors
    <3>4. CASE ~(v > MaxFrameSize \/ Len(data) - e < v)
      <4>1. r = [err |-> "nil", n |-> e + v - s, frame |-> FrameAt(data, s)]
        BY <3>2, <3>4
      <4>2. data[s + 1] \in Byte /\ data[s + 2] \in Byte
        BY <3>1
      <4>3. OpIDAt(data, s).value \in Nat
        <5>1. Drop(data, s + 2) \in Seq(Byte) /\ OpIDAt(data, s).err = "nil"
          BY <2>2, DropFacts, SMTT(30) DEF HasLen, HasOpID
        <5> QED
          BY <5>1, ReadVarintCases DEF OpIDAt
      <4>4. SubSeq(data, e + 1, e + v) \in Seq(Byte)
        <5>1. e \in 0 .. Len(data) /\ v \in 0 .. Len(data) - e
          BY <3>1, <3>4
        <5> HIDE DEF e, v
        <5> QED
          BY <5>1, SubSeqFacts
      <4>5. FrameAt(data, s) \in AnyFrame
        BY <4>2, <4>3, <4>4 DEF FrameAt, AnyFrame
      <4>6. e + v - s \in 1 .. Len(data) - s
        <5> HIDE DEF e, v
        <5> QED
          BY <3>1, <3>4
      <4> HIDE DEF e, v
      <4> QED
        BY <4>1, <4>5, <4>6 DEF DecodeErrors
    <3> QED
      BY <3>3, <3>4
  <2> QED
    BY <2>1, <2>2
<1>FromSame.
    ASSUME NEW r, NEW p, NEW g, NEW h, r.err = "nil" => g[p + r.n] = h[p + r.n]
    PROVE  From(r, p, g) = From(r, p, h)
  BY <1>FromSame, Zenon DEF From
<1>FromExists.
    ASSUME NEW data \in Seq(Byte)
    PROVE  \E g : IsFrom(g, data)
  <2> DEFINE n == Len(data)
             d(p) == Decode(Drop(data, p))
             IsTail(g, k) == g = [p \in n - k .. n |-> From(d(p), p, g)]
             P == {k \in 0 .. n : \E g : IsTail(g, k)}
  <2>0. n \in Nat
    OBVIOUS
  <2>1. \A p \in 0 .. n : d(p).err = "nil" => d(p).n \in 1 .. n - p
    BY <1>DecodeResult
  <2> HIDE DEF d, n
  <2>2. 0 \in P
    <3> DEFINE g == [p \in n - 0 .. n |-> From(d(p), p, <<>>)]
    <3>1. ASSUME NEW p \in n - 0 .. n PROVE From(d(p), p, <<>>) = From(d(p), p, g)
      <4>1. p = n /\ p \in 0 .. n
        BY <2>0
      <4>2. d(p).err # "nil"
        BY <2>0, <2>1, <4>1
      <4> QED
        BY <4>2, <1>FromSame
    <3>2. IsTail(g, 0)
      BY <3>1
    <3> HIDE DEF IsTail
    <3> QED
      BY <2>0, <3>2
  <2>3. \A k \in 0 .. n - 1 : k \in P => k + 1 \in P
    <3> SUFFICES ASSUME NEW k \in 0 .. n - 1, k \in P PROVE k + 1 \in P
      OBVIOUS
    <3>1. PICK g : IsTail(g, k)
      OBVIOUS
    <3> DEFINE m == n - (k + 1)
               h == [p \in m .. n |-> IF p = m THEN From(d(p), p, g) ELSE g[p]]
    <3>2. m \in 0 .. n /\ \A p \in m .. n : p \in 0 .. n /\ (p # m => p \in n - k .. n)
      BY <2>0
    <3>3. ASSUME NEW p \in m .. n PROVE h[p] = From(d(p), p, h)
      <4>1. h[p] = From(d(p), p, g)
        <5>1. CASE p = m
          BY <5>1
        <5>2. CASE p # m
          BY <3>1, <3>2, <5>2, Zenon
        <5> QED
          BY <5>1, <5>2
      <4>2. ASSUME d(p).err = "nil" PROVE g[p + d(p).n] = h[p + d(p).n]
        <5>1. d(p).n \in 1 .. n - p
          BY <2>1, <3>2, <4>2
        <5>2. p + d(p).n \in m .. n /\ p + d(p).n # m
          BY <2>0, <3>2, <5>1
        <5> QED
          BY <5>2
      <4> HIDE DEF h
      <4> QED
        BY <4>1, <4>2, <1>FromSame
    <3>4. IsTail(h, k + 1)
      <4>1. h = [p \in m .. n |-> h[p]]
        OBVIOUS
      <4> HIDE DEF h
      <4> QED
        BY <3>3, <4>1
    <3> HIDE DEF IsTail, m, h
    <3> QED
      BY <2>0, <3>4
  <2>4. n \in P
    <3> HIDE DEF P
    <3>1. 0 .. n \subseteq P
      BY <2>0, <2>2, <2>3, Induction
    <3> QED
      BY <2>0, <3>1
  <2>5. PICK g : IsTail(g, n)
    BY <2>4
  <2>6. n - n = 0
    BY <2>0
  <2> QED
    BY <2>5, <2>6 DEF IsFrom, d, n
<1>DecodeFromStep.
    ASSUME NEW data \in Seq(Byte), NEW s \in 0 .. Len(data)
    PROVE  DecodeFrom(data)[s] = From(Decode(Drop(data, s)), s, DecodeFrom(data))
  <2>1. IsFrom(DecodeFrom(data), data)
    BY <1>FromExists, Zenon DEF DecodeFrom
  <2> DEFINE g == DecodeFrom(data)
  <2>2. g = [p \in 0 .. Len(data) |-> From(Decode(Drop(data, p)), p, g)]
    BY <2>1 DEF IsFrom
  <2> HIDE DEF g
  <2>3. g[s] = From(Decode(Drop(data, s)), s, g)
    BY <2>2
  <2> QED
    BY <2>3 DEF g
<1>DecodeFromType.
    ASSUME NEW data \in Seq(Byte)
    PROVE  \A s \in 0 .. Len(data) : DecodeFrom(data)[s] \in Decoded
  <2> DEFINE n == Len(data)
             g == DecodeFrom(data)
             d(p) == Decode(Drop(data, p))
             P == {k \in 0 .. n : \A j \in 0 .. k : g[n - j] \in Decoded}
  <2>0. n \in Nat
    OBVIOUS
  <2>1. \A p \in 0 .. n : /\ d(p).err \in DecodeErrors
                          /\ d(p).err = "nil" => d(p).n \in 1 .. n - p /\ d(p).frame \in AnyFrame
    BY <1>DecodeResult
  <2>2. \A p \in 0 .. n : g[p] = From(d(p), p, g)
    BY <1>DecodeFromStep
  <2> HIDE DEF d, n, g
  <2>3. ASSUME NEW p \in 0 .. n, \A q \in p + 1 .. n : g[q] \in Decoded PROVE g[p] \in Decoded
    <3>1. CASE d(p).err # "nil"
      <4>1. g[p] = [frames |-> <<>>, err |-> d(p).err, end |-> p]
        BY <2>2, <3>1, Zenon DEF From
      <4>2. d(p).err \in DecodeErrors /\ p \in Nat /\ <<>> \in Seq(AnyFrame)
        BY <2>0, <2>1
      <4> QED
        BY <4>1, <4>2 DEF Decoded
    <3>2. CASE d(p).err = "nil"
      <4>1. d(p).n \in 1 .. n - p /\ d(p).frame \in AnyFrame
        BY <2>1, <3>2
      <4>2. p + d(p).n \in p + 1 .. n
        BY <2>0, <4>1
      <4>3. g[p + d(p).n] \in Decoded
        BY <2>3, <4>2
      <4>4. g[p] = [g[p + d(p).n] EXCEPT !.frames = <<d(p).frame>> \o @]
        BY <2>2, <3>2, Zenon DEF From
      <4>5. ASSUME NEW r \in Decoded, NEW f \in AnyFrame
            PROVE  [r EXCEPT !.frames = <<f>> \o @] \in Decoded
        <5>1. r.frames \in Seq(AnyFrame)
          BY DEF Decoded
        <5>2. <<f>> \o r.frames \in Seq(AnyFrame)
          BY <5>1
        <5> QED
          BY <5>2, Zenon DEF Decoded
      <4> QED
        BY <4>1, <4>3, <4>4, <4>5, Zenon
    <3> QED
      BY <3>1, <3>2
  <2>4. 0 \in P
    <3>1. \A q \in n + 1 .. n : g[q] \in Decoded
      BY <2>0
    <3>2. g[n] \in Decoded
      BY <2>0, <2>3, <3>1
    <3>3. \A j \in 0 .. 0 : n - j = n
      BY <2>0
    <3> QED
      BY <2>0, <3>2, <3>3
  <2>5. \A k \in 0 .. n - 1 : k \in P => k + 1 \in P
    <3> SUFFICES ASSUME NEW k \in 0 .. n - 1, k \in P PROVE k + 1 \in P
      OBVIOUS
    <3> DEFINE m == n - (k + 1)
    <3>1. m \in 0 .. n /\ k + 1 \in 0 .. n
      BY <2>0
    <3>2. ASSUME NEW q \in m + 1 .. n PROVE g[q] \in Decoded
      <4>1. n - q \in 0 .. k /\ n - (n - q) = q
        BY <2>0
      <4> QED
        BY <4>1
    <3>3. g[m] \in Decoded
      BY <2>3, <3>1, <3>2
    <3>4. ASSUME NEW j \in 0 .. k + 1 PROVE g[n - j] \in Decoded
      <4>1. j \in 0 .. k \/ j = k + 1
        OBVIOUS
      <4> QED
        BY <3>3, <4>1
    <3> QED
      BY <3>1, <3>4
  <2>6. n \in P
    <3> HIDE DEF P
    <3>1. 0 .. n \subseteq P
      BY <2>0, <2>4, <2>5, Induction
    <3> QED
      BY <2>0, <3>1
  <2>7. ASSUME NEW s \in 0 .. n PROVE g[s] \in Decoded
    <3>1. n - s \in 0 .. n /\ n - (n - s) = s
      BY <2>0
    <3> QED
      BY <2>6, <3>1
  <2> QED
    BY <2>7 DEF g, n
(* Where Decode refuses, nothing more is decoded; where it does not, its    *)
(* frame comes before those that follow.                                    *)
<1>DecodeFromRefused.
    ASSUME NEW data \in Seq(Byte), NEW s \in 0 .. Len(data), Decode(Drop(data, s)).err # "nil"
    PROVE  /\ DecodeFrom(data)[s].frames = <<>>
           /\ DecodeFrom(data)[s].err = Decode(Drop(data, s)).err
  <2> USE <1>DecodeFromRefused
  <2>1. DecodeFrom(data)[s] = [frames |-> <<>>, err |-> Decode(Drop(data, s)).err, end |-> s]
    BY <1>DecodeFromStep, Zenon DEF From
  <2> QED
    BY <2>1
<1>DecodeFromFrame.
    ASSUME NEW data \in Seq(Byte), NEW s \in 0 .. Len(data), Decode(Drop(data, s)).err = "nil"
    PROVE  LET r == Decode(Drop(data, s))
               g == DecodeFrom(data)
           IN  /\ s + r.n \in 0 .. Len(data)
               /\ g[s].frames = <<r.frame>> \o g[s + r.n].frames
               /\ g[s].err = g[s + r.n].err
  <2> USE <1>DecodeFromFrame
  <2> DEFINE r == Decode(Drop(data, s))
             g == DecodeFrom(data)
  <2>1. r.n \in 1 .. Len(data) - s
    BY <1>DecodeResult
  <2>2. s + r.n \in 0 .. Len(data)
    BY <2>1
  <2>3. g[s + r.n] \in Decoded
    BY <2>2, <1>DecodeFromType
  <2>4. g[s] = [g[s + r.n] EXCEPT !.frames = <<r.frame>> \o @]
    BY <1>DecodeFromStep, Zenon DEF From
  <2>5. ASSUME NEW x \in Decoded, NEW y, NEW f, y = [x EXCEPT !.frames = <<f>> \o @]
        PROVE  y.frames = <<f>> \o x.frames /\ y.err = x.err
    BY <2>5 DEF Decoded
  <2> HIDE DEF r, g
  <2>6. g[s].frames = <<r.frame>> \o g[s + r.n].frames /\ g[s].err = g[s + r.n].err
    BY <2>3, <2>4, <2>5, ZenonT(60)
  <2> QED
    BY <2>2, <2>6 DEF r, g
<1> QED
  BY <1>DecodeFromType, <1>DecodeFromRefused, <1>DecodeFromFrame

-----------------------------------------------------------------------------
(* What SendFrame writes, frame by frame.                                   *)
IsWritten(g, fs) ==
    g = [k \in 0 .. Len(fs) |-> IF k = 0 THEN <<>> ELSE g[k - 1] \o Encode(fs[k])]

(* The bytes of the first k frames.                                         *)
Written(fs) == CHOOSE g : IsWritten(g, fs)

(* Decoding everything begins at byte 0.                                    *)
LEMMA DecodeAllIsFrom == \A data : DecodeAll(data) = DecodeFrom(data)[0]
BY Zenon DEF DecodeAll, DecodeFrom, IsFrom, From

(* A stream of frames is written frame by frame.                            *)
LEMMA WrittenStep ==
    ASSUME NatIsWellOrdered, NEW fs \in Seq(Frames)
    PROVE  /\ Written(fs)[0] = <<>>
           /\ \A k \in 0 .. Len(fs) : Written(fs)[k] \in Seq(Byte)
           /\ \A k \in 0 .. Len(fs) - 1 : Written(fs)[k + 1] = Written(fs)[k] \o Encode(fs[k + 1])
           /\ SendFrames(fs) = Written(fs)[Len(fs)]
<1> DEFINE n == Len(fs)
           S == Seq(Byte)
           step == [i \in 1 .. n |-> [x \in S |-> x \o Encode(fs[i])]]
<1>0. n \in Nat /\ \A i \in 1 .. n : fs[i] \in Frames
  OBVIOUS
<1>0a. \A i \in 1 .. n : Encode(fs[i]) \in S
  BY <1>0, EncodeBytes, Zenon
<1> HIDE DEF n
<1>1. step \in [1 .. n -> [S -> S]] /\ <<>> \in S
  BY <1>0a
<1>2. PICK f \in [0 .. n -> S] : IsRecursion(f, n, <<>>, step)
  <2> HIDE DEF step, S
  <2> QED
    BY <1>0, <1>1, Recursion, Zenon
<1>3. f[0] = <<>> /\ \A i \in 1 .. n : f[i] = f[i - 1] \o Encode(fs[i])
  <2>1. f[0] = <<>>
    BY <1>0, <1>2 DEF IsRecursion
  <2>2. ASSUME NEW i \in 1 .. n PROVE f[i] = f[i - 1] \o Encode(fs[i])
    <3>1. i \in 0 .. n /\ i # 0 /\ i - 1 \in 0 .. n
      BY <1>0
    <3>2. f[i] = step[i][f[i - 1]]
      BY <1>2, <3>1, Zenon DEF IsRecursion
    <3>3. f[i - 1] \in S
      BY <3>1
    <3> QED
      BY <3>2, <3>3, Zenon
  <2> QED
    BY <2>1, <2>2, Zenon
<1>4. IsWritten(f, fs)
  <2>1. ASSUME NEW k \in 0 .. n PROVE f[k] = IF k = 0 THEN <<>> ELSE f[k - 1] \o Encode(fs[k])
    <3>1. k # 0 => k \in 1 .. n
      BY <1>0
    <3> QED
      BY <1>3, <3>1, Zenon
  <2> QED
    BY <2>1 DEF IsWritten, n
<1> DEFINE W == Written(fs)
           P == {k \in 0 .. n : W[k] \in S}
<1>5. IsWritten(W, fs)
  BY <1>4, Zenon DEF Written
<1>6. SendFrames(fs) = W[n]
  BY Zenon DEF SendFrames, Written, IsWritten, n
<1> HIDE DEF W
<1>7. \A k \in 0 .. n : W[k] = IF k = 0 THEN <<>> ELSE W[k - 1] \o Encode(fs[k])
  BY <1>5, Zenon DEF IsWritten, n
<1>8. W[0] = <<>>
  BY <1>0, <1>7
<1>9. \A k \in 0 .. n - 1 : W[k + 1] = W[k] \o Encode(fs[k + 1])
  <2> SUFFICES ASSUME NEW k \in 0 .. n - 1 PROVE W[k + 1] = W[k] \o Encode(fs[k + 1])
    BY Zenon
  <2>1. k + 1 \in 0 .. n /\ k + 1 # 0 /\ (k + 1) - 1 = k
    BY <1>0
  <2> QED
    BY <1>7, <2>1, Zenon
<1>10. 0 .. n \subseteq P
  <2>1. 0 \in P
    <3>1. 0 \in 0 .. n
      BY <1>0
    <3> HIDE DEF S
    <3> QED
      BY <1>1, <1>8, <3>1
  <2>2. \A k \in 0 .. n - 1 : k \in P => k + 1 \in P
    <3> SUFFICES ASSUME NEW k \in 0 .. n - 1, k \in P PROVE k + 1 \in P
      OBVIOUS
    <3>1. k + 1 \in 0 .. n /\ k + 1 \in 1 .. n
      BY <1>0
    <3>2. W[k + 1] = W[k] \o Encode(fs[k + 1]) /\ W[k] \in S /\ Encode(fs[k + 1]) \in S
      BY <1>0a, <1>9, <3>1, Zenon
    <3>3. W[k + 1] \in S
      BY <3>2, ConcatFacts, ZenonT(60)
    <3> HIDE DEF S
    <3> QED
      BY <3>1, <3>3
  <2> HIDE DEF P
  <2> QED
    BY <1>0, <2>1, <2>2, Induction, Zenon
<1> QED
  BY <1>6, <1>8, <1>9, <1>10, Zenon DEF W, S, n

IsPre(a, b) == Len(a) <= Len(b) /\ \A i \in 1 .. Len(a) : b[i] = a[i]

(* What has been written stays at the beginning of the stream.              *)
LEMMA WrittenGrows ==
    ASSUME NatIsWellOrdered, NEW fs \in Seq(Frames)
    PROVE  \A k \in 0 .. Len(fs) : IsPre(Written(fs)[k], Written(fs)[Len(fs)])
<1> DEFINE n == Len(fs)
           W == Written(fs)
           P == {m \in 0 .. n : \A k \in 0 .. m : IsPre(W[k], W[m])}
<1>0. n \in Nat /\ \A i \in 1 .. n : Encode(fs[i]) \in Seq(Byte)
  <2>1. n \in Nat /\ \A i \in 1 .. n : fs[i] \in Frames
    OBVIOUS
  <2>2. \A f \in Frames : Encode(f) \in Seq(Byte)
    BY EncodeBytes, Zenon
  <2> QED
    BY <2>1, <2>2, Zenon
<1>1. /\ \A k \in 0 .. n : W[k] \in Seq(Byte)
      /\ \A k \in 0 .. n - 1 : W[k + 1] = W[k] \o Encode(fs[k + 1])
  BY WrittenStep, Zenon
<1> HIDE DEF n, W
<1>2. \A k \in 0 .. n : IsPre(W[k], W[k])
  BY <1>1 DEF IsPre
<1>3. 0 \in P
  BY <1>0, <1>2
<1>4. \A m \in 0 .. n - 1 : m \in P => m + 1 \in P
  <2> SUFFICES ASSUME NEW m \in 0 .. n - 1, m \in P PROVE m + 1 \in P
    OBVIOUS
  <2>0. m \in 0 .. n /\ m + 1 \in 0 .. n /\ m + 1 \in 1 .. n
    BY <1>0
  <2> DEFINE a == W[m]
             b == Encode(fs[m + 1])
             c == W[m + 1]
  <2>1. a \in Seq(Byte) /\ b \in Seq(Byte) /\ c = a \o b
    BY <1>0, <1>1, <2>0, Zenon
  <2> HIDE DEF a, b, c
  <2>2. Len(a) <= Len(c) /\ \A i \in 1 .. Len(a) : c[i] = a[i]
    BY <2>1
  <2>3. ASSUME NEW k \in 0 .. m PROVE IsPre(W[k], c)
    <3> DEFINE x == W[k]
    <3>1. k \in 0 .. n /\ IsPre(x, a)
      BY <1>0 DEF a
    <3>2. x \in Seq(Byte)
      BY <1>1, <3>1
    <3> HIDE DEF x
    <3>3. Len(x) <= Len(a) /\ \A i \in 1 .. Len(x) : a[i] = x[i]
      BY <3>1 DEF IsPre
    <3>4. Len(x) <= Len(c)
      BY <2>1, <2>2, <3>2, <3>3
    <3>5. \A i \in 1 .. Len(x) : c[i] = x[i]
      BY <2>1, <2>2, <3>2, <3>3
    <3> QED
      BY <3>4, <3>5 DEF IsPre, x
  <2>4. ASSUME NEW k \in 0 .. m + 1 PROVE IsPre(W[k], W[m + 1])
    <3>1. k \in 0 .. m \/ k = m + 1
      OBVIOUS
    <3> QED
      BY <1>2, <2>0, <2>3, <3>1 DEF c
  <2> QED
    BY <2>0, <2>4
<1>5. n \in P
  <2> HIDE DEF P
  <2>1. 0 .. n \subseteq P
    BY <1>0, <1>3, <1>4, Induction, Zenon
  <2> QED
    BY <1>0, <2>1
<1> QED
  BY <1>5 DEF W, n

(* Wherever the stream ends, the bytes after the first k frames begin as    *)
(* the next frame does, and there are none after the last.                  *)
LEMMA SentBegins ==
    ASSUME NatIsWellOrdered, NEW fs \in Seq(Frames), NEW m \in 0 .. Len(SendFrames(fs)),
           NEW data, data = SubSeq(SendFrames(fs), 1, m)
    PROVE  /\ data \in Seq(Byte)
           /\ \A k \in 0 .. Len(fs) - 1 : BeginsAs(data, Len(Written(fs)[k]), Encode(fs[k + 1]))
           /\ Len(data) <= Len(Written(fs)[Len(fs)])
<1> DEFINE n == Len(fs)
           W == Written(fs)
           all == SendFrames(fs)
<1>0. n \in Nat /\ \A i \in 1 .. n : Encode(fs[i]) \in Seq(Byte)
  <2>1. n \in Nat /\ \A i \in 1 .. n : fs[i] \in Frames
    OBVIOUS
  <2>2. \A f \in Frames : Encode(f) \in Seq(Byte)
    BY EncodeBytes, Zenon
  <2> QED
    BY <2>1, <2>2, Zenon
<1>1. /\ \A k \in 0 .. n : W[k] \in Seq(Byte)
      /\ \A k \in 0 .. n - 1 : W[k + 1] = W[k] \o Encode(fs[k + 1])
      /\ all = W[n]
  BY WrittenStep, Zenon
<1>2. \A k \in 0 .. n : IsPre(W[k], all)
  BY <1>1, WrittenGrows
<1> HIDE DEF n, W, all
<1>3. all \in Seq(Byte) /\ m \in 0 .. Len(all) /\ data = SubSeq(all, 1, m)
  BY <1>0, <1>1 DEF all
<1>4. data \in Seq(Byte) /\ Len(data) = m /\ \A i \in 1 .. m : data[i] = all[i]
  BY <1>3, PrefixFacts, Zenon
<1>5. ASSUME NEW k \in 0 .. n - 1, NEW i \in 1 .. Len(Encode(fs[k + 1])),
             Len(W[k]) + i <= Len(data)
      PROVE  data[Len(W[k]) + i] = Encode(fs[k + 1])[i]
  <2> DEFINE a == W[k]
             b == Encode(fs[k + 1])
             c == W[k + 1]
  <2>0. k \in 0 .. n /\ k + 1 \in 0 .. n /\ k + 1 \in 1 .. n
    BY <1>0
  <2>1. a \in Seq(Byte) /\ b \in Seq(Byte) /\ c = a \o b /\ c \in Seq(Byte) /\ IsPre(c, all)
    BY <1>0, <1>1, <1>2, <2>0, Zenon
  <2>2. i \in 1 .. Len(b) /\ Len(a) + i <= Len(data)
    BY <1>5
  <2> HIDE DEF a, b, c
  <2>3. Len(a) + i \in 1 .. Len(c) /\ c[Len(a) + i] = b[i]
    BY <2>1, <2>2
  <2>4. all[Len(a) + i] = c[Len(a) + i]
    BY <2>1, <2>3, Zenon DEF IsPre
  <2>5. data[Len(a) + i] = all[Len(a) + i]
    BY <1>3, <1>4, <2>1, <2>2
  <2> QED
    BY <2>3, <2>4, <2>5, Zenon DEF a, b
<1>6. Len(data) <= Len(W[n])
  BY <1>1, <1>3, <1>4
<1> QED
  BY <1>4, <1>5, <1>6 DEF BeginsAs, W, n

-----------------------------------------------------------------------------
(* Reading a varint piece by piece, as readVarintFrom does, and at once, as *)
(* ReadVarint does.                                                         *)
LEMMA OneDigit ==
    ASSUME NatIsWellOrdered
    PROVE  \A x \in Nat : Value(<<x>>) = x
<1> SUFFICES ASSUME NEW x \in Nat PROVE Value(<<x>>) = x
  OBVIOUS
<1>1. <<x>> \in Seq(Nat) /\ Len(<<x>>) = 1 /\ <<x>>[1] = x
  OBVIOUS
<1>2. PICK sum : IsSum(sum, <<x>>) /\ Value(<<x>>) = sum[Len(<<x>>)]
  BY <1>1, ValueIsSum, Zenon
<1>3. sum[0] = 0 /\ 1 \in 1 .. Len(<<x>>) /\ 1 - 1 = 0
  BY <1>1, <1>2 DEF IsSum
<1>4. sum[1] = sum[0] * Base + <<x>>[1]
  BY <1>2, <1>3 DEF IsSum
<1>5. sum[1] = x
  BY <1>1, <1>3, <1>4, BaseIsPositive
<1> QED
  BY <1>1, <1>2, <1>5

(* A varint of one byte, which readVarint returns at once.                  *)
LEMMA ShortVarint ==
    ASSUME NatIsWellOrdered,
           NEW data \in Seq(Byte), NEW p \in 0 .. Len(data) - 1, data[p + 1] \div Q = 0
    PROVE  LET r == ReadVarint(Drop(data, p))
           IN  r.err = "nil" /\ r.n = 1 /\ r.value = data[p + 1] % Q
<1> DEFINE d == Drop(data, p)
           r == ReadVarint(d)
           x == data[p + 1]
<1>1. d \in Seq(Byte) /\ d[1] = x /\ x \in Nat /\ Sizes[x \div Q + 1] = 1 /\ Len(d) >= 1
  BY VarintClass
<1>2. r.err = "nil" /\ r.n = 1
  BY <1>1, VarintIsThere
<1>3. r.value = Value([SubSeq(d, 1, 1) EXCEPT ![1] = @ % Q])
  BY <1>1, <1>2, ReadVarintCases
<1> HIDE DEF d, r, x
<1>4. SubSeq(d, 1, 1) = <<x>>
  <2>1. ASSUME NEW a \in Seq(Byte), Len(a) >= 1 PROVE SubSeq(a, 1, 1) = <<a[1]>>
    <3>1. 1 \in 0 .. Len(a) /\ a[1] \in Byte
      BY <2>1
    <3>2. SubSeq(a, 1, 1) \in Seq(Byte) /\ Len(SubSeq(a, 1, 1)) = 1 /\ SubSeq(a, 1, 1)[1] = a[1]
      BY <3>1, PrefixFacts
    <3>3. <<a[1]>> \in Seq(Byte) /\ Len(<<a[1]>>) = 1 /\ <<a[1]>>[1] = a[1]
      BY <3>1
    <3>4. \A i \in 1 .. 1 : i = 1
      OBVIOUS
    <3>5. \A i \in 1 .. 1 : SubSeq(a, 1, 1)[i] = <<a[1]>>[i]
      BY <3>2, <3>3, <3>4, Zenon
    <3> QED
      BY <3>2, <3>3, <3>5, SameBytes, Zenon
  <2> QED
    BY <1>1, <2>1
<1>5. x % Q \in Nat
  BY <1>1, BaseIsPositive
<1>6. [<<x>> EXCEPT ![1] = @ % Q] = <<x % Q>>
  OBVIOUS
<1>7. r.value = x % Q
  BY <1>3, <1>4, <1>5, <1>6, OneDigit, Zenon
<1> QED
  BY <1>2, <1>7 DEF d, r, x

(* A longer varint, which readVarint puts together from two reads.          *)
LEMMA LongVarint ==
    ASSUME NatIsWellOrdered, NEW data \in Seq(Byte), NEW p \in 0 .. Len(data) - 1,
           NEW n, n = Sizes[data[p + 1] \div Q + 1] - 1, Len(data) - (p + 1) >= n
    PROVE  LET r == ReadVarint(Drop(data, p))
           IN  /\ r.err = "nil" /\ r.n = 1 + n
               /\ r.value = ReadVarint(<<data[p + 1]>> \o SubSeq(data, p + 1 + 1, p + 1 + n)).value
<1> DEFINE d == Drop(data, p)
           r == ReadVarint(d)
           x == data[p + 1]
           b == SubSeq(data, p + 1 + 1, p + 1 + n)
           w == <<x>> \o b
<1>1. /\ d \in Seq(Byte) /\ d[1] = x /\ x \in Nat /\ Len(d) = Len(data) - p
      /\ Sizes[x \div Q + 1] \in 1 .. 8
  BY VarintClass, Zenon
<1>2. n \in 0 .. 7 /\ 1 + n = Sizes[x \div Q + 1] /\ Len(data) - p >= Sizes[x \div Q + 1]
      /\ Len(data) - p >= 1 + n
  <2>1. ASSUME NEW z \in 1 .. 8, NEW k, k = z - 1, NEW m \in Nat, NEW j \in 0 .. m - 1,
               m - (j + 1) >= k
        PROVE  k \in 0 .. 7 /\ 1 + k = z /\ m - j >= z /\ m - j >= 1 + k
    BY <2>1
  <2>2. Len(data) \in Nat
    OBVIOUS
  <2> DEFINE z == Sizes[x \div Q + 1]
             m == Len(data)
  <2>3. z \in 1 .. 8 /\ n = z - 1 /\ m \in Nat /\ p \in 0 .. m - 1 /\ m - (p + 1) >= n
    BY <1>1
  <2> HIDE DEF z, m
  <2>4. n \in 0 .. 7 /\ 1 + n = z /\ m - p >= z /\ m - p >= 1 + n
    BY <2>1, <2>3, Zenon
  <2> QED
    BY <2>4 DEF z, m
<1>3. r.err = "nil" /\ r.n = 1 + n
  BY <1>2, VarintIsThere
<1>4. r.value = Value([SubSeq(d, 1, 1 + n) EXCEPT ![1] = @ % Q])
  BY <1>1, <1>3, ReadVarintCases
<1>5. p + 1 \in 0 .. Len(data) /\ n \in 0 .. Len(data) - (p + 1) /\ x \in Byte
  BY <1>2, SMTT(30)
<1>6. b \in Seq(Byte) /\ Len(b) = n /\ \A i \in 1 .. n : b[i] = data[(p + 1) + i]
  BY <1>5, SubSeqFacts, Zenon
<1>7. \A i \in 1 .. Len(data) - p : d[i] = data[p + i]
  <2>1. p \in 0 .. Len(data)
    OBVIOUS
  <2> QED
    BY <2>1, DropFacts
<1> SUFFICES r.err = "nil" /\ r.n = 1 + n /\ r.value = ReadVarint(w).value
  OBVIOUS
<1> HIDE DEF d, r, b, x
<1>8. w \in Seq(Byte) /\ Len(w) = 1 + n /\ w[1] = x /\ \A i \in 1 .. n : w[1 + i] = b[i]
  BY <1>2, <1>5, <1>6, SMTT(30)
<1> HIDE DEF w
<1>9. SubSeq(d, 1, 1 + n) = w
  <2> DEFINE v == SubSeq(d, 1, 1 + n)
  <2>0. 1 + n \in 0 .. Len(d)
    <3>1. ASSUME NEW k \in 0 .. 7, NEW m \in Nat, m >= 1 + k PROVE 1 + k \in 0 .. m
      BY <3>1
    <3>2. Len(d) \in Nat
      BY <1>1
    <3> QED
      BY <1>1, <1>2, <3>1, <3>2, Zenon
  <2>1. v \in Seq(Byte) /\ Len(v) = 1 + n /\ \A i \in 1 .. 1 + n : v[i] = d[i]
    BY <1>1, <2>0, PrefixFacts, Zenon
  <2> HIDE DEF v
  <2>2. ASSUME NEW i \in 1 .. 1 + n PROVE v[i] = w[i]
    <3>1. CASE i = 1
      BY <1>1, <1>8, <2>1, <3>1, SMTT(30)
    <3>2. CASE i # 1
      <4>1. i - 1 \in 1 .. n /\ 1 + (i - 1) = i /\ i \in 1 .. Len(data) - p
            /\ (p + 1) + (i - 1) = p + i
        BY <1>2, <3>2
      <4>2. w[i] = b[i - 1] /\ b[i - 1] = data[p + i]
        BY <1>6, <1>8, <4>1, SMTT(30)
      <4> QED
        BY <1>7, <2>1, <4>1, <4>2, Zenon
    <3> QED
      BY <3>1, <3>2
  <2>3. v = w
    BY <1>8, <2>1, <2>2, SameBytes, Zenon
  <2> QED
    BY <2>3 DEF v
<1>10. ReadVarint(w).value = Value([w EXCEPT ![1] = @ % Q])
  <2>1. w # <<>> /\ ~(Len(w) < Sizes[w[1] \div Q + 1]) /\ Sizes[w[1] \div Q + 1] = 1 + n
    BY <1>2, <1>8, SMTT(30)
  <2>2. ReadVarint(w).err = "nil"
    BY <1>8, <2>1, ReadVarintCases
  <2>3. /\ ReadVarint(w).n = 1 + n
        /\ ReadVarint(w).value = Value([SubSeq(w, 1, ReadVarint(w).n) EXCEPT ![1] = @ % Q])
    BY <1>8, <2>1, <2>2, ReadVarintCases
  <2>4. SubSeq(w, 1, 1 + n) = w
    BY <1>2, <1>8
  <2> QED
    BY <2>3, <2>4, Zenon
<1> QED
  BY <1>3, <1>4, <1>9, <1>10, Zenon

-----------------------------------------------------------------------------
(* The receiver.  Its state is related to the place s in the bytes where    *)
(* the frame that it is reading begins.                                     *)
HeaderAt(data, s, opID) ==
    [type |-> data[s + 1], flags |-> data[s + 2], opID |-> opID, payload |-> <<>>]

(* readFrame has read the bytes from s to p: it is at step st, with first   *)
(* byte b of a varint, frame c and payload length len.                      *)
ReadingHeader(data, s, p, st, b, c) ==
    \/ st = "header" /\ p = s
    \/ st = "opid" /\ p = s + 2 /\ c = HeaderAt(data, s, 0)
    \/ st = "opid rest" /\ p = s + 3 /\ c = HeaderAt(data, s, 0) /\ b = data[s + 3] /\ b \div Q > 0

ReadingLen(data, s, p, st, b, c) ==
    /\ HasOpID(data, s) /\ c = HeaderAt(data, s, OpIDAt(data, s).value)
    /\ \/ st = "plen" /\ p = s + 2 + OpIDAt(data, s).n
       \/ st = "plen rest" /\ p = s + 2 + OpIDAt(data, s).n + 1 /\ b = data[p] /\ b \div Q > 0

ReadingPayload(data, s, p, st, c, len) ==
    /\ HasLen(data, s) /\ c = HeaderAt(data, s, OpIDAt(data, s).value)
    /\ st = "payload" /\ p = PayloadAt(data, s)
    /\ len = LenAt(data, s).value /\ len \in 1 .. MaxFrameSize

Reading(data, s, p, st, b, c, len) ==
    \/ ReadingHeader(data, s, p, st, b, c)
    \/ ReadingLen(data, s, p, st, b, c)
    \/ ReadingPayload(data, s, p, st, c, len)

(* readFrame has failed with e on the frame at s, as Decode does.           *)
Failed(data, s, e) ==
    /\ Decode(Drop(data, s)).err # "nil"
    /\ e = "ErrFrameTooLarge" <=> Decode(Drop(data, s)).err = "ErrFrameTooLarge"

(* The frames g, of the frames fs sent, are those before s.                 *)
Consumed(fs, data, g, s) ==
    /\ DecodeAll(data).frames = g \o DecodeFrom(data)[s].frames
    /\ DecodeAll(data).err = DecodeFrom(data)[s].err
    /\ \E k \in 0 .. Len(fs) : g = SubSeq(fs, 1, k) /\ s = Len(Written(fs)[k])

SentIsPrefix == \E m \in 0 .. Len(SendFrames(frames)) : sent = SubSeq(SendFrames(frames), 1, m)

IInv ==
    /\ TypeOK /\ SentIsPrefix
    /\ fin => arrived = Len(sent)
    /\ \E s \in 0 .. pos :
          /\ Consumed(frames, sent, got, s)
          /\ err = "nil" => Reading(sent, s, pos, stage, first, cur, plen)
          /\ err # "nil" => Failed(sent, s, err)

(* What the sender put on the stream are the bytes of frames.               *)
LEMMA SentBytes ==
    ASSUME NatIsWellOrdered, TypeOK, SentIsPrefix
    PROVE  frames \in Seq(Frames) /\ sent \in Seq(Byte) /\ Len(sent) \in Nat
<1>1. frames \in Seq(Frames)
  BY FrameListsAssumption DEF TypeOK
<1>2. sent \in Seq(Byte)
  BY <1>1, SentBegins DEF SentIsPrefix
<1> QED
  BY <1>1, <1>2

(* The three outcomes of a step of the reader.                              *)
Advances(s) ==
    Reading(sent, s, pos', stage', first', cur', plen') /\ got' = got /\ err' = "nil"

Returns(s) ==
    /\ HasLen(sent, s) /\ LenAt(sent, s).value <= MaxFrameSize
    /\ Len(sent) - PayloadAt(sent, s) >= LenAt(sent, s).value
    /\ pos' = PayloadAt(sent, s) + LenAt(sent, s).value
    /\ got' = Append(got, FrameAt(sent, s)) /\ stage' = "header" /\ err' = "nil"

Fails(s) == Failed(sent, s, err') /\ err' # "nil" /\ got' = got

Outcome(s) == Advances(s) \/ Returns(s) \/ Fails(s)

(* What io.ReadFull returns are the sent bytes at the position of the       *)
(* reader.                                                                  *)
LEMMA BytesRead ==
    ASSUME NatIsWellOrdered, TypeOK, SentIsPrefix, NEW n \in Nat, Available >= n
    PROVE  /\ pos \in 0 .. Len(sent) /\ n \in 0 .. Len(sent) - pos /\ pos + n \in pos .. arrived
           /\ \A i \in 1 .. n : Bytes(n)[i] = sent[pos + i]
<1>1. sent \in Seq(Byte) /\ Len(sent) \in Nat
  BY SentBytes
<1>2. pos \in 0 .. Len(sent) /\ n \in 0 .. Len(sent) - pos /\ pos + n \in pos .. arrived
  <2>1. pos \in 0 .. arrived /\ arrived \in 0 .. Len(sent) /\ arrived - pos >= n
    BY DEF TypeOK, Available
  <2>2. pos \in Nat /\ arrived \in Nat /\ pos <= arrived /\ arrived <= Len(sent)
    BY <1>1, <2>1
  <2> QED
    BY <1>1, <2>1, <2>2
<1> QED
  BY <1>1, <1>2, SubSeqFacts DEF Bytes

(* Order of the positions: frame, reader, arrived, sent.                    *)
LEMMA Bounds ==
    ASSUME NatIsWellOrdered, IInv, NEW s \in 0 .. pos
    PROVE  /\ TypeOK /\ SentIsPrefix /\ sent \in Seq(Byte) /\ Len(sent) \in Nat
           /\ s \in Nat /\ pos \in Nat /\ arrived \in Nat
           /\ s <= pos /\ pos <= arrived /\ arrived <= Len(sent)
           /\ s \in 0 .. Len(sent) /\ pos \in 0 .. Len(sent)
<1>1. TypeOK /\ SentIsPrefix /\ sent \in Seq(Byte) /\ Len(sent) \in Nat
  BY SentBytes DEF IInv
<1>2. pos \in 0 .. arrived /\ arrived \in 0 .. Len(sent)
  BY <1>1 DEF TypeOK
<1> QED
  BY <1>1, <1>2

(* The two varints: p is where the varint begins.                           *)
VarintPlace(which, s, p) ==
    \/ which = "opid" /\ p = s + 2 /\ cur = HeaderAt(sent, s, 0)
    \/ /\ which = "plen" /\ HasOpID(sent, s) /\ p = s + 2 + OpIDAt(sent, s).n
       /\ cur = HeaderAt(sent, s, OpIDAt(sent, s).value)

(* Between its two reads readVarint holds the first byte of a longer        *)
(* varint.                                                                  *)
LEMMA AtRest ==
    ASSUME NatIsWellOrdered,
           IInv, NEW s \in 0 .. pos, NEW which \in {"opid", "plen"}, stage = Rest[which],
           Reading(sent, s, pos, stage, first, cur, plen)
    PROVE  /\ \E p \in s + 2 .. Len(sent) - 1 : pos = p + 1 /\ VarintPlace(which, s, p)
           /\ first = sent[pos] /\ first \div Q > 0
<1>0. s \in Nat /\ pos \in Nat /\ Len(sent) \in Nat /\ pos <= Len(sent)
  BY Bounds
<1>2. CASE which = "opid"
  <2>1. stage = "opid rest"
    BY <1>2 DEF Rest
  <2>2. pos = s + 3 /\ cur = HeaderAt(sent, s, 0) /\ first = sent[s + 3] /\ first \div Q > 0
    BY <2>1 DEF Reading, ReadingHeader, ReadingLen, ReadingPayload
  <2>3. s + 2 \in s + 2 .. Len(sent) - 1 /\ pos = (s + 2) + 1
    BY <1>0, <2>2
  <2>4. VarintPlace(which, s, s + 2)
    BY <1>2, <2>2 DEF VarintPlace
  <2> QED
    BY <2>2, <2>3, <2>4, ZenonT(60)
<1>3. CASE which = "plen"
  <2>1. stage = "plen rest"
    BY <1>3 DEF Rest
  <2> DEFINE p == s + 2 + OpIDAt(sent, s).n
  <2>2. /\ HasOpID(sent, s) /\ cur = HeaderAt(sent, s, OpIDAt(sent, s).value)
        /\ pos = p + 1 /\ first = sent[pos] /\ first \div Q > 0
    BY <2>1 DEF Reading, ReadingHeader, ReadingLen, ReadingPayload
  <2>3. p \in s + 3 .. Len(sent)
    BY <2>2, OpIDBytes
  <2>4. VarintPlace(which, s, p)
    BY <1>3, <2>2 DEF VarintPlace
  <2> HIDE DEF p
  <2>5. p \in s + 2 .. Len(sent) - 1
    BY <1>0, <2>2, <2>3
  <2> QED
    BY <2>2, <2>4, <2>5, ZenonT(60)
<1> QED
  BY <1>2, <1>3

(* One step of the reader, whichever.                                       *)
LEMMA RecvFrameStep ==
    ASSUME NatIsWellOrdered
    PROVE  \A s \in 0 .. pos :
                  IInv /\ err = "nil" /\ Reading(sent, s, pos, stage, first, cur, plen) /\ RecvFrame
                  => Outcome(s)
<1>HaveOpIDStep.
    ASSUME NEW s, cur = HeaderAt(sent, s, 0), HasOpID(sent, s), NEW v, v = OpIDAt(sent, s).value,
           pos' = s + 2 + OpIDAt(sent, s).n, HaveOpID(v), err = "nil"
    PROVE  Advances(s)
  <2> USE <1>HaveOpIDStep
  <2>1. cur' = HeaderAt(sent, s, v) /\ stage' = "plen" /\ got' = got /\ err' = "nil"
    BY DEF HaveOpID, HeaderAt
  <2>2. ReadingLen(sent, s, pos', stage', first', cur')
    BY <2>1 DEF ReadingLen
  <2> QED
    BY <2>1, <2>2 DEF Advances, Reading
<1>HavePayloadLenStep.
    ASSUME TypeOK, SentIsPrefix, NEW s, cur = HeaderAt(sent, s, OpIDAt(sent, s).value),
           HasLen(sent, s), NEW v, v = LenAt(sent, s).value, pos' = PayloadAt(sent, s),
           HavePayloadLen(v), err = "nil"
    PROVE  Outcome(s)
  <2> USE <1>HavePayloadLenStep
  <2>0. v \in Nat /\ PayloadAt(sent, s) \in s + 4 .. Len(sent) /\ s \in 0 .. Len(sent)
        /\ sent \in Seq(Byte) /\ Len(sent) \in Nat
    BY LenBytes, SentBytes DEF HasLen, HasOpID
  <2>1. CASE v > MaxFrameSize /\ err' = "ErrFrameTooLarge" /\ got' = got
    <3>1. Decode(Drop(sent, s)) = Refused("ErrFrameTooLarge")
      BY <2>1, DecodeComplete
    <3>2. Decode(Drop(sent, s)).err = "ErrFrameTooLarge"
      BY <3>1, SMTT(30) DEF Refused
    <3> QED
      BY <2>1, <3>2, SMTT(30) DEF Outcome, Fails, Failed
  <2>2. CASE v = 0 /\ Return(cur)
    <3>1. FrameAt(sent, s) = cur
      <4> DEFINE e == PayloadAt(sent, s)
      <4>1. SubSeq(sent, e + 1, e + 0) = <<>>
        <5>1. e \in 0 .. Len(sent) /\ 0 \in 0 .. Len(sent) - e
          BY <2>0
        <5> HIDE DEF e
        <5>2. /\ SubSeq(sent, e + 1, e + 0) \in Seq(Byte)
              /\ Len(SubSeq(sent, e + 1, e + 0)) = 0
          BY <2>0, <5>1, SubSeqFacts, ZenonT(60)
        <5> QED
          BY <5>2
      <4>2. FrameAt(sent, s).payload = <<>>
        BY <2>2, <4>1 DEF FrameAt
      <4> QED
        BY <2>2, <4>1, Zenon DEF FrameAt, HeaderAt
    <3>2. got' = Append(got, FrameAt(sent, s)) /\ stage' = "header" /\ err' = "nil"
      BY <2>2, <3>1 DEF Return
    <3>3. /\ v <= MaxFrameSize /\ Len(sent) - PayloadAt(sent, s) >= v
          /\ pos' = PayloadAt(sent, s) + v
      BY <2>0, <2>2, FrameAssumption
    <3> QED
      BY <3>2, <3>3, SMTT(30) DEF Outcome, Returns
  <2>3. CASE /\ v > 0 /\ v <= MaxFrameSize /\ plen' = v /\ stage' = "payload"
             /\ UNCHANGED <<first, cur, got, err>>
    <3>1. v \in 1 .. MaxFrameSize
      BY <2>0, <2>3, FrameAssumption
    <3>2. ReadingPayload(sent, s, pos', stage', cur', plen')
      BY <2>3, <3>1 DEF ReadingPayload
    <3> QED
      BY <2>3, <3>2 DEF Outcome, Advances, Reading
  <2> QED
    BY <2>1, <2>2, <2>3, SMTT(30) DEF HavePayloadLen
(* The stream ends within the piece that readFrame reads.                   *)
<1>ReadFullErrorStep.
    ASSUME IInv, NEW s \in 0 .. pos, NEW n \in Nat, ReadFullError(n),
           Len(sent) - pos < n => Decode(Drop(sent, s)).err = "ErrShortBuffer"
    PROVE  Fails(s)
  <2> USE <1>ReadFullErrorStep
  <2>1. arrived = Len(sent) /\ arrived - pos < n
    BY DEF IInv, ReadFullError, Available
  <2>2. err' \in {"EOF", "ErrUnexpectedEOF"} /\ got' = got
    BY DEF ReadFullError
  <2> QED
    BY <2>1, <2>2 DEF Fails, Failed
<1>ReadHeaderStep.
    ASSUME IInv, err = "nil", NEW s \in 0 .. pos,
           Reading(sent, s, pos, stage, first, cur, plen), ReadHeader
    PROVE  Outcome(s)
  <2> USE <1>ReadHeaderStep
  <2>0. TypeOK /\ SentIsPrefix /\ sent \in Seq(Byte) /\ Len(sent) \in Nat
    BY SentBytes DEF IInv
  <2>1. pos = s /\ stage = "header"
    BY DEF ReadHeader, Reading, ReadingHeader, ReadingLen, ReadingPayload
  <2>2. CASE /\ ReadFull(2)
             /\ cur' = [NoFrame EXCEPT !.type = Bytes(2)[1], !.flags = Bytes(2)[2]]
             /\ stage' = "opid" /\ UNCHANGED <<first, plen, got, err>>
    <3>1. Bytes(2)[1] = sent[pos + 1] /\ Bytes(2)[2] = sent[pos + 2]
      BY <2>0, <2>2, BytesRead DEF ReadFull
    <3>2. cur' = HeaderAt(sent, s, 0) /\ pos' = s + 2
      BY <2>1, <2>2, <3>1, Zenon DEF HeaderAt, NoFrame, ReadFull
    <3> QED
      BY <2>2, <3>2 DEF Outcome, Advances, Reading, ReadingHeader
  <2>3. CASE ReadFullError(2)
    <3>1. s \in 0 .. Len(sent)
      BY <2>0, <2>1 DEF TypeOK
    <3>2. Len(sent) - pos < 2 => ~HasLen(sent, s)
      BY <2>0, <2>1, <3>1 DEF HasLen, HasOpID
    <3>3. Len(sent) - pos < 2 => Decode(Drop(sent, s)).err = "ErrShortBuffer"
      BY <2>0, <3>1, <3>2, DecodeShort, SMTT(30) DEF Refused
    <3> QED
      BY <2>3, <3>3, <1>ReadFullErrorStep DEF Outcome
  <2> QED
    BY <2>2, <2>3, SMTT(30) DEF ReadHeader
<1>VarintDone.
    ASSUME IInv, err = "nil", NEW s \in 0 .. pos, NEW which, NEW p, VarintPlace(which, s, p),
           p \in s + 2 .. Len(sent), NEW v, Have(which, v),
           ReadVarint(Drop(sent, p)).err = "nil", ReadVarint(Drop(sent, p)).value = v,
           pos' = p + ReadVarint(Drop(sent, p)).n
    PROVE  Outcome(s)
  <2> USE <1>VarintDone
  <2>0. TypeOK /\ SentIsPrefix /\ sent \in Seq(Byte) /\ Len(sent) \in Nat /\ s \in Nat
    BY Bounds
  <2>1. CASE which = "opid"
    <3>1. p = s + 2 /\ cur = HeaderAt(sent, s, 0) /\ HaveOpID(v)
      BY <2>1 DEF VarintPlace, Have
    <3>2. ReadVarint(Drop(sent, p)) = OpIDAt(sent, s)
      BY <3>1 DEF OpIDAt
    <3>3. HasOpID(sent, s)
      <4>1. s \in 0 .. Len(sent) /\ Len(sent) - s >= 2
        BY <2>0
      <4> QED
        BY <2>0, <3>2, <4>1 DEF HasOpID
    <3>4. Advances(s)
      BY <3>1, <3>2, <3>3, <1>HaveOpIDStep, ZenonT(60)
    <3> QED
      BY <3>4 DEF Outcome
  <2>2. CASE which = "plen"
    <3>1. /\ HasOpID(sent, s) /\ p = s + 2 + OpIDAt(sent, s).n
          /\ cur = HeaderAt(sent, s, OpIDAt(sent, s).value) /\ HavePayloadLen(v)
      BY <2>2 DEF VarintPlace, Have
    <3>2. ReadVarint(Drop(sent, p)) = LenAt(sent, s)
      BY <3>1 DEF LenAt
    <3>3. HasLen(sent, s)
      BY <3>1, <3>2 DEF HasLen
    <3>4. pos' = PayloadAt(sent, s)
      BY <3>1, <3>2 DEF PayloadAt
    <3> QED
      BY <2>0, <3>1, <3>2, <3>3, <3>4, <1>HavePayloadLenStep, ZenonT(60)
  <2> QED
    BY <2>1, <2>2, SMTT(30) DEF VarintPlace
<1>VarintFails.
    ASSUME IInv, NEW s \in 0 .. pos, NEW which, NEW p, VarintPlace(which, s, p),
           p \in s + 2 .. Len(sent), ReadVarint(Drop(sent, p)).err # "nil"
    PROVE  Decode(Drop(sent, s)).err = "ErrShortBuffer"
  <2> USE <1>VarintFails
  <2>0. TypeOK /\ SentIsPrefix /\ sent \in Seq(Byte) /\ Len(sent) \in Nat /\ s \in Nat
    BY Bounds
  <2>1. s \in 0 .. Len(sent)
    BY <2>0
  <2>2. ~HasLen(sent, s)
    BY DEF VarintPlace, HasLen, HasOpID, OpIDAt, LenAt
  <2> QED
    BY <2>0, <2>1, <2>2, DecodeShort, SMTT(30) DEF Refused
<1>AtFirst.
    ASSUME IInv, NEW s \in 0 .. pos, NEW which \in {"opid", "plen"}, stage = which,
           Reading(sent, s, pos, stage, first, cur, plen)
    PROVE  VarintPlace(which, s, pos) /\ pos \in s + 2 .. Len(sent)
  <2> USE <1>AtFirst
  <2>0. s \in Nat /\ pos \in Nat /\ Len(sent) \in Nat /\ pos <= Len(sent)
    BY Bounds
  <2>1. VarintPlace(which, s, pos)
    BY DEF Reading, ReadingHeader, ReadingLen, ReadingPayload, VarintPlace
  <2>2. CASE which = "opid"
    <3>1. pos = s + 2
      BY <2>1, <2>2 DEF VarintPlace
    <3> QED
      BY <2>0, <2>1, <3>1
  <2>3. CASE which = "plen"
    <3>1. HasOpID(sent, s) /\ pos = s + 2 + OpIDAt(sent, s).n
      BY <2>1, <2>3 DEF VarintPlace
    <3>2. pos \in s + 3 .. Len(sent)
      BY <3>1, OpIDBytes, Zenon
    <3> QED
      BY <2>0, <2>1, <3>2
  <2> QED
    BY <2>2, <2>3
<1>ReadVarintFirstStep.
    ASSUME IInv, err = "nil", NEW s \in 0 .. pos, NEW which \in {"opid", "plen"},
           Reading(sent, s, pos, stage, first, cur, plen), ReadVarintFirst(which)
    PROVE  Outcome(s)
  <2> USE <1>ReadVarintFirstStep
  <2>0. /\ TypeOK /\ SentIsPrefix /\ sent \in Seq(Byte) /\ Len(sent) \in Nat
        /\ s \in Nat /\ pos \in Nat /\ arrived \in Nat /\ pos <= arrived /\ arrived <= Len(sent)
    BY Bounds
  <2>1. stage = which /\ VarintPlace(which, s, pos) /\ pos \in s + 2 .. Len(sent)
    BY <1>AtFirst DEF ReadVarintFirst
  <2>2. ASSUME ReadFull(1)
        PROVE  pos \in 0 .. Len(sent) - 1 /\ Bytes(1)[1] = sent[pos + 1] /\ pos' = pos + 1
    <3>1. Available >= 1 /\ pos' = pos + 1
      BY <2>2 DEF ReadFull
    <3>2. Bytes(1)[1] = sent[pos + 1]
      BY <2>0, <3>1, BytesRead, SMTT(30)
    <3>3. arrived - pos >= 1
      BY <3>1, SMTT(30) DEF Available
    <3> QED
      BY <2>0, <3>1, <3>2, <3>3, SMTT(30)
  <2>3. CASE ReadFull(1) /\ Bytes(1)[1] \div Q = 0 /\ Have(which, Bytes(1)[1] % Q)
    <3>1. pos \in 0 .. Len(sent) - 1 /\ Bytes(1)[1] = sent[pos + 1] /\ pos' = pos + 1
      BY <2>2, <2>3, SMTT(30)
    <3>2. /\ ReadVarint(Drop(sent, pos)).err = "nil" /\ ReadVarint(Drop(sent, pos)).n = 1
          /\ ReadVarint(Drop(sent, pos)).value = Bytes(1)[1] % Q
      BY <2>0, <2>3, <3>1, ShortVarint
    <3> QED
      BY <2>1, <2>3, <3>1, <3>2, <1>VarintDone, ZenonT(60)
  <2>4. CASE /\ ReadFull(1) /\ Bytes(1)[1] \div Q > 0 /\ first' = Bytes(1)[1]
             /\ stage' = Rest[which] /\ UNCHANGED <<cur, plen, got, err>>
    <3>1. /\ pos' = pos + 1 /\ first' = sent[pos + 1] /\ first' \div Q > 0
          /\ cur' = cur /\ got' = got /\ err' = "nil"
      BY <2>2, <2>4, SMTT(30)
    <3>2. CASE which = "opid"
      <4>1. pos = s + 2 /\ cur = HeaderAt(sent, s, 0) /\ stage' = "opid rest"
        BY <2>1, <2>4, <3>2 DEF VarintPlace, Rest
      <4>2. pos' = s + 3 /\ first' = sent[s + 3]
        <5>1. ASSUME NEW a \in Nat PROVE (a + 2) + 1 = a + 3
          BY <5>1
        <5> QED
          BY <2>0, <3>1, <4>1, <5>1, Zenon
      <4>3. ReadingHeader(sent, s, pos', stage', first', cur')
        BY <3>1, <4>1, <4>2, ZenonT(60) DEF ReadingHeader
      <4> QED
        BY <3>1, <4>3, ZenonT(60) DEF Outcome, Advances, Reading
    <3>3. CASE which = "plen"
      <4>1. /\ HasOpID(sent, s) /\ pos = s + 2 + OpIDAt(sent, s).n /\ stage' = "plen rest"
            /\ cur = HeaderAt(sent, s, OpIDAt(sent, s).value)
        BY <2>1, <2>4, <3>3, ZenonT(60) DEF VarintPlace, Rest
      <4>2. ReadingLen(sent, s, pos', stage', first', cur')
        BY <3>1, <4>1 DEF ReadingLen
      <4> QED
        BY <3>1, <4>2, SMTT(30) DEF Outcome, Advances, Reading
    <3> QED
      BY <3>2, <3>3
  <2>5. CASE ReadFullError(1)
    <3>1. ASSUME Len(sent) - pos < 1 PROVE Decode(Drop(sent, s)).err = "ErrShortBuffer"
      <4>1. pos = Len(sent) /\ pos \in 0 .. Len(sent)
        BY <2>0, <3>1
      <4>2. ReadVarint(Drop(sent, pos)).err # "nil"
        BY <2>0, <4>1, VarintIsShort, ZenonT(60)
      <4> QED
        BY <2>1, <4>2, <1>VarintFails
    <3> QED
      BY <2>5, <3>1, <1>ReadFullErrorStep, SMTT(30) DEF Outcome
  <2> QED
    BY <2>3, <2>4, <2>5, ZenonT(60) DEF ReadVarintFirst
<1>ReadVarintRestStep.
    ASSUME IInv, err = "nil", NEW s \in 0 .. pos, NEW which \in {"opid", "plen"},
           Reading(sent, s, pos, stage, first, cur, plen), ReadVarintRest(which)
    PROVE  Outcome(s)
  <2> USE <1>ReadVarintRestStep
  <2> DEFINE n == Sizes[first \div Q + 1] - 1
  <2>0. /\ TypeOK /\ SentIsPrefix /\ sent \in Seq(Byte) /\ Len(sent) \in Nat
        /\ s \in Nat /\ pos \in Nat /\ arrived \in Nat /\ pos <= arrived /\ arrived <= Len(sent)
    BY Bounds
  <2>1. stage = Rest[which]
    BY DEF ReadVarintRest
  <2>2. PICK p \in s + 2 .. Len(sent) - 1 : pos = p + 1 /\ VarintPlace(which, s, p)
    BY <2>1, AtRest
  <2>3. first = sent[p + 1]
    BY <2>1, <2>2, AtRest, SMTT(30)
  <2>4. p \in 0 .. Len(sent) - 1 /\ p \in s + 2 .. Len(sent) /\ p \in 0 .. Len(sent)
    BY <2>0, SMTT(30)
  <2>5. Sizes[sent[p + 1] \div Q + 1] \in 1 .. 8
    BY <2>0, <2>4, VarintClass, ZenonT(60)
  <2>6. n = Sizes[sent[p + 1] \div Q + 1] - 1 /\ n \in Nat
    BY <2>3, <2>5, SMTT(30)
  <2>7. CASE ReadFull(n) /\ Have(which, ReadVarint(<<first>> \o Bytes(n)).value)
    <3>1. arrived - pos >= n /\ pos' = pos + n
      BY <2>7 DEF ReadFull, Available
    <3>2. Len(sent) - (p + 1) >= n
      <4> HIDE DEF n
      <4> QED
        BY <2>0, <2>2, <2>6, <3>1
    <3>3. Bytes(n) = SubSeq(sent, p + 1 + 1, p + 1 + n)
      BY <2>2, SMTT(30) DEF Bytes
    <3> DEFINE v == ReadVarint(<<first>> \o Bytes(n)).value
    <3>4. /\ ReadVarint(Drop(sent, p)).err = "nil" /\ ReadVarint(Drop(sent, p)).n = 1 + n
          /\ ReadVarint(Drop(sent, p)).value = v
      <4> HIDE DEF n
      <4> QED
        BY <2>0, <2>3, <2>4, <2>6, <3>2, <3>3, LongVarint, ZenonT(60)
    <3>5. pos' = p + ReadVarint(Drop(sent, p)).n
      <4>1. ASSUME NEW a \in Nat, NEW b \in Nat PROVE (a + 1) + b = a + (1 + b)
        BY <4>1
      <4>2. p \in Nat
        BY <2>4
      <4> HIDE DEF n
      <4> QED
        BY <2>2, <2>6, <3>1, <3>4, <4>1, <4>2, Zenon
    <3>6. Have(which, v)
      BY <2>7
    <3> HIDE DEF n, v
    <3> QED
      BY <2>2, <2>4, <3>4, <3>5, <3>6, <1>VarintDone, ZenonT(60)
  <2>8. CASE ReadFullError(n)
    <3>1. ASSUME Len(sent) - pos < n PROVE Decode(Drop(sent, s)).err = "ErrShortBuffer"
      <4> DEFINE z == Sizes[sent[p + 1] \div Q + 1]
      <4>1. Len(sent) - p < z
        <5>1. z \in 1 .. 8 /\ n = z - 1 /\ p \in Nat /\ pos = p + 1
          BY <2>2, <2>4, <2>5, <2>6, SMTT(30)
        <5> HIDE DEF z, n
        <5> QED
          BY <2>0, <3>1, <5>1, SMTT(30)
      <4>2. ReadVarint(Drop(sent, p)).err # "nil"
        BY <2>0, <2>4, <4>1, VarintIsShort
      <4> QED
        BY <2>2, <2>4, <4>2, <1>VarintFails, ZenonT(60)
    <3> HIDE DEF n
    <3> QED
      BY <2>6, <2>8, <3>1, <1>ReadFullErrorStep, ZenonT(60) DEF Outcome
  <2> QED
    BY <2>7, <2>8 DEF ReadVarintRest
<1>ReadPayloadStep.
    ASSUME IInv, err = "nil", NEW s \in 0 .. pos,
           Reading(sent, s, pos, stage, first, cur, plen), ReadPayload
    PROVE  Outcome(s)
  <2> USE <1>ReadPayloadStep
  <2>0. /\ TypeOK /\ SentIsPrefix /\ sent \in Seq(Byte) /\ Len(sent) \in Nat
        /\ s \in Nat /\ pos \in Nat /\ arrived \in Nat /\ pos <= arrived /\ arrived <= Len(sent)
    BY Bounds
  <2>1. /\ HasLen(sent, s) /\ cur = HeaderAt(sent, s, OpIDAt(sent, s).value)
        /\ pos = PayloadAt(sent, s) /\ plen = LenAt(sent, s).value /\ plen \in 1 .. MaxFrameSize
    BY DEF ReadPayload, Reading, ReadingHeader, ReadingLen, ReadingPayload
  <2>2. plen \in Nat /\ plen <= MaxFrameSize
    BY <2>1, FrameAssumption
  <2>3. CASE ReadFull(plen) /\ Return([cur EXCEPT !.payload = Bytes(plen)])
    <3>1. arrived - pos >= plen /\ pos' = pos + plen
      BY <2>3 DEF ReadFull, Available
    <3>2. [cur EXCEPT !.payload = Bytes(plen)] = FrameAt(sent, s)
      <4>1. ASSUME NEW a, NEW b, NEW c, NEW d, NEW r,
                   r = [type |-> a, flags |-> b, opID |-> c, payload |-> <<>>]
            PROVE  [r EXCEPT !.payload = d] = [type |-> a, flags |-> b, opID |-> c, payload |-> d]
        BY <4>1
      <4>2. cur = [type |-> sent[s + 1], flags |-> sent[s + 2], opID |-> OpIDAt(sent, s).value,
                   payload |-> <<>>]
        BY <2>1 DEF HeaderAt
      <4> DEFINE b == SubSeq(sent, PayloadAt(sent, s) + 1, PayloadAt(sent, s) + LenAt(sent, s).value)
      <4>3. Bytes(plen) = b
        BY <2>1, ZenonT(60) DEF Bytes
      <4>4. FrameAt(sent, s) = [type |-> sent[s + 1], flags |-> sent[s + 2],
                                opID |-> OpIDAt(sent, s).value, payload |-> b]
        BY Zenon DEF FrameAt
      <4> HIDE DEF b
      <4> DEFINE c == Bytes(plen)
      <4> HIDE DEF c
      <4>5. [cur EXCEPT !.payload = c]
              = [type |-> sent[s + 1], flags |-> sent[s + 2], opID |-> OpIDAt(sent, s).value,
                 payload |-> c]
        BY <4>1, <4>2
      <4> QED
        BY <4>3, <4>4, <4>5 DEF c
    <3>3. got' = Append(got, FrameAt(sent, s)) /\ stage' = "header" /\ err' = "nil"
      BY <2>3, <3>2 DEF Return
    <3>4. Len(sent) - pos >= plen
      BY <2>0, <2>2, <3>1
    <3> QED
      BY <2>1, <2>2, <3>1, <3>3, <3>4 DEF Outcome, Returns
  <2>4. CASE ReadFullError(plen)
    <3>1. ASSUME Len(sent) - pos < plen PROVE Decode(Drop(sent, s)).err = "ErrShortBuffer"
      <4>1. ~(plen > MaxFrameSize)
        BY <2>2, FrameAssumption, SMTT(30)
      <4>2. Decode(Drop(sent, s)) = Refused("ErrShortBuffer")
        BY <2>1, <3>1, <4>1, DecodeComplete, ZenonT(60)
      <4> QED
        BY <4>2 DEF Refused
    <3> QED
      BY <2>2, <2>4, <3>1, <1>ReadFullErrorStep DEF Outcome
  <2> QED
    BY <2>3, <2>4 DEF ReadPayload
(* One step of the reader, whichever.                                       *)
<1>Step.
    ASSUME IInv, NEW s \in 0 .. pos, err = "nil",
           Reading(sent, s, pos, stage, first, cur, plen), RecvFrame
    PROVE  Outcome(s)
  BY <1>Step, <1>ReadHeaderStep, <1>ReadPayloadStep, <1>ReadVarintFirstStep, <1>ReadVarintRestStep DEF RecvFrame
<1> QED
  BY <1>Step

Stages == {"header", "opid", "opid rest", "plen", "plen rest", "payload"}

Errors == {"nil", "EOF", "ErrUnexpectedEOF", "ErrFrameTooLarge"}

(* A varint that was read leads to a stage and an error of their types.     *)
LEMMA HaveTypes ==
    ASSUME TypeOK, err = "nil", NEW which, NEW v, Have(which, v)
    PROVE  /\ plen' = plen \/ (stage' = "payload" /\ err' = "nil")
           /\ stage' \in Stages /\ err' \in Errors
BY DEF Have, HaveOpID, HavePayloadLen, Return, TypeOK, Stages, Errors

(* A step of the reader leaves the stream alone and keeps the types.        *)
LEMMA RecvFrameTypes ==
    ASSUME TypeOK, RecvFrame
    PROVE  /\ err = "nil" /\ UNCHANGED <<frames, sent, arrived, fin>>
           /\ plen' = plen \/ (stage' = "payload" /\ err' = "nil")
           /\ stage' \in Stages /\ err' \in Errors
<1>1. ASSUME NEW n, ReadFullError(n)
      PROVE  err = "nil" /\ plen' = plen /\ stage' \in Stages /\ err' \in Errors
  BY <1>1 DEF ReadFullError, TypeOK, Stages, Errors
<1>2. CASE ReadHeader
  BY <1>1, <1>2 DEF ReadHeader, ReadFull, Stages, Errors
<1>3. CASE ReadPayload
  BY <1>1, <1>3 DEF ReadPayload, ReadFull, Return, Stages, Errors
<1>4. ASSUME NEW which \in {"opid", "plen"}, ReadVarintFirst(which)
      PROVE  /\ err = "nil" /\ UNCHANGED <<frames, sent, arrived, fin>>
             /\ plen' = plen \/ (stage' = "payload" /\ err' = "nil")
             /\ stage' \in Stages /\ err' \in Errors
  <2>1. err = "nil" /\ UNCHANGED <<frames, sent, arrived, fin>>
    BY <1>1, <1>4 DEF ReadVarintFirst, ReadFull
  <2>2. ASSUME NEW v, Have(which, v)
        PROVE  /\ plen' = plen \/ (stage' = "payload" /\ err' = "nil")
               /\ stage' \in Stages /\ err' \in Errors
    BY <2>1, <2>2, HaveTypes
  <2>3. ASSUME stage' = Rest[which], UNCHANGED <<cur, plen, got, err>>
        PROVE  plen' = plen /\ stage' \in Stages /\ err' \in Errors
    <3>1. Rest[which] \in Stages
      <4>1. CASE which = "opid"
        BY <4>1 DEF Rest, Stages
      <4>2. CASE which = "plen"
        BY <4>2 DEF Rest, Stages
      <4> QED
        BY <4>1, <4>2
    <3>2. err' = "nil" /\ plen' = plen
      BY <2>1, <2>3
    <3> QED
      BY <2>3, <3>1, <3>2 DEF Errors
  <2> QED
    BY <1>1, <1>4, <2>1, <2>2, <2>3, ZenonT(60) DEF ReadVarintFirst
<1>5. ASSUME NEW which \in {"opid", "plen"}, ReadVarintRest(which)
      PROVE  /\ err = "nil" /\ UNCHANGED <<frames, sent, arrived, fin>>
             /\ plen' = plen \/ (stage' = "payload" /\ err' = "nil")
             /\ stage' \in Stages /\ err' \in Errors
  BY <1>1, <1>5, HaveTypes DEF ReadVarintRest, ReadFull
<1> QED
  BY <1>2, <1>3, <1>4, <1>5 DEF RecvFrame

(* A step of the reader reads only what has arrived.                        *)
LEMMA RecvFramePos ==
    ASSUME NatIsWellOrdered,
           IInv, NEW s \in 0 .. pos, Reading(sent, s, pos, stage, first, cur, plen), RecvFrame
    PROVE  pos' \in pos .. arrived
<1>0. /\ TypeOK /\ SentIsPrefix /\ sent \in Seq(Byte) /\ Len(sent) \in Nat
      /\ s \in Nat /\ pos \in Nat /\ arrived \in Nat /\ pos <= arrived /\ arrived <= Len(sent)
  BY Bounds
<1>1. ASSUME NEW n \in Nat, ReadFull(n) \/ ReadFullError(n) PROVE pos' \in pos .. arrived
  <2>1. CASE ReadFull(n)
    BY <1>0, <2>1, BytesRead DEF ReadFull
  <2>2. CASE ReadFullError(n)
    BY <1>0, <2>2 DEF ReadFullError
  <2> QED
    BY <1>1, <2>1, <2>2, SMTT(30)
<1>2. CASE ReadHeader
  BY <1>1, <1>2 DEF ReadHeader
<1>3. CASE ReadPayload
  <2>0. plen \in 0 .. MaxFrameSize
    BY <1>0 DEF TypeOK
  <2>1. plen \in Nat
    BY <2>0, FrameAssumption, SMTT(30)
  <2> QED
    BY <1>1, <1>3, <2>1 DEF ReadPayload
<1>4. ASSUME NEW which \in {"opid", "plen"}, ReadVarintFirst(which) PROVE pos' \in pos .. arrived
  BY <1>1, <1>4 DEF ReadVarintFirst
<1>5. ASSUME NEW which \in {"opid", "plen"}, ReadVarintRest(which) PROVE pos' \in pos .. arrived
  <2>1. stage = Rest[which]
    BY <1>5 DEF ReadVarintRest
  <2>2. PICK p \in s + 2 .. Len(sent) - 1 : pos = p + 1
    BY <2>1, AtRest
  <2>3. first = sent[p + 1] /\ p \in 0 .. Len(sent) - 1
    BY <1>0, <2>1, <2>2, AtRest, SMTT(30)
  <2>4. Sizes[first \div Q + 1] \in 1 .. 8
    BY <1>0, <2>3, VarintClass, Zenon
  <2>5. Sizes[first \div Q + 1] - 1 \in Nat
    BY <2>4
  <2> QED
    BY <1>1, <1>5, <2>5 DEF ReadVarintRest
<1> QED
  BY <1>2, <1>3, <1>4, <1>5 DEF RecvFrame

(* A frame behind those received is in front of the rest.                   *)
LEMMA AppendThen ==
    ASSUME NEW S, NEW g \in Seq(S), NEW x \in S, NEW h \in Seq(S)
    PROVE  g \o (<<x>> \o h) = Append(g, x) \o h
<1> DEFINE a == g \o (<<x>> \o h)
           b == Append(g, x) \o h
<1>1. <<x>> \o h \in Seq(S) /\ Len(<<x>> \o h) = 1 + Len(h) /\ Append(g, x) \in Seq(S)
      /\ Len(Append(g, x)) = Len(g) + 1
  OBVIOUS
<1>2. a \in Seq(S) /\ b \in Seq(S) /\ Len(a) = Len(g) + 1 + Len(h) /\ Len(b) = Len(a)
  BY <1>1
<1>3. ASSUME NEW i \in 1 .. Len(a) PROVE a[i] = b[i]
  <2>1. CASE i <= Len(g)
    BY <1>1, <1>2, <2>1
  <2>2. CASE i = Len(g) + 1
    BY <1>1, <1>2, <2>2
  <2>3. CASE i > Len(g) + 1
    BY <1>1, <1>2, <2>3
  <2> QED
    BY <1>2, <2>1, <2>2, <2>3, SMTT(30)
<1> HIDE DEF a, b
<1>4. a = b
  BY <1>2, <1>3
<1> QED
  BY <1>4 DEF a, b

(* Every frame that can be sent can be received.                            *)
LEMMA FramesAreFrames ==
    ASSUME NatIsWellOrdered
    PROVE  Frames \subseteq AnyFrame /\ Seq(Frames) \subseteq Seq(AnyFrame)
<1>1. MaxVarint \in Int
  BY LimitIsNat DEF MaxVarint
<1>2. 0 .. MaxVarint \subseteq Nat
  BY <1>1
<1>3. Frames \subseteq AnyFrame
  BY <1>2, SMTT(30) DEF Frames, AnyFrame
<1> HIDE DEF Frames, AnyFrame
<1> QED
  BY <1>3

(* A frame more: Decode finds the same one, and it is the next one sent.    *)
LEMMA ReturnsConsumed ==
    ASSUME NatIsWellOrdered,
           IInv, NEW s \in 0 .. pos, Consumed(frames, sent, got, s), Returns(s)
    PROVE  Consumed(frames, sent, got', pos')
<1> DEFINE v == LenAt(sent, s).value
           e == PayloadAt(sent, s)
           f == FrameAt(sent, s)
           D == DecodeFrom(sent)
           W == Written(frames)
<1>0. /\ SentIsPrefix /\ sent \in Seq(Byte) /\ Len(sent) \in Nat /\ s \in Nat
      /\ s \in 0 .. Len(sent) /\ frames \in Seq(Frames)
  BY Bounds, SentBytes
<1>1. HasLen(sent, s) /\ v <= MaxFrameSize /\ Len(sent) - e >= v /\ pos' = e + v
      /\ got' = Append(got, f)
  BY DEF Returns
<1>2. v \in Nat /\ e \in s + 4 .. Len(sent)
  BY <1>1, LenBytes, Zenon
<1>3. Decode(Drop(sent, s)) = [err |-> "nil", n |-> e + v - s, frame |-> f]
  <2>1. ~(v > MaxFrameSize) /\ ~(Len(sent) - e < v)
    BY <1>0, <1>1, <1>2, FrameAssumption, SMTT(30)
  <2> QED
    BY <1>1, <2>1, DecodeComplete, ZenonT(60)
<1>4. /\ D[s].frames = <<f>> \o D[pos'].frames /\ D[s].err = D[pos'].err
      /\ pos' \in 0 .. Len(sent)
  <2>1. s + (e + v - s) = e + v
    BY <1>0, <1>2, SMTT(30)
  <2> HIDE DEF v, e, f, D
  <2>2. /\ Decode(Drop(sent, s)).err = "nil" /\ Decode(Drop(sent, s)).n = e + v - s
        /\ Decode(Drop(sent, s)).frame = f
    BY <1>3, SMTT(30)
  <2>3. /\ s + (e + v - s) \in 0 .. Len(sent)
        /\ D[s].frames = <<f>> \o D[s + (e + v - s)].frames
        /\ D[s].err = D[s + (e + v - s)].err
    <3>1. LET r == Decode(Drop(sent, s))
          IN  /\ s + r.n \in 0 .. Len(sent)
              /\ DecodeFrom(sent)[s].frames = <<r.frame>> \o DecodeFrom(sent)[s + r.n].frames
              /\ DecodeFrom(sent)[s].err = DecodeFrom(sent)[s + r.n].err
      BY <1>0, <2>2, DecodeAllFacts, ZenonT(60)
    <3> QED
      BY <2>2, <3>1, SMTT(30) DEF D
  <2> QED
    BY <1>1, <2>1, <2>3
<1>5. PICK k \in 0 .. Len(frames) : got = SubSeq(frames, 1, k) /\ s = Len(W[k])
  BY DEF Consumed
<1>6. k \in 0 .. Len(frames) - 1 /\ Len(frames) \in Nat
  <2>1. Len(sent) <= Len(W[Len(frames)])
    BY <1>0, SentBegins DEF SentIsPrefix
  <2>2. s < Len(sent)
    BY <1>0, <1>2
  <2>3. Len(frames) \in Nat
    BY <1>0
  <2>4. k # Len(frames)
    <3>1. ASSUME k = Len(frames) PROVE FALSE
      <4>1. Len(sent) <= s
        BY <1>5, <2>1, <3>1
      <4> QED
        BY <1>0, <2>2, <4>1
    <3> QED
      BY <3>1
  <2> QED
    BY <2>3, <2>4
<1>7. frames[k + 1] \in Frames /\ BeginsAs(sent, s, Encode(frames[k + 1]))
  <2>1. k + 1 \in 1 .. Len(frames)
    BY <1>6, SMTT(30)
  <2>2. BeginsAs(sent, Len(W[k]), Encode(frames[k + 1]))
    BY <1>0, <1>6, SentBegins, ZenonT(60) DEF SentIsPrefix
  <2> QED
    BY <1>0, <1>5, <2>1, <2>2
<1>8. f = frames[k + 1] /\ pos' = s + Len(Encode(frames[k + 1]))
  BY <1>1, <1>7, DecodesWhatWasSent
<1>9. k + 1 \in 0 .. Len(frames) /\ pos' = Len(W[k + 1])
  <2>1. W[k + 1] = W[k] \o Encode(frames[k + 1]) /\ W[k] \in Seq(Byte)
    BY <1>0, <1>6, WrittenStep, Zenon
  <2>2. Encode(frames[k + 1]) \in Seq(Byte)
    BY <1>7, EncodeBytes, ZenonT(60)
  <2>3. Len(W[k + 1]) = Len(W[k]) + Len(Encode(frames[k + 1]))
    BY <2>1, <2>2
  <2> QED
    BY <1>5, <1>6, <1>8, <2>3
<1> HIDE DEF v, e, f, D, W
<1>10. got \in Seq(Frames) /\ f \in Frames
  BY <1>0, <1>5, <1>6, <1>7, <1>8, SMTT(30)
<1>11. got' = SubSeq(frames, 1, k + 1)
  BY <1>0, <1>1, <1>5, <1>6, <1>8, <1>9, SMTT(30)
<1>12. DecodeAll(sent).frames = got' \o D[pos'].frames /\ DecodeAll(sent).err = D[pos'].err
  <2>1. DecodeAll(sent).frames = got \o (<<f>> \o D[pos'].frames)
        /\ DecodeAll(sent).err = D[pos'].err
    BY <1>4 DEF Consumed, D
  <2>2. D[pos'].frames \in Seq(AnyFrame)
    BY <1>0, <1>4, DecodeAllFacts, Zenon DEF D, Decoded
  <2>3. got \in Seq(AnyFrame) /\ f \in AnyFrame
    BY <1>10, FramesAreFrames
  <2>4. got \o (<<f>> \o D[pos'].frames) = Append(got, f) \o D[pos'].frames
    <3> DEFINE h == D[pos']
    <3> HIDE DEF h
    <3>1. h.frames \in Seq(AnyFrame)
      BY <2>2 DEF h
    <3>2. ASSUME NEW g \in Seq(AnyFrame), NEW x \in AnyFrame, NEW y \in Seq(AnyFrame)
          PROVE  g \o (<<x>> \o y) = Append(g, x) \o y
      BY <3>2, AppendThen, SMTT(30)
    <3>3. got \o (<<f>> \o h.frames) = Append(got, f) \o h.frames
      BY <2>3, <3>1, <3>2, Zenon
    <3> QED
      BY <3>3, Zenon DEF h
  <2> QED
    BY <1>1, <2>1, <2>4, ZenonT(60)
<1> QED
  BY <1>9, <1>11, <1>12, Zenon DEF Consumed, D, W

(* The reader starts at the first frame.                                    *)
LEMMA InitIInv ==
    ASSUME NatIsWellOrdered
    PROVE  Init => IInv
<1> SUFFICES ASSUME Init PROVE IInv
  OBVIOUS
<1>1. frames \in Seq(Frames)
  BY FrameListsAssumption DEF Init
<1>2. SentIsPrefix
  BY DEF Init, SentIsPrefix
<1>3. sent \in Seq(Byte) /\ Len(sent) \in Nat
  <2>1. sent \in Seq(Byte)
    BY <1>1, <1>2, SentBegins DEF SentIsPrefix
  <2> QED
    BY <2>1
<1>4. TypeOK /\ (fin => arrived = Len(sent))
  <2>1. 0 \in 0 .. MaxFrameSize
    BY FrameAssumption
  <2>2. /\ frames \in FrameLists /\ arrived = 0 /\ fin = FALSE /\ pos = 0
        /\ stage = "header" /\ plen = 0 /\ err = "nil"
    BY DEF Init
  <2>3. 0 \in 0 .. 0 /\ 0 \in 0 .. Len(sent)
    BY <1>3
  <2> QED
    BY <2>1, <2>2, <2>3, Zenon DEF TypeOK
<1>5. 0 \in 0 .. pos /\ got = <<>> /\ err = "nil"
  BY DEF Init
<1>6. Reading(sent, 0, pos, stage, first, cur, plen)
  BY DEF Init, Reading, ReadingHeader
<1>7. Consumed(frames, sent, got, 0)
  <2>1. DecodeFrom(sent)[0].frames \in Seq(AnyFrame)
    <3>1. 0 \in 0 .. Len(sent)
      BY <1>3
    <3> QED
      BY <1>3, <3>1, DecodeAllFacts DEF Decoded
  <2>2. /\ DecodeAll(sent).frames = got \o DecodeFrom(sent)[0].frames
        /\ DecodeAll(sent).err = DecodeFrom(sent)[0].err
    <3>1. ASSUME NEW S, NEW h \in Seq(S) PROVE <<>> \o h = h
      BY <3>1
    <3>2. <<>> \o DecodeFrom(sent)[0].frames = DecodeFrom(sent)[0].frames
      BY <2>1, <3>1, Zenon
    <3>3. DecodeAll(sent) = DecodeFrom(sent)[0]
      BY DecodeAllIsFrom
    <3> QED
      BY <1>5, <3>2, <3>3
  <2>3. 0 \in 0 .. Len(frames) /\ got = SubSeq(frames, 1, 0)
    BY <1>1, <1>5
  <2>4. Len(Written(frames)[0]) = 0
    <3>1. Written(frames)[0] = <<>>
      BY <1>1, WrittenStep, Zenon
    <3> QED
      BY <3>1
  <2> QED
    BY <2>2, <2>3, <2>4, ZenonT(60) DEF Consumed
<1> QED
  BY <1>2, <1>4, <1>5, <1>6, <1>7 DEF IInv

(* Every step of sender, stream and reader keeps the invariant.             *)
LEMMA NextIInv ==
    ASSUME NatIsWellOrdered
    PROVE  IInv /\ [Next]_vars => IInv'
<1> SUFFICES ASSUME IInv, [Next]_vars PROVE IInv'
  OBVIOUS
<1>0. PICK s \in 0 .. pos :
         /\ Consumed(frames, sent, got, s)
         /\ err = "nil" => Reading(sent, s, pos, stage, first, cur, plen)
         /\ err # "nil" => Failed(sent, s, err)
  BY DEF IInv
<1>b. /\ TypeOK /\ SentIsPrefix /\ sent \in Seq(Byte) /\ Len(sent) \in Nat
      /\ s \in Nat /\ pos \in Nat /\ arrived \in Nat
      /\ s <= pos /\ pos <= arrived /\ arrived <= Len(sent)
      /\ fin => arrived = Len(sent)
  BY Bounds DEF IInv
<1>1. CASE Deliver
  <2>1. arrived' \in arrived + 1 .. Len(sent) /\ UNCHANGED <<frames, sent, fin, reader>>
    BY <1>1 DEF Deliver
  <2>2. ~fin
    BY <1>1, <1>b DEF Deliver
  <2>3. TypeOK'
    <3>1. pos \in 0 .. arrived' /\ arrived' \in 0 .. Len(sent)
      BY <1>b, <2>1, SMTT(30)
    <3> QED
      BY <1>b, <2>1, <3>1 DEF TypeOK, reader
  <2> QED
    BY <1>0, <1>b, <2>1, <2>2, <2>3, Zenon DEF IInv, SentIsPrefix, reader
<1>2. CASE DeliverFin
  <2>1. arrived = Len(sent) /\ fin' = TRUE /\ UNCHANGED <<frames, sent, arrived, reader>>
    BY <1>2 DEF DeliverFin
  <2>2. TypeOK'
    BY <1>b, <2>1 DEF TypeOK, reader
  <2> QED
    BY <1>0, <1>b, <2>1, <2>2, SMTT(30) DEF IInv, SentIsPrefix, reader
<1>3. CASE RecvFrame
  <2>1. /\ err = "nil" /\ UNCHANGED <<frames, sent, arrived, fin>>
        /\ plen' = plen \/ (stage' = "payload" /\ err' = "nil")
        /\ stage' \in Stages /\ err' \in Errors
    BY <1>3, <1>b, RecvFrameTypes, SMTT(30)
  <2>2. Outcome(s) /\ pos' \in pos .. arrived
    BY <1>0, <1>3, <2>1, RecvFrameStep, RecvFramePos, SMTT(30)
  <2>3. plen' \in 0 .. MaxFrameSize
    <3>1. CASE plen' = plen
      BY <1>b, <3>1 DEF TypeOK
    <3>2. CASE plen' # plen
      <4>1. stage' = "payload" /\ err' = "nil"
        BY <2>1, <3>2, SMTT(30)
      <4>2. Reading(sent, s, pos', stage', first', cur', plen')
        BY <2>2, <4>1, SMTT(30) DEF Outcome, Advances, Returns, Fails
      <4>3. plen' \in 1 .. MaxFrameSize
        BY <4>1, <4>2 DEF Reading, ReadingHeader, ReadingLen, ReadingPayload
      <4> QED
        BY <4>3, FrameAssumption
    <3> QED
      BY <3>1, <3>2
  <2>4. s \in 0 .. pos' /\ pos' \in 0 .. arrived /\ pos' \in Nat
    BY <1>b, <2>2, SMTT(30)
  <2>5. TypeOK' /\ SentIsPrefix' /\ (fin' => arrived' = Len(sent'))
    BY <1>b, <2>1, <2>3, <2>4, ZenonT(60) DEF TypeOK, SentIsPrefix, Stages, Errors
  <2>6. CASE Advances(s)
    BY <1>0, <2>1, <2>4, <2>5, <2>6, ZenonT(60) DEF IInv, Advances
  <2>7. CASE Fails(s)
    BY <1>0, <2>1, <2>4, <2>5, <2>7, ZenonT(60) DEF IInv, Fails
  <2>8. CASE Returns(s)
    <3>1. Consumed(frames, sent, got', pos')
      BY <1>0, <2>8, ReturnsConsumed, ZenonT(60)
    <3>2. Reading(sent, pos', pos', stage', first', cur', plen') /\ err' = "nil"
      BY <2>8 DEF Returns, Reading, ReadingHeader
    <3>3. pos' \in 0 .. pos'
      BY <2>4, SMTT(30)
    <3> QED
      BY <2>1, <2>5, <3>1, <3>2, <3>3, ZenonT(60) DEF IInv
  <2> QED
    BY <2>2, <2>6, <2>7, <2>8, SMTT(30) DEF Outcome
<1>4. CASE UNCHANGED vars
  BY <1>4 DEF vars, IInv, TypeOK, SentIsPrefix
<1> QED
  BY <1>1, <1>2, <1>3, <1>4 DEF Next

-----------------------------------------------------------------------------
INSTANCE WellFoundedInduction

(* Numbers are well ordered, so what the lemmas assume of them holds.       *)
LEMMA WellOrdered == NatIsWellOrdered
<1> SUFFICES ASSUME NEW T, T \subseteq Nat, T # {}
             PROVE  \E x \in T : \A y \in T : x <= y
  BY Zenon DEF NatIsWellOrdered
<1> DEFINE R == OpToRel(<, Nat)
<1>1. IsWellFoundedOn(R, Nat)
  BY NatLessThanWellFounded, Zenon
<1>2. \A x, y \in Nat : x < y => <<x, y>> \in R
  BY DEF OpToRel
<1> HIDE DEF R
<1>3. PICK x \in T : \A y \in T : ~(<<y, x>> \in R)
  BY <1>1, WFMin, Zenon
<1>4. \A y \in T : x <= y
  <2> SUFFICES ASSUME NEW y \in T PROVE x <= y
    OBVIOUS
  <2>1. ~(<<y, x>> \in R)
    BY <1>3
  <2>2. x \in Nat /\ y \in Nat
    OBVIOUS
  <2>3. ~(y < x)
    BY <1>2, <2>1, <2>2, Zenon
  <2> QED
    BY <2>2, <2>3
<1> QED
  BY <1>4

(* Decode returns every frame whose payload is at most MaxFrameSize just as *)
(* Encode was given it, with the number of bytes that Encode made, whatever *)
(* bytes follow: the two are inverse for every length of varint, and a      *)
(* frame can be cut off a longer buffer.                                    *)
THEOREM DecodeInvertsEncode ==
    ASSUME NEW f \in Frames, Len(f.payload) <= MaxFrameSize, NEW rest \in Seq(Byte)
    PROVE  Decode(Encode(f) \o rest) = [err |-> "nil", n |-> Len(Encode(f)), frame |-> f]
BY WellOrdered, EncodedIsDecoded, Zenon

-----------------------------------------------------------------------------
(* The invariant holds in every state.                                      *)
LEMMA Invariance == Spec => []IInv
<1>1. Init => IInv
  BY InitIInv, WellOrdered
<1>2. IInv /\ [Next]_vars => IInv'
  BY NextIInv, WellOrdered
<1> QED
  BY <1>1, <1>2, PTL DEF Spec

(* The state of readFrame stays of its type: the receiver never consumes    *)
(* more bytes than have arrived, and the payload length that it allocates   *)
(* for never exceeds MaxFrameSize, whatever the peer sends.                 *)
THEOREM TypeCorrect == Spec => []TypeOK
<1>1. IInv => TypeOK
  BY DEF IInv
<1> QED
  BY <1>1, Invariance, PTL

(* RecvFrame returns the frames that SendFrame wrote, in their order and    *)
(* unchanged, for every sequence of frames, every way in which the bytes    *)
(* are delivered and every place where the stream ends.                     *)
THEOREM Received == Spec => []ReceivedIsPrefix
<1>1. IInv => ReceivedIsPrefix
  <2> SUFFICES ASSUME IInv PROVE ReceivedIsPrefix
    BY SMTT(30)
  <2>1. PICK k \in 0 .. Len(frames) : got = SubSeq(frames, 1, k)
    BY Zenon DEF IInv, Consumed
  <2> QED
    BY <2>1 DEF ReceivedIsPrefix
<1> QED
  BY <1>1, Invariance, PTL

(* readFrame and Decode, the two parsers of the format, agree: when         *)
(* RecvFrame fails it has returned the frames that Decode finds in the      *)
(* bytes sent, and it fails for a frame too large if and only if Decode     *)
(* does.                                                                    *)
THEOREM Agreement == Spec => []ParsersAgree
<1>1. IInv => ParsersAgree
  <2> SUFFICES ASSUME IInv, err # "nil"
               PROVE  /\ got = DecodeAll(sent).frames
                      /\ err = "ErrFrameTooLarge" <=> DecodeAll(sent).err = "ErrFrameTooLarge"
    BY DEF ParsersAgree
  <2>1. PICK s \in 0 .. pos : Consumed(frames, sent, got, s) /\ Failed(sent, s, err)
    BY DEF IInv
  <2>2. sent \in Seq(Byte) /\ s \in 0 .. Len(sent) /\ frames \in Seq(Frames)
    BY Bounds, SentBytes, WellOrdered, SMTT(30)
  <2>3. /\ DecodeFrom(sent)[s].frames = <<>>
        /\ DecodeFrom(sent)[s].err = Decode(Drop(sent, s)).err
    BY <2>1, <2>2, DecodeAllFacts, WellOrdered, ZenonT(60) DEF Failed
  <2>4. got \in Seq(Frames)
    BY <2>1, <2>2, SMTT(30) DEF Consumed
  <2>5. DecodeAll(sent).frames = got \o <<>> /\ DecodeAll(sent).err = Decode(Drop(sent, s)).err
    BY <2>1, <2>3 DEF Consumed
  <2>6. got \o <<>> = got
    BY <2>4, SMTT(30)
  <2> QED
    BY <2>1, <2>5, <2>6, SMTT(30) DEF Failed
<1> QED
  BY <1>1, Invariance, PTL

(* Bytes that begin as w, with all of w there, are w and what follows it.   *)
LEMMA CutOff ==
    ASSUME NEW data \in Seq(Byte), NEW s \in Nat, NEW w \in Seq(Byte), BeginsAs(data, s, w),
           s + Len(w) <= Len(data)
    PROVE  \E rest \in Seq(Byte) : Drop(data, s) = w \o rest
<1> DEFINE n == Len(w)
           m == Len(data)
           d == Drop(data, s)
           r == Drop(data, s + n)
           x == w \o r
<1>1. n \in Nat /\ m \in Nat /\ s \in 0 .. m /\ s + n \in 0 .. m
  OBVIOUS
<1>2. d \in Seq(Byte) /\ Len(d) = m - s /\ \A i \in 1 .. m - s : d[i] = data[s + i]
  BY <1>1, DropFacts, SMTT(30)
<1>3. /\ r \in Seq(Byte) /\ Len(r) = m - (s + n)
      /\ \A i \in 1 .. m - (s + n) : r[i] = data[(s + n) + i]
  BY <1>1, DropFacts
<1>4. /\ x \in Seq(Byte) /\ Len(x) = n + Len(r)
      /\ \A i \in 1 .. n : x[i] = w[i]
      /\ \A i \in 1 .. Len(r) : x[n + i] = r[i]
  BY <1>3, ConcatFacts, Zenon
<1>5. \A i \in 1 .. n : s + i <= m => data[s + i] = w[i]
  BY DEF BeginsAs
<1> SUFFICES d = x
  BY <1>3, SMTT(30)
<1> HIDE DEF n, m, d, r, x
<1>6. Len(d) = Len(x)
  <2>1. m - s = n + (m - (s + n))
    <3>1. ASSUME NEW u \in Nat, NEW v \in Nat, NEW z \in Nat
          PROVE  v - u = z + (v - (u + z))
      OBVIOUS
    <3> QED
      BY <1>1, <3>1, Zenon
  <2>2. Len(x) = n + (m - (s + n))
    BY <1>3, <1>4, ZenonT(60)
  <2> QED
    BY <1>2, <2>1, <2>2, Zenon
<1>7. ASSUME NEW i \in 1 .. Len(d) PROVE d[i] = x[i]
  <2>1. i \in 1 .. m - s /\ i \in Nat
    BY <1>1, <1>2, SMTT(30)
  <2>2. CASE i <= n
    <3>1. i \in 1 .. n /\ s + i <= m
      BY <1>1, <2>1, <2>2, SMTT(30)
    <3> QED
      BY <1>2, <1>4, <1>5, <2>1, <3>1, ZenonT(60)
  <2>3. CASE i > n
    <3>1. /\ i - n \in 1 .. m - (s + n) /\ (s + n) + (i - n) = s + i /\ n + (i - n) = i
      BY <1>1, <2>1, <2>3, SMTT(30)
    <3>2. x[i] = r[i - n] /\ r[i - n] = data[s + i]
      BY <1>3, <1>4, <3>1, ZenonT(60)
    <3> QED
      BY <1>2, <2>1, <3>2, ZenonT(60)
  <2> QED
    BY <1>1, <2>1, <2>2, <2>3, SMTT(30)
<1> QED
  BY <1>2, <1>4, <1>6, <1>7, SameBytes, ZenonT(60)

(* Nothing is lost: when RecvFrame fails after a stream of whole frames,    *)
(* none of them over MaxFrameSize, it has returned all of them.             *)
NothingIsLost ==
    /\ err # "nil" /\ sent = SendFrames(frames)
    /\ \A i \in 1 .. Len(frames) : Len(frames[i].payload) <= MaxFrameSize
    => got = frames

(* SendFrame's peer reads every frame of a stream that is not cut off: the  *)
(* error that ends its loop on RecvFrame comes after the last frame.        *)
THEOREM EveryFrameIsReceived == Spec => []NothingIsLost
<1>1. IInv => NothingIsLost
  <2> SUFFICES ASSUME IInv, err # "nil", sent = SendFrames(frames),
                      \A i \in 1 .. Len(frames) : Len(frames[i].payload) <= MaxFrameSize
               PROVE  got = frames
    BY DEF NothingIsLost
  <2> DEFINE W == Written(frames)
             N == Len(frames)
  <2>1. PICK s \in 0 .. pos : Consumed(frames, sent, got, s) /\ Failed(sent, s, err)
    BY DEF IInv
  <2>2. /\ sent \in Seq(Byte) /\ s \in 0 .. Len(sent) /\ frames \in Seq(Frames)
        /\ N \in Nat /\ s \in Nat /\ SentIsPrefix
    BY Bounds, SentBytes, WellOrdered, SMTT(30)
  <2>3. PICK k \in 0 .. N : got = SubSeq(frames, 1, k) /\ s = Len(W[k])
    BY <2>1, ZenonT(60) DEF Consumed
  <2>4. ASSUME k # N PROVE FALSE
    <3> DEFINE f == frames[k + 1]
               w == Encode(f)
    <3>1. k \in 0 .. N - 1 /\ k + 1 \in 1 .. N /\ k + 1 \in 0 .. N
      BY <2>2, <2>4
    <3>2. f \in Frames /\ Len(f.payload) <= MaxFrameSize
      BY <2>2, <3>1, SMTT(30)
    <3>3. w \in Seq(Byte)
      BY <3>2, EncodeBytes, WellOrdered, Zenon
    <3>4. BeginsAs(sent, s, w)
      BY <2>2, <2>3, <3>1, SentBegins, WellOrdered, Zenon DEF SentIsPrefix
    <3>5. s + Len(w) <= Len(sent)
      <4>1. W[k + 1] = W[k] \o w /\ W[k] \in Seq(Byte)
        BY <2>2, <3>1, WrittenStep, WellOrdered, ZenonT(60)
      <4>2. Len(W[k + 1]) = Len(W[k]) + Len(w)
        BY <3>3, <4>1
      <4>3. Len(W[k + 1]) <= Len(W[N])
        BY <2>2, <3>1, WrittenGrows, WellOrdered, Zenon DEF IsPre
      <4>4. sent = W[N]
        BY <2>2, WrittenStep, WellOrdered, Zenon
      <4> QED
        BY <2>3, <4>2, <4>3, <4>4, Zenon
    <3>6. PICK rest \in Seq(Byte) : Drop(sent, s) = w \o rest
      BY <2>2, <3>3, <3>4, <3>5, CutOff, Zenon
    <3>7. Decode(Drop(sent, s)) = [err |-> "nil", n |-> Len(w), frame |-> f]
      BY <3>2, <3>6, DecodeInvertsEncode, SMTT(30)
    <3> QED
      BY <2>1, <3>7 DEF Failed
  <2>5. got = SubSeq(frames, 1, N)
    BY <2>3, <2>4
  <2> QED
    BY <2>2, <2>5, SMTT(30)
<1> QED
  BY <1>1, Invariance, PTL

=============================================================================
