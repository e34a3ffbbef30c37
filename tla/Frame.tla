------------------------------- MODULE Frame --------------------------------
(***************************************************************************)
(* The wire format of frames (frame.go).  A byte is a number below 4 * Q: a *)
(* two-bit length class and a digit below Q.  Q is 2^6 in the code; nothing *)
(* depends on it, and a small Q puts the boundaries of the four varint      *)
(* lengths within reach of TLC.                                             *)
(***************************************************************************)
EXTENDS Integers, Sequences

CONSTANTS
    Q,             \* values of the six bits beside the length class
    MaxFrameSize   \* longest payload a receiver accepts

ASSUME FrameAssumption == Q \in Nat \ {0} /\ MaxFrameSize \in Nat

Base == 4 * Q
Byte == 0 .. Base - 1

Drop(data, n) == SubSeq(data, n + 1, Len(data))

(* The powers of Base: what a digit is worth k places from the right.       *)
Place[k \in 0 .. 7] == IF k = 0 THEN 1 ELSE Base * Place[k - 1]

BigEndian(v, n) == [i \in 1 .. n |-> (v \div Place[n - i]) % Base]

Value(digits) ==
    LET sum[i \in 0 .. Len(digits)] ==
            IF i = 0 THEN 0 ELSE sum[i - 1] * Base + digits[i]
    IN  sum[Len(digits)]

(* The four lengths of a varint and the values below which they are used.   *)
Sizes == <<1, 2, 4, 8>>
Limit(class) == Q * Place[Sizes[class + 1] - 1]
MaxVarint == Limit(3) - 1

ClassOf_OffByOne(v) == CHOOSE k \in 0 .. 3 :
    /\ v <= Limit(k)
    /\ \A j \in 0 .. k - 1 : v > Limit(j)

ClassOf(v) == CHOOSE k \in 0 .. 3 :
    /\ v < Limit(k)
    /\ \A j \in 0 .. k - 1 : v >= Limit(j)

(* AppendVarint, for v up to MaxVarint (it panics beyond).                  *)
AppendVarint(dst, v) ==
    dst \o [BigEndian(v, Sizes[ClassOf(v) + 1]) EXCEPT ![1] = @ + ClassOf(v) * Q]

Short == [err |-> "ErrShortBuffer", value |-> 0, n |-> 0]

ReadVarint(data) ==
    IF data = <<>> THEN Short
    ELSE LET n == Sizes[data[1] \div Q + 1] IN
         IF Len(data) < n THEN Short
         ELSE [err |-> "nil", n |-> n,
               value |-> Value([SubSeq(data, 1, n) EXCEPT ![1] = @ % Q])]

(* The frames that Encode can encode: AppendVarint panics beyond MaxVarint. *)
Frames == {f \in [type : Byte, flags : Byte, opID : 0 .. MaxVarint, payload : Seq(Byte)] :
               Len(f.payload) <= MaxVarint}

Encode(f) ==
    AppendVarint(AppendVarint(<<f.type, f.flags>>, f.opID), Len(f.payload)) \o f.payload

Refused(e) == [err |-> e, n |-> 0]

Decode(data) ==
    LET opid == ReadVarint(Drop(data, 2))
        plen == ReadVarint(Drop(data, 2 + opid.n))
        pos == 2 + opid.n + plen.n
    IN
    IF Len(data) < 2 THEN Refused("ErrShortBuffer")
    ELSE IF opid.err # "nil" THEN Refused(opid.err)
    ELSE IF plen.err # "nil" THEN Refused(plen.err)
    ELSE IF plen.value > MaxFrameSize THEN Refused("ErrFrameTooLarge")
    ELSE IF Len(data) - pos < plen.value THEN Refused("ErrShortBuffer")
    ELSE [err |-> "nil", n |-> pos + plen.value,
          frame |-> [type |-> data[1], flags |-> data[2], opID |-> opid.value,
                     payload |-> SubSeq(data, pos + 1, pos + plen.value)]]

=============================================================================
