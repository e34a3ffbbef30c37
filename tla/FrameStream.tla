---------------------------- MODULE FrameStream -----------------------------
(***************************************************************************)
(* Frames on a QUIC stream (conn.go): a peer calls SendFrame for some       *)
(* frames and ends the stream, perhaps in the middle of one; the bytes      *)
(* arrive in pieces; the receiver calls RecvFrame until it fails.  RecvFrame*)
(* is readFrame, a second parser beside Decode: it reads the stream piece   *)
(* by piece with io.ReadFull, which blocks until the piece is there or the  *)
(* stream ends.                                                             *)
(***************************************************************************)
EXTENDS Frame

CONSTANT FrameLists   \* the sequences of frames that the peer sends

ASSUME FrameListsAssumption == FrameLists \subseteq Seq(Frames)

VARIABLES
    frames,   \* the frames the peer sends
    sent,     \* the bytes it writes before the stream ends
    arrived,  \* how many of them have arrived
    fin,      \* has the end of the stream arrived?
    pos,      \* how many the receiver has consumed
    stage,    \* what readFrame is reading
    first,    \* the first byte of the varint being read
    cur,      \* the frame being read
    plen,     \* its payload length
    got,      \* the frames that RecvFrame has returned
    err       \* the error it returned in the end; "nil" before that

vars == <<frames, sent, arrived, fin, pos, stage, first, cur, plen, got, err>>
reader == <<pos, stage, first, cur, plen, got, err>>

NoFrame == [type |-> 0, flags |-> 0, opID |-> 0, payload |-> <<>>]

(* SendFrame writes one encoded frame after the other.                      *)
SendFrames(fs) ==
    LET written[k \in 0 .. Len(fs)] ==
            IF k = 0 THEN <<>> ELSE written[k - 1] \o Encode(fs[k])
    IN  written[Len(fs)]

Init ==
    /\ frames \in FrameLists
    /\ \E n \in 0 .. Len(SendFrames(frames)) : sent = SubSeq(SendFrames(frames), 1, n)
    /\ arrived = 0 /\ fin = FALSE
    /\ pos = 0 /\ stage = "header" /\ first = 0
    /\ cur = NoFrame /\ plen = 0
    /\ got = <<>> /\ err = "nil"

(* QUIC delivers the next bytes, and the end of the stream after the last.  *)
Deliver ==
    /\ arrived < Len(sent)
    /\ \E n \in arrived + 1 .. Len(sent) : arrived' = n
    /\ UNCHANGED <<frames, sent, fin, reader>>

DeliverFin ==
    /\ arrived = Len(sent) /\ ~fin
    /\ fin' = TRUE
    /\ UNCHANGED <<frames, sent, arrived, reader>>

Available == arrived - pos

(* io.ReadFull of n bytes has them; it fails when the stream ends short of  *)
(* n: io.EOF if there was no byte at all, io.ErrUnexpectedEOF otherwise.    *)
ReadFull(n) == err = "nil" /\ Available >= n /\ pos' = pos + n
Bytes(n) == SubSeq(sent, pos + 1, pos + n)

ReadFullError(n) ==
    /\ err = "nil" /\ fin /\ Available < n
    /\ err' = IF Available = 0 THEN "EOF" ELSE "ErrUnexpectedEOF"
    /\ UNCHANGED <<pos, stage, first, cur, plen, got>>

Return(f) ==
    /\ got' = Append(got, f)
    /\ cur' = NoFrame
    /\ stage' = "header"
    /\ UNCHANGED <<first, plen, err>>

ReadHeader ==
    /\ stage = "header"
    /\ \/ /\ ReadFull(2)
          /\ cur' = [NoFrame EXCEPT !.type = Bytes(2)[1], !.flags = Bytes(2)[2]]
          /\ stage' = "opid"
          /\ UNCHANGED <<first, plen, got, err>>
       \/ ReadFullError(2)
    /\ UNCHANGED <<frames, sent, arrived, fin>>

HaveOpID(v) ==
    /\ cur' = [cur EXCEPT !.opID = v]
    /\ stage' = "plen"
    /\ UNCHANGED <<first, plen, got, err>>

HavePayloadLen_NoLimit(v) ==
    \/ v = 0 /\ Return(cur)
    \/ /\ v > 0
       /\ plen' = v
       /\ stage' = "payload"
       /\ UNCHANGED <<first, cur, got, err>>

HavePayloadLen(v) ==
    \/ /\ v > MaxFrameSize
       /\ err' = "ErrFrameTooLarge"
       /\ UNCHANGED <<stage, first, cur, plen, got>>
    \/ v = 0 /\ Return(cur)
    \/ /\ v > 0 /\ v <= MaxFrameSize
       /\ plen' = v
       /\ stage' = "payload"
       /\ UNCHANGED <<first, cur, got, err>>

Have(which, v) ==
    \/ which = "opid" /\ HaveOpID(v)
    \/ which = "plen" /\ HavePayloadLen(v)

(* readVarintFrom: the first byte gives the length.                         *)
Rest == [opid |-> "opid rest", plen |-> "plen rest"]

ReadVarintFirst(which) ==
    /\ stage = which
    /\ \/ /\ ReadFull(1)
          /\ \/ Bytes(1)[1] \div Q = 0 /\ Have(which, Bytes(1)[1] % Q)
             \/ /\ Bytes(1)[1] \div Q > 0
                /\ first' = Bytes(1)[1]
                /\ stage' = Rest[which]
                /\ UNCHANGED <<cur, plen, got, err>>
       \/ ReadFullError(1)
    /\ UNCHANGED <<frames, sent, arrived, fin>>

ReadVarintRest(which) ==
    LET n == Sizes[first \div Q + 1] - 1 IN
    /\ stage = Rest[which]
    /\ \/ ReadFull(n) /\ Have(which, ReadVarint(<<first>> \o Bytes(n)).value)
       \/ ReadFullError(n)
    /\ UNCHANGED <<frames, sent, arrived, fin>>

ReadPayload_Retries ==
    /\ stage = "payload"
    /\ ReadFull(plen) /\ Return([cur EXCEPT !.payload = Bytes(plen)])
    /\ UNCHANGED <<frames, sent, arrived, fin>>

ReadPayload ==
    /\ stage = "payload"
    /\ \/ ReadFull(plen) /\ Return([cur EXCEPT !.payload = Bytes(plen)])
       \/ ReadFullError(plen)
    /\ UNCHANGED <<frames, sent, arrived, fin>>

RecvFrame ==
    \/ ReadHeader \/ ReadPayload
    \/ \E which \in {"opid", "plen"} : ReadVarintFirst(which) \/ ReadVarintRest(which)

Next == Deliver \/ DeliverFin \/ RecvFrame

(* QUIC delivers what was sent, and the receiver keeps reading.             *)
Spec == Init /\ [][Next]_vars /\ WF_vars(Deliver \/ DeliverFin) /\ WF_vars(RecvFrame)

-----------------------------------------------------------------------------
(* What Decode, applied again and again, makes of a byte string.            *)
DecodeAll(data) ==
    LET from[p \in 0 .. Len(data)] ==
            LET r == Decode(Drop(data, p)) IN
            IF r.err # "nil" THEN [frames |-> <<>>, err |-> r.err, end |-> p]
            ELSE LET rest == from[p + r.n]
                 IN  [rest EXCEPT !.frames = <<r.frame>> \o @]
    IN  from[0]

(* The type invariant of the stream and its reader.                         *)
TypeOK ==
    /\ frames \in FrameLists
    /\ pos \in 0 .. arrived /\ arrived \in 0 .. Len(sent)
    /\ fin \in BOOLEAN
    /\ stage \in {"header", "opid", "opid rest", "plen", "plen rest", "payload"}
    /\ plen \in 0 .. MaxFrameSize
    /\ err \in {"nil", "EOF", "ErrUnexpectedEOF", "ErrFrameTooLarge"}

(* The frames received are the frames sent, in order and unchanged, however *)
(* the bytes are cut up and wherever the stream ends: SendFrame's encoding  *)
(* and readFrame are inverse on every length of varint.                     *)
ReceivedIsPrefix == \E n \in 0 .. Len(frames) : got = SubSeq(frames, 1, n)

(* When RecvFrame fails it has returned the same frames, and means the same *)
(* error, as Decode on all the bytes: the two parsers of the format agree,  *)
(* and a frame over MaxFrameSize is refused before its payload is read.     *)
ParsersAgree ==
    err # "nil" =>
        LET d == DecodeAll(sent) IN
        /\ got = d.frames
        /\ err = "ErrFrameTooLarge" <=> d.err = "ErrFrameTooLarge"

(* Reading ends: once the stream has ended RecvFrame does not block.        *)
ReadingEnds == <>(err # "nil")

=============================================================================
