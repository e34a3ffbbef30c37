--------------------------- MODULE MCFrameStream ----------------------------
(* Small instances of FrameStream for TLC: bytes have eight values, so that *)
(* varints change length at 2, 16 and 1024.                                 *)
EXTENDS FrameStream

F(opID, payload) == [type |-> 5, flags |-> 0, opID |-> opID, payload |-> payload]

(* Operation IDs at both sides of each change of length, payloads that are  *)
(* empty, as long as allowed (its length takes two bytes), and too long.    *)
FrameSet == {F(id, <<>>) : id \in {0, 1, 2, 15, 16, 1023, 1024, MaxVarint}}
            \cup {F(1, <<7>>), F(2, <<6, 0, 7>>), F(1, <<0, 1, 2, 3>>)}

MCFrameLists == {<<f>> : f \in FrameSet} \cup {<<f, g>> : f, g \in FrameSet}
=============================================================================
