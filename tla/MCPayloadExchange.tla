------------------------- MODULE MCPayloadExchange --------------------------
(* Small instances of PayloadExchange for TLC.  Bytes have eight values, so *)
(* varints change length at 2, 16 and 1024; nonces and words take two bytes.*)
EXTENDS PayloadExchange, TLC

Ints == {0, 1, 2, 15, 16, 1023, 1024, MaxVarint}
Strings == {<<>>, <<7>>, <<1, 0>>, <<0, 2, 6>>}

Optional(id, values) == {<<>>} \cup {id :> v : v \in values}

Budgets ==
    {t @@ c @@ u @@ d : t \in Optional(TokensRemaining, Ints),
                        c \in Optional(CostMicrounitsRemaining, {0, 16}),
                        u \in Optional(Currency, {<<7, 0, 1>>}),
                        d \in Optional(DeadlineMS, {-32, -1, 0, 31})}

MCSeparator == <<4, 4>>
MCDIDKeyPrefix == <<6>>
MCKeyCodec == <<7, 1>>

OneByte(b) == <<b>>
Caps == {<<>>, <<<<7>>, 1, OneByte(0)>>, <<<<1, 0>>, 16, OneByte(1), <<>>, 0, OneByte(0)>>}

Hellos ==
    {[hello |-> [inner |-> <<0, minor, id, Len(caps) \div 3>>, caps |-> caps],
      block |-> <<OneByte(1), id, <<5, 0>>, <<0, 7>>, sig>>] :
        minor \in {2, 16}, id \in Strings, caps \in Caps, sig \in {<<>>, <<3, 4>>}}

MCMessages ==
    [k \in Kinds |->
        CASE k = "CANCEL" -> Ints \X Strings
          [] k = "INVOKE" -> Strings \X Strings \X Strings
          [] k = "BUDGET" -> Budgets \ {<<>>}
          [] k = "HELLO" -> Hellos
          [] k = "did:key" -> [1 .. KeyLen -> Byte]]
=============================================================================
