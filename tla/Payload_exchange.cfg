SPECIFICATION Spec
CONSTANTS
    Q = 2
    MaxFrameSize = 3
    NonceLen = 2
    WordLen = 2
    CurrencyLen = 3
    Separator <- MCSeparator
    Alphabet = 5
    DIDKeyPrefix <- MCDIDKeyPrefix
    KeyCodec <- MCKeyCodec
    KeyLen = 2
    Messages <- MCMessages
CHECK_DEADLOCK FALSE
INVARIANTS RoundTrip DamageIsNoticed AcceptedCanBeForwarded SignedContentIsFixed OneTextPerKey
