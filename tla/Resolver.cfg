SPECIFICATION Spec
CONSTANTS
    DID = {"d1", "alias1", "d2", "bad", "k"}
    Method <- MCMethod
    URLOf <- MCURLOf
    Malformed = "malformed"
    URL = {"u1", "u2"}
    Handle = "alice"
    Junk = "junk"
    Document <- MCDocument
    NoDocument = NoDocument
    TXTRecords <- MCTXTRecords
    MaxEdits = 2
CHECK_DEADLOCK FALSE
INVARIANTS TypeOK BoundBothWays BoundUnlessWithdrawn MismatchMeansWithdrawn
