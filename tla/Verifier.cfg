SPECIFICATION Spec
CONSTANTS
    c1 = c1
    c2 = c2
    c3 = c3
    Call = {c1, c2, c3}
    DID = {"key1", "web1", "other1"}
    Method <- MCMethod
    Key = {"k1", "k2"}
    KeyOf <- MCKeyOf
    NoDID = ""
    NoKey = "nokey"
    Nonce = {"n1", "n2"}
    Blocks <- MCBlocks
    Workloads <- AnyPaths
    HasResolver = TRUE
    TicksPerMs = 2
    Window = 1
    MaxDuration = 30
    MaxClock = 3
    MaxSetBack = 2
SYMMETRY Symmetry
CHECK_DEADLOCK FALSE
INVARIANTS TypeOK NoReplayInWindow ReplayOnlyThroughStaleClock WindowRespected
PROPERTIES EvictsOnlyExpired ImplementsReplayGuard
