SPECIFICATION SharedSpec
CONSTANTS
    Call = {"x", "y"}
    DID = {"did:a", "did:b"}
    Method <- MCMethod
    Key = {"ka", "kb"}
    KeyOf <- MCKeyOf
    NoDID = ""
    NoKey = "nokey"
    Nonce = {"n1", "n2"}
    Blocks <- MCBlocks
    Workloads <- MCWorkloads
    HasResolver = FALSE
    TicksPerMs = 2
    Window = 1
    MaxDuration = 30
    MaxClock = 2
    MaxSetBack = 0
    Clients <- MCClients
    NodeConfig <- MCNodeConfig
    DIDs = {"did:a", "did:b"}
CHECK_DEADLOCK FALSE
INVARIANT PeerNodeIDIsAuthenticated
