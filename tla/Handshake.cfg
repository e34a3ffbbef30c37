SPECIFICATION FairSpec
CONSTANTS
    Configs <- MCConfigs
    DIDs <- MCDIDs
CHECK_DEADLOCK FALSE
INVARIANTS TypeOK Agreement RequiredAreActive NoHalfOpen SomeoneKnowsWhy
PROPERTY BothReturn
