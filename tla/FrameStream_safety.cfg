SPECIFICATION Spec
CONSTANTS
    Q = 2
    MaxFrameSize = 3
    FrameLists <- MCFrameLists
CHECK_DEADLOCK FALSE
INVARIANTS TypeOK ReceivedIsPrefix ParsersAgree
PROPERTY ReadingEnds
