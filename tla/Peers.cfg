SPECIFICATION FairSpec
CONSTANTS
    Task <- MCTask
    Opener <- MCOpener
    Replies <- MCReplies
    Wants <- MCWants
    Admissions <- MCAdmissions
    Slow = {"wordcount"}
    Targets <- MCTargets
    Capacity = 2
CHECK_DEADLOCK FALSE
INVARIANTS OperationsAreSeparate EOFMeansComplete NoSendOnClosedChannel AllChunksOrLoss
PROPERTIES FastReplyReachesClient NothingLeftBehind
