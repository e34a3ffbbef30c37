SPECIFICATION FairSpec
CONSTANTS
    c1 = c1
    o1 = o1
    ListenCall = {"l1", "l2"}
    StopCall = {"s1", "s2"}
    Conn = {c1}
    Op = {o1}
    ConnOf <- Single
    AgentID = {"a1", "a2"}
CHECK_DEADLOCK FALSE
INVARIANTS TypeOK StopIsComplete WaitGroupCounts ConnectionDiscipline
PROPERTIES StopReturns OperationsFinish
