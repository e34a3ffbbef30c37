SPECIFICATION Spec
CONSTANTS
    c1 = c1
    o1 = o1
    ListenCall = {"l1"}
    StopCall = {"s1"}
    Conn = {c1}
    Op = {o1}
    ConnOf <- Single
    AgentID = {"a1"}
CHECK_DEADLOCK FALSE
INVARIANT ListenerClosedByStop
