\* Descriptions of a mock connection: one that makes it and two renegotiations that overlap.
SPECIFICATION FairSpec
CONSTANTS
    m1 = m1
    Mocks = {}
    Conns = {m1}
    MaxCalls = 3
INVARIANTS TypeOK DeliveredComplete SetupHidden
PROPERTY NewestWaitSettles
CHECK_DEADLOCK FALSE
