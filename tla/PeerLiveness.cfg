\* What must happen in the end, under the fairness of the event loop.
SPECIFICATION FairSpec
CONSTANTS
    None = None
    Mocks = {m1}
    Externals = {e1}
    Proxies = {}
    Conns <- MCConns
    HandlerSteps <- EchoOrProxy
    IsMatching = FALSE
PROPERTIES ClaimsSettle LossReachesPartner GoneSessionsEnd
CHECK_DEADLOCK FALSE
