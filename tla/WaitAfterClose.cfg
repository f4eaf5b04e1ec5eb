\* A handler that waits for a connection that is closed meanwhile.
SPECIFICATION FairSpec
CONSTANTS
    None = None
    Mocks = {m1}
    Externals = {}
    Proxies = {}
    Conns <- MCConns
    HandlerSteps <- Echo
    IsMatching = FALSE
PROPERTY WaitSettles
CHECK_DEADLOCK FALSE
