\* A session under the matching peer, with every kind of handler, and an external connection
\* that may be attached to it.
SPECIFICATION Spec
CONSTANTS
    None = None
    Mocks = {m1}
    Externals = {e1}
    Proxies = {p1}
    Conns <- MCConns
    HandlerSteps <- Sessions
    IsMatching = TRUE
INVARIANTS TypeOK HandlerEndsClosed LiveAreTracked SessionHistory DisconnectIsReal
CONSTRAINT LateConnected
PROPERTIES CloseReachesAll KeepsProtocol UsesConnections
CHECK_DEADLOCK FALSE
