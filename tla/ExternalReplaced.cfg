\* Two attach messages before either external connection has connected.
SPECIFICATION Spec
CONSTANTS
    None = None
    Mocks = {m1}
    Externals = {e1, e2}
    Proxies = {}
    Conns <- MCConns
    HandlerSteps <- DynamicProxy
    IsMatching = FALSE
PROPERTY ExternalNeverReplaced
CHECK_DEADLOCK FALSE
