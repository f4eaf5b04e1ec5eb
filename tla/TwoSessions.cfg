\* Two sessions and one external connection that both may claim.
SPECIFICATION Spec
CONSTANTS
    None = None
    Mocks = {m1, m2}
    Externals = {e1}
    Proxies = {}
    Conns <- MCConns
    HandlerSteps <- DynamicProxy
    IsMatching = FALSE
INVARIANTS IInv OneHolder ReleasedIsClosed
SYMMETRY MockSymmetry
CONSTRAINT ShortQueues
PROPERTY MirroredCloseTogether
CHECK_DEADLOCK FALSE
