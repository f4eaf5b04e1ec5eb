\* The second of two steps that wait for a message.
SPECIFICATION Spec
CONSTANTS
    Remote = {r1}
    Local = {}
    HighWater = 2
    MaxMessages = 2
    Programs <- WaitsTwice
INVARIANTS NextMessageCompletes
CHECK_DEADLOCK FALSE
