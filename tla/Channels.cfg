\* A channel of each side: waiting, sending, creating and echoing.
SPECIFICATION FairSpec
CONSTANTS
    Remote = {r1}
    Local = {l1}
    HighWater = 1
    MaxMessages = 2
    Programs <- Handlers
INVARIANTS TypeOK NothingLost RefusesWhenFull EventsTellAll
PROPERTIES EchoAnswers

CHECK_DEADLOCK FALSE
