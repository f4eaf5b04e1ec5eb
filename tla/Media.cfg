\* One medium on both connections, waited for, echoed or proxied.
SPECIFICATION FairSpec
CONSTANTS
    Mids = {v1}
    HighWater = 1
    MaxPackets = 2
    Programs <- Handlers
INVARIANTS TypeOK PacketsAccounted
PROPERTIES StatsCatchUp PipesDrain
CHECK_DEADLOCK FALSE
