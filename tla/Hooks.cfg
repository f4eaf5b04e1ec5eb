\* Two negotiations, begun by either side.
SPECIFICATION FairSpec
CONSTANT MaxCalls = 6
INVARIANTS TypeOK NativeNeverRefuses CurrentFits ShownFits
PROPERTIES AttachNamesNegotiated CallsSettle
CHECK_DEADLOCK FALSE
