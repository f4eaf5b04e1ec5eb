\* Remote clients of a session that is reset at any time: two connections, every request, and
\* descriptions of one session that overlap.
SPECIFICATION FairSpec
CONSTANTS
    None = None
    k1 = k1
    k2 = k2
    Sessions = {s1, s2}
    Built = {p1}
    Callers <- MCCallers
    Uses <- MCUses
    RuleLists <- MCRuleLists
    TraitSets <- MCTraitSets
    MaxRules = 1
    MaxTravel = 1
    Subscribed = "peer-disconnected"
INVARIANTS TypeOK OpenAreReachable HeardInOrder
PROPERTIES ResetIsHeard RulesAreWhole CallsSettle
CHECK_DEADLOCK FALSE
