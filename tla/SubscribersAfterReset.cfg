\* A subscriber that listens across a reset.
SPECIFICATION Spec
CONSTANTS
    None = None
    k1 = k1
    k2 = k2
    Sessions = {s1, s2}
    Built = {p1}
    Callers <- MCCallers
    Uses <- MCUses
    RuleLists <- MCRuleLists
    TraitSets <- MCTraitSets
    MaxRules = 1
    MaxTravel = 1
    Subscribed = "peer-disconnected"
INVARIANT SubscribersHearAll
CHECK_DEADLOCK FALSE
