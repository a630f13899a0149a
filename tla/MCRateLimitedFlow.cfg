SPECIFICATION FlowSpec
CONSTANTS
    RateLimitDuration = 3
    MaxAmount = 7
    Amounts <- MCAmounts
    Limits <- MCLimits
    MaxTime = 8
INVARIANTS
    NetFlowBounded
    LimitCanAlwaysMove
PROPERTIES
    UsedCapacityPreserved
