SPECIFICATION Spec
CONSTANTS
    basic = basic
    gold = gold
    Tiers <- MCTiers
    NoTier = NoTier
    DUNNING = 1
    GRACE = 1
    TRIAL_OVERDUE = 1
    Listings <- OneListing
    Periods <- MCPeriods
    InitialRanks <- MCRanks
    MaxRank = 1
    MaxClock = 1
    MaxOverrides = 1
    MaxCommands = 3
INVARIANTS
    JobSkipsMovedRows
