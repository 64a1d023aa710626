SPECIFICATION FairSpec
CONSTANTS
    Workers = {w1}
    Messages <- MCMessages
    Lifetimes <- MCLifetimes
    BackoffCap = 1
    Recheck = 1
    Visibility = 1
    Retention = 1
    MaxClock = 3
    MaxCrashes = 1
INVARIANTS
    TypeOK
    SecretLifetime
    RepeatsNeedCrashes
PROPERTIES
    Retires
