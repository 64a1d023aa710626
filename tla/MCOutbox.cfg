SPECIFICATION FairSpec
CONSTANTS
    Workers = {w1, w2}
    NoWorker = NoWorker
    Events <- MCEvents
    Adapters = {hook}
    SubjectOf <- MCSubjectOf
    Subscribers <- MCSubscribers
    Deployments <- SameDeployment
    MaxAttempts = 2
    BackoffCap = 1
    Visibility = 1
    Retention = 0
    Hints = {0, 2}
    MaxClock = 2
    MaxCrashes = 1
    MaxLockDrops = 0
    MaxReplays = 1
INVARIANTS
    TypeOK
    StreamOrder
    OneHandler
    OutcomeIsRecorded
    PayloadPresent
PROPERTIES
    ImplementsContract
    Settles
