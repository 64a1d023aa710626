SPECIFICATION FairSpec
CONSTANTS
    Workers = {w1, w2}
    NoWorker = NoWorker
    Events <- MCEvents
    Adapters = {hook}
    SubjectOf <- MCSubjectOf
    Subscribers <- MCSubscribers
    Deployments <- SameDeployment
    MaxAttempts = 2
    BackoffCap = 1
    Visibility = 1
    Retention = 0
    Hints = {0, 2}
    MaxClock = 2
    MaxCrashes = 0
    MaxLockDrops = 1
    MaxReplays = 0
PROPERTIES
    DeliveredIsFinal
