\* One checkout and two requests; two import files; two leads on two listings.
SPECIFICATION Spec
CONSTANTS
    Parts = {"payments", "imports", "leads"}
    s1 = s1  s2 = s2
    Attempts = {a1}  Handlers <- S  NoAttempt = NoAttempt  NoEvent = NoEvent
    MaxSent = 3  MaxDeaths = 1
    Batches = {1, 2}  ImportListings = {"x", "y"}  Contents = {"old", "new", "other"}
    Absent = Absent  Invalid = Invalid  Fatal = Fatal  Unreadable = Unreadable
    Files <- MCFiles  SuppressionKeys <- MCSuppressed  Stock <- MCStock
    ROWS_PER_PASS = 2  SWEEP_LIMIT = 1  MaxEdits = 1  MaxWorkerDeaths = 1
    LeadIds = {1, 2}  LeadListings <- S  LeadOwners = {ann}  LeadStaff = {sue}
    Nobody = Nobody  Flush = 0  MaxHandovers = 1
SYMMETRY Symmetric
CHECK_DEADLOCK FALSE
INVARIANTS
    EffectOnce
    PurchaseKept
    LeadReported
PROPERTIES
    RollbackRestores
    EvidenceKept
