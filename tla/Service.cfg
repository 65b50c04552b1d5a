SPECIFICATION Spec
CHECK_DEADLOCK FALSE
CONSTANTS
    Docs = {"d1", "d2"}
    Concurrency = 2
    Threshold = 2
    WindowPages <- MCWindowPages
    MaxPages = 4
    MaxRepair = 2
    MaxTries = 1
    MinRowsToRecord = 2
    Requests = {r1, r2}
    Clients = {"c1", "c2"}
    Accounts = {"a", "b"}
    Strangers = {"s"}
    Rules <- MCRules
    Retention <- MCRetention
    SessionTicks = 2
    DefaultCap = 2
    EphemeralKey = FALSE
    Caps = {0, 1}
    MaxNow = 2
    MaxEvents = 4
    Finalizers = {f1, f2}
    Codes = {"CN", "DE"}
    NoCode = ""
    Vendored <- MCVendored
    RowLocks = TRUE
    MaxRecorded = 4
INVARIANTS
    LimitsHold
    QuotaOvershootBounded
    AnswersAlike
    CleanMeansComplete
    PaidRowsKept
    ProfileIsItsEvidence
PROPERTIES
    EveryExtractionEnds
