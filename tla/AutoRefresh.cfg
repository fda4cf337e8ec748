CONSTANTS
    NoAuth = NoAuth
    Auth = {a1}
    Worker = {1, 2}
    ApiKey = {}
    Preferred <- NoInterval
    Lead <- OneUnit
    Expiries <- FreshToken
    CheckInterval = 1
    PendingBackoff = 1
    FailureBackoff = 2
    IneffectiveBackoff = 1
    JobBuffer = 1
    MaxAge = 1
SPECIFICATION FairSpec
INVARIANTS TypeOK LooksInTime OneRefreshAtATime
PROPERTIES NoTightLoop DueIsRefreshed
