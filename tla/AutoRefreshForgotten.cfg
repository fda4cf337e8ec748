CONSTANTS
    NoAuth = NoAuth
    Auth = {a1}
    Worker = {1}
    ApiKey = {}
    Preferred <- NoInterval
    Lead <- OneUnit
    Expiries <- FreshToken
    CheckInterval = 1
    PendingBackoff = 1
    FailureBackoff = 1
    IneffectiveBackoff = 1
    JobBuffer = 1
    MaxAge = 1
SPECIFICATION FairSpec
PROPERTIES AlwaysRefreshed
