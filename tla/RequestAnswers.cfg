CONSTANTS
    a1 = a1 a2 = a2 r1 = r1 r2 = r2 m1 = m1 m2 = m2 u1 = u1 u2 = u2
    Auth = {a1, a2}
    Request = {r1}
    Model = {m1, u1}
    Route <- PoolRoute
    Streams = {}
    Pool <- Aliased
    Priority <- FirstPreferred
    Preparing = {a1}
    CoolingDisabled = {a2}
    Retries <- FirstRetries
    MaxRetryCredentials = 1
    MaxWait = 1
    Kinds = {"unauthorized", "payment", "quota", "transient", "unknown", "missing", "requestMissing", "unsupported", "invalid", "other"}
    RetryAfters <- WithRetryAfter
    UnauthorizedCool = 3
    MissingCool = 3
    TransientCool = 2
    QuotaBackoffBase = 1
    QuotaBackoffMax = 2
SPECIFICATION FairSpec
PROPERTIES RequestEnds
CHECK_DEADLOCK FALSE
