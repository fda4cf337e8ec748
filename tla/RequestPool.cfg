CONSTANTS
    a1 = a1 a2 = a2 r1 = r1 r2 = r2 m1 = m1 m2 = m2 u1 = u1 u2 = u2
    Auth = {a1, a2}
    Request = {r1, r2}
    Model = {m1, u1, u2}
    Route <- PoolRoute
    Streams = {r2}
    Pool <- PoolOfTwo
    Priority <- Equal
    Preparing = {a1}
    CoolingDisabled = {}
    Retries <- FirstRetriesOnce
    MaxRetryCredentials = 0
    MaxWait = 1
    Kinds = {"quota", "unknown"}
    RetryAfters <- NoneOnly
    UnauthorizedCool = 3
    MissingCool = 3
    TransientCool = 2
    QuotaBackoffBase = 1
    QuotaBackoffMax = 2
SPECIFICATION Spec
INVARIANTS TypeOK AggregateAgrees WorkIsBounded
PROPERTIES OnlyItsResultsBlockAModel FaultIsFinal
CHECK_DEADLOCK FALSE
