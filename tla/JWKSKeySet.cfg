SPECIFICATION FairSpec
CONSTANTS
    r1 = r1
    r2 = r2
    k1 = k1
    k2 = k2
    Requests <- Callers
    Nobody = Nobody
    Kids <- Published
    NoKid = NoKid
    Malformed = Malformed
    NoAnswer = NoAnswer
    Failure = Failure
    CacheTtl = 1
    RefreshCooldown = 1
    MaxClock = 2
INVARIANTS
    TypeOK
    OneFetchAtATime
    FetchInv
PROPERTIES
    FetchesAreSpaced
    OnceLoadedNeverUnavailable
    UnavailableOnlyAfterAttempt
    UnknownKeyWasSought
    StaleKeysOnlyAsFallback
    EveryCallEnds
