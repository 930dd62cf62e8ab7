SPECIFICATION FairSpec
CONSTANTS
    Requests = {r1, r2, r3}
    NoOne = NoOne
    NoCall = NoCall
    lasting = lasting
    dated = dated
    foreign = foreign
    Tokens = {lasting}
    Claims <- MCClaims
    NoTime = NoTime
    NotATime = NotATime
    Routes <- MCRoutes
    own = own
    another = another
    Keys = {own}
    NoKey = NoKey
    NoChallenge = NoChallenge
    NoAnswer = NoAnswer
    Absent = Absent
    CacheTtl = 0
    CacheSize = 1
    Leeway = 1
    MaxClock = 0
    MaxCancels = 2
PROPERTIES
    EveryCallEnds
