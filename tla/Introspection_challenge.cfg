SPECIFICATION Spec
CONSTANTS
    Requests = {r1, r2}
    NoOne = NoOne
    NoCall = NoCall
    lasting = lasting
    dated = dated
    foreign = foreign
    Tokens = {lasting, foreign}
    Claims <- MCClaims
    NoTime = NoTime
    NotATime = NotATime
    Routes <- MCRoutes
    own = own
    another = another
    Keys = {own}
    NoKey = NoKey
    NoChallenge = NoChallenge
    NoAnswer = NoAnswer
    Absent = Absent
    CacheTtl = 2
    CacheSize = 1
    Leeway = 1
    MaxClock = 3
    MaxCancels = 1
SYMMETRY Symmetry
PROPERTIES
    ChallengeIsTheSources
