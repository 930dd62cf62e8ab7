SPECIFICATION Spec
CONSTANTS
    cookie = cookie
    bearer = bearer
    high = high
    low = low
    read = read
    Lineages = {cookie, bearer}
    Dates = {cookie}
    Levels = {cookie}
    Scoped = {bearer}
    Catalogue <- MCCatalogue
    NoCatalogue = NoCatalogue
    Credentials <- MCCredentials
    NoCredential = NoCredential
    Windows <- MCWindows
    NoWindow = NoWindow
    Assurances <- MCAssurances
    NoAssurance = NoAssurance
    Orders <- MCOrders
    ScopeSets <- MCScopeSets
    NoGuard = NoGuard
    NoInstant = NoInstant
    NoChallenge = NoChallenge
    Second = 2
    MaxBuilds = 3
    MaxClock = 4
INVARIANTS
    TypeOK
    AnonymousOnlyIfAsked
PROPERTIES
    GuardHolds
    WiringNotByCredential
    ObeyingTheChallengeSuffices
    CombinationKnowsItsRequest
    ReportAgrees
