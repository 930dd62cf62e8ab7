SPECIFICATION Spec
CONSTANTS
    Browsers = {b1, b2}
    Users = {u1, u2}
    Requests = {r1, r2}
    Flows = {f1, f2}
    NoBrowser = NoBrowser
    NoFlow = NoFlow
    NoCall = NoCall
    NoState = NoState
    NoCode = NoCode
    MadeUp = MadeUp
    Absent = Absent
    Pending = Pending
    Hosts = {partner, stranger}
    Home = Home
    Elsewhere = Elsewhere
    AllowedHosts = {partner}
    FlowMaxAge = 0
    DiscoveryTtl = 1
    MaxClock = 1
    MaxLogins = 2
SYMMETRY Symmetry
INVARIANTS
    TypeOK
    LandsInside
PROPERTIES
    SpentForOwnLogin
    RefusedForCause
    SignsInAsPromised
