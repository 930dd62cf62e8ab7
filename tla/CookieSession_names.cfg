SPECIFICATION Spec
CONSTANTS
    alice = alice
    bob = bob
    weak = weak
    strong = strong
    none = none
    old = old
    new = new
    r1 = r1
    r2 = r2
    Requests = {r1}
    Names <- MCNamesInOne
    Session <- session
    Values <- MCValues
    Levels = {weak, strong, none}
    Logins <- MCLoginsInOne
    Strong = strong
    NoLevel = none
    SessionIds = {s1, s2}
    Nothing = Nothing
    KeyOrder <- MCKeyOrder
    Earlier <- MCEarlier
    Calls <- MCOneCall
    Own <- MCOwn
    Typed <- MCTyped
    Trusted <- MCTrusted
    Ttl = 1
    MaxAge = 1
    MaxCookies = 2
    MaxClock = 2
SYMMETRY Symmetry
INVARIANTS
    BoundToItsName
