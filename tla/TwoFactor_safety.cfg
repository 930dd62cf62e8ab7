SPECIFICATION Spec
CONSTANTS
    Browsers = {b1, b2}
    Secrets = {s1, s2}
    NoSecret = NoSecret
    Hotp <- MCHotp
    Recovery = {backup}
    Wrong = 0
    Never = Never
    Window = 1
    MaxFailures = 2
    Lockout = 2
    PendingTtl = 1
    FreshAge = 1
    MaxClock = 3
    MaxSignIns = 3
SYMMETRY Symmetry
INVARIANTS
    TypeOK
    GuessesAreSpaced
PROPERTIES
    CodesAcceptedOnce
    DisabledOnlyByProof
