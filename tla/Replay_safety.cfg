SPECIFICATION Spec
CONSTANTS
    Requests = {r1, r2}
    dpop = dpop
    loose = loose
    hook = hook
    jti = jti
    digest = digest
    proofs = proofs
    webhooks = webhooks
    Sources = {dpop, loose, hook}
    Keys = {jti, digest}
    Age <- MCAge
    Ahead <- MCAhead
    Check <- MCCheck
    Submissions <- MCSubmissions
    NoCheck = NoCheck
    NoSubmission = NoSubmission
    NotRecorded = NotRecorded
    NoVerdict = NoVerdict
    MaxClock = 5
SYMMETRY Symmetry
INVARIANTS
    TypeOK
    OncePerWindow
    ReplayOnlyOfAnother
    EachCheckRecorded
