SPECIFICATION Spec
CONSTANTS
    NoProc = NoProc
    NoDigest = NoDigest
    NoSlot = NoSlot
    p1 = p1
    p2 = p2
    s1 = s1
    s2 = s2
    s3 = s3
    r1 = r1
    r2 = r2
    Procs = {p1, p2}
    Slots = {s1, s2}
    ProcOf <- TwoProcSlots
    Roots = {r1, r2}
    RootOf <- TwoProcRoots
    Digests = {d1}
    Tokens = {t1}
    Keys = {k1}
    NJobs = 1
    NoGit = {}
    MaxClaims = 9
    MaxFaults = 2
SYMMETRY SwapProcs
INVARIANT TypeOK
INVARIANT CancelHonoured
INVARIANT EvidenceBacked
PROPERTY FencedProgress
PROPERTY ImplementsContract
