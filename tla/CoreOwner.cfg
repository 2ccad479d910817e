SPECIFICATION FairSpec
CONSTANTS
    NoProc = NoProc
    NoDigest = NoDigest
    NoSlot = NoSlot
    p1 = p1
    p2 = p2
    s1 = s1
    s2 = s2
    s3 = s3
    r1 = r1
    r2 = r2
    Procs = {p1}
    Slots = {s1}
    ProcOf <- OneSlotProc
    Roots = {r1}
    RootOf <- OneProcRoot
    Digests = {d1, d2}
    Tokens = {t1, t2}
    Keys = {k1, k2}
    NJobs = 1
    NoGit = {}
    MaxClaims = 9
    MaxFaults = 2
INVARIANT ApprovalBinds
PROPERTY JobsSettle
