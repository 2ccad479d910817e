SPECIFICATION Spec
CONSTANTS
    NoProc = NoProc
    NoDigest = NoDigest
    NoSlot = NoSlot
    p1 = p1
    p2 = p2
    s1 = s1
    s2 = s2
    s3 = s3
    r1 = r1
    r2 = r2
    Procs = {p1, p2}
    Slots = {s1, s2, s3}
    ProcOf <- ThreeSlots
    Roots = {r1}
    RootOf <- SharedRoot
    Digests = {d1}
    Tokens = {}
    Keys = {}
    NJobs = 2
    NoGit = {1}
    MaxClaims = 3
    MaxFaults = 1
INVARIANT SingleWriter
INVARIANT ExclusiveExecution
