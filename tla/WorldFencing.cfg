SPECIFICATION FairSpec
CONSTANTS
    NoWorker = NoWorker
    w1 = w1
    k1 = k1
    k2 = k2
    r1 = r1
    r2 = r2
    key1 = key1
    key2 = key2
    Worlds = {w1}
    MaxAttempts <- OneWorld
    Workers = {k1, k2}
    Roots = {r1, r2}
    RootOf <- OwnRoots
    Keys = {key1, key2}
    NChecks = 2
    JobLanes = {k1}
    MaxFaults = 1
INVARIANT TypeOK
INVARIANT WorldAgrees
PROPERTY ResultFenced
PROPERTY ClosedFrozen
INVARIANT LanesExclude
INVARIANT PatchLineage
PROPERTY AttemptSettles
