SPECIFICATION FairSpec
CONSTANTS
    NoWorker = NoWorker
    w1 = w1
    k1 = k1
    k2 = k2
    r1 = r1
    r2 = r2
    key1 = key1
    key2 = key2
    Worlds = {w1}
    MaxAttempts <- OneWorld
    Workers = {k1}
    Roots = {r1}
    RootOf <- OneRoot
    Keys = {key1}
    NChecks = 1
    JobLanes = {k1}
    MaxFaults = 0
PROPERTY AdmissionResumes
