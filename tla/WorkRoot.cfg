SPECIFICATION FairSpec
CONSTANTS
    Cores = {c1}
    Jobs = {j1, j2}
    Attempts = {a1}
    Probes = {t1}
    Nobody = Nobody
    MaxEntries = 2
    MaxCalls = 3
    MaxFaults = 2
INVARIANT TypeOK
INVARIANT MarkersDecidable
INVARIANT JournalTrue
INVARIANT RunsAlone
INVARIANT ProbeContained
PROPERTY RunEnds
CHECK_DEADLOCK FALSE
