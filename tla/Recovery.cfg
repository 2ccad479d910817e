CONSTANTS
    Deciders = {d1, d2}
    Requests <- MCRequests
    Outcomes <- MCOutcomes
    NoOne = NoOne
    MaxFingerprint = 2
    Limit <- MCLimit
    MaxHistory = 4
SPECIFICATION Spec
CHECK_DEADLOCK FALSE
SYMMETRY Symmetry
INVARIANT TypeOK
INVARIANT AuthorityHeld
INVARIANT RaceBounded
PROPERTY NoProgressStops
