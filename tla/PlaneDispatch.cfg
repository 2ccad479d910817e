SPECIFICATION Spec
CONSTANTS
    NoDigest = NoDigest
    NoContext = NoContext
    NoToken = NoToken
    w1 = w1
    w2 = w2
    Workers = {w1, w2}
    OpsOf <- TwoDispatchers
    Digests = {e1}
    Contexts = {c1, c2}
    Tokens = {t1}
    MaxRevision = 3
    MaxCancels = 1
    MaxFaults = 1
INVARIANT TypeOK
INVARIANT LocalCancelWins
INVARIANT OneRequest
