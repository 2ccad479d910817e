SPECIFICATION Spec
CONSTANTS
    NoDigest = NoDigest
    NoContext = NoContext
    NoToken = NoToken
    w1 = w1
    w2 = w2
    Workers = {w1, w2}
    OpsOf <- PollAndDecide
    Digests = {e1}
    Contexts = {c1}
    Tokens = {t1, t2}
    MaxRevision = 9
    MaxCancels = 0
    MaxFaults = 1
SYMMETRY SwapTokens
INVARIANT IntentBeforeDecision
INVARIANT MirrorFaithful
INVARIANT MirrorFollows
