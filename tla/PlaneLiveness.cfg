SPECIFICATION FairSpec
CONSTANTS
    NoDigest = NoDigest
    NoContext = NoContext
    NoToken = NoToken
    w1 = w1
    w2 = w2
    Workers = {w1, w2}
    OpsOf <- PollOnly
    Digests = {e1}
    Contexts = {c1}
    Tokens = {t1}
    MaxRevision = 7
    MaxCancels = 0
    MaxFaults = 0
PROPERTY MirrorConverges
