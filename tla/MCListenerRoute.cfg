\* The reap of one session purges an address another session was rebound to.
CONSTANTS
    a1 = a1
    a2 = a2
    t1 = t1
    t2 = t2
    Addrs <- MCAddrs
    Tokens <- MCTokens
    Shards = {0}
    HelloVersions = {3}
    Forged = Forged
    NoToken = NoToken
    NoAddr = NoAddr
    MaxSends = 5
    Burst = 1
    InputCap = 1
    OutputCap = 1
    FilterRotates = FALSE
    RecvErrors = FALSE
    EnvKinds = {"Hello", "Resume"}
SPECIFICATION Spec
INVARIANT RouteStable
SYMMETRY Symmetry
CHECK_DEADLOCK FALSE
