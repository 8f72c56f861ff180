\* Safety of the session table, the reap channel and the replay filter.
CONSTANTS
    a1 = a1
    a2 = a2
    t1 = t1
    t2 = t2
    Addrs <- MCAddrs
    Tokens <- MCTokens
    Shards = {0}
    HelloVersions = {0, 3}
    Forged = Forged
    NoToken = NoToken
    NoAddr = NoAddr
    MaxSends = 3
    Burst = 1
    InputCap = 1
    OutputCap = 1
    FilterRotates = FALSE
    RecvErrors = TRUE
    EnvKinds = {"Hello", "Resume", "Data", "Other", "Empty"}
SPECIFICATION Spec
INVARIANT TypeOK
INVARIANT LiveSessionInTable
 
CHECK_DEADLOCK FALSE
SYMMETRY Symmetry
