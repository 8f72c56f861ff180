\* Reaping of dropped sessions under a fair listener task, and the session
\* lifecycle the listener implements.
CONSTANTS
    a1 = a1
    a2 = a2
    t1 = t1
    t2 = t2
    Addrs <- MCAddrs
    Tokens <- MCTokens
    Shards = {0, 1}
    HelloVersions = {0, 3}
    Forged = Forged
    NoToken = NoToken
    NoAddr = NoAddr
    MaxSends = 3
    Burst = 1
    InputCap = 1
    OutputCap = 1
    FilterRotates = TRUE
    RecvErrors = FALSE
    EnvKinds = {"Hello", "Resume", "Data", "Other"}
SPECIFICATION Spec
PROPERTY ReapEventually
PROPERTY SessionRefinement
INVARIANT ReplayOnlyWhenForgotten
CHECK_DEADLOCK FALSE
