\* A decryptable handshake buffer with an empty frame list.
CONSTANTS
    a1 = a1
    a2 = a2
    t1 = t1
    t2 = t2
    Addrs <- MCAddrs
    Tokens <- MCTokens
    Shards = {0}
    HelloVersions = {0, 3}
    Forged = Forged
    NoToken = NoToken
    NoAddr = NoAddr
    MaxSends = 2
    Burst = 1
    InputCap = 1
    OutputCap = 1
    FilterRotates = FALSE
    RecvErrors = FALSE
    EnvKinds = {"Hello", "Empty"}
SPECIFICATION Spec
INVARIANT ListenerRunning
CHECK_DEADLOCK FALSE
