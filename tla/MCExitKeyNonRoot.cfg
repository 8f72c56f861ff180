\* The exit runs as an ordinary user.
CONSTANTS
    k1 = k1
    k2 = k2
    k3 = k3
    k4 = k4
    k5 = k5
    Keys <- MCKeys
    NoKey = NoKey
    RunAsRoot = FALSE
    MaxRestarts = 3
    TornWrites = FALSE
    IoErrors = FALSE
    MaxFaults = 0
SPECIFICATION Spec
INVARIANT StableIdentity
