\* The exit runs as root, restarting at any point of start-up,
\* with failed reads, writes and binder requests.
CONSTANTS
    k1 = k1
    k2 = k2
    k3 = k3
    k4 = k4
    k5 = k5
    Keys <- MCKeys
    NoKey = NoKey
    RunAsRoot = TRUE
    MaxRestarts = 2
    TornWrites = TRUE
    IoErrors = TRUE
    MaxFaults = 2
SPECIFICATION Spec
INVARIANT IdentityLostOnlyByFaults
