\* A death inside std::fs::write leaves a key file that never deserializes.
CONSTANTS
    k1 = k1
    k2 = k2
    k3 = k3
    k4 = k4
    k5 = k5
    Keys <- MCKeys
    NoKey = NoKey
    RunAsRoot = TRUE
    MaxRestarts = 3
    TornWrites = TRUE
    IoErrors = FALSE
    MaxFaults = 0
SPECIFICATION Spec
PROPERTY ExitComesUp
