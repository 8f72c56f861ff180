\* A DNS lookup of an exit may fail once its manager is spawned.
CONSTANTS
    e1 = e1
    e2 = e2
    Exits <- MCExits
    Ports <- MCPorts
    MaxCrashes = 1
    MaxPortChanges = 1
    MaxConnFails = 1
    ResolveFails = TRUE
    IpFails = TRUE
SPECIFICATION Spec
PROPERTY RouteConverges
