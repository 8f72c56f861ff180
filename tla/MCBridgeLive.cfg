\* Crashes, port changes, and connection failures; every DNS lookup succeeds.
CONSTANTS
    e1 = e1
    e2 = e2
    Exits <- MCExits
    Ports <- MCPorts
    MaxCrashes = 2
    MaxPortChanges = 2
    MaxConnFails = 2
    ResolveFails = FALSE
    IpFails = FALSE
SPECIFICATION Spec
PROPERTY RouteConverges
