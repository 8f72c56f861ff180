\* Crashes, port changes, connection and DNS failures.
CONSTANTS
    e1 = e1
    e2 = e2
    Exits <- MCExits
    Ports <- MCPorts
    MaxCrashes = 2
    MaxPortChanges = 2
    MaxConnFails = 2
    ResolveFails = TRUE
    IpFails = TRUE
SPECIFICATION Spec
INVARIANT RulesMatchRoutes
