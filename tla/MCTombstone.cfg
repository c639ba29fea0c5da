SPECIFICATION FairSpec
CONSTANTS
    Services = {s1}
    Hosts = {h1, h2}
    Workers = {w1}
    Listener = Listener
    None = None
    UserIP = UserIP
    Ports = {p1}
    Types = {TRUE}
    Annotations = {"absent"}
    UserTunnels <- NoManifests
    AnnotatedOnly = FALSE
    UserOps = {"createService", "deleteTunnel"}
    MaxEdits = 2
    Faults = {"relist"}
    MaxFaults = 1
    MaxEvents = 3
    MaxPending = 1
PROPERTY RecordedHostReleased
CHECK_DEADLOCK FALSE
