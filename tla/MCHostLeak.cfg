SPECIFICATION FairSpec
CONSTANTS
    Services = {s1}
    Hosts = {h1, h2}
    Workers = {w1}
    Listener = Listener
    None = None
    UserIP = UserIP
    Ports = {p1}
    Types = {TRUE}
    Annotations = {"absent"}
    UserTunnels <- NoManifests
    AnnotatedOnly = FALSE
    UserOps = {"createService", "deleteService"}
    MaxEdits = 2
    Faults = {}
    MaxFaults = 0
    MaxEvents = 2
    MaxPending = 1
PROPERTY HostsReleased
CHECK_DEADLOCK FALSE
