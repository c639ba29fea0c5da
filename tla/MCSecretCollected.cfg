SPECIFICATION FairSpec
CONSTANTS
    Services = {s1}
    Hosts = {h1, h2}
    Workers = {w1}
    Listener = Listener
    None = None
    UserIP = UserIP
    Ports = {p1}
    Types = {TRUE}
    Annotations = {"absent", "no"}
    UserTunnels <- NoManifests
    AnnotatedOnly = FALSE
    UserOps = {"createService", "annotate"}
    MaxEdits = 3
    Faults = {}
    MaxFaults = 0
    MaxEvents = 3
    MaxPending = 1
PROPERTY EventuallyConnected
CHECK_DEADLOCK FALSE
