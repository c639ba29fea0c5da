SPECIFICATION Spec
CONSTANTS
    Services = {s1}
    Hosts = {h1, h2}
    Workers = {w1}
    Listener = Listener
    None = None
    UserIP = UserIP
    Ports = {p1, p2}
    Types = {TRUE}
    Annotations = {"absent"}
    UserTunnels <- NoManifests
    AnnotatedOnly = FALSE
    UserOps = {"createService", "deleteService"}
    MaxEdits = 3
    Faults = {}
    MaxFaults = 0
    MaxEvents = 3
    MaxPending = 1
SYMMETRY PortSymmetry
INVARIANTS NoTunnelOnDeletedHost AddressesPublishedOnce
PROPERTY ClientNeverChangesHands
CHECK_DEADLOCK FALSE
