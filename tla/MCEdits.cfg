SPECIFICATION Spec
CONSTANTS
    Services = {s1}
    Hosts = {h1, h2}
    Workers = {w1, w2}
    Listener = Listener
    None = None
    UserIP = UserIP
    Ports = {p1}
    Types = {TRUE}
    Annotations = {"absent", "no"}
    UserTunnels <- NoManifests
    AnnotatedOnly = FALSE
    UserOps = {"createService", "deleteService", "deleteTunnel", "addIP", "annotate"}
    MaxEdits = 2
    Faults = {}
    MaxFaults = 0
    MaxEvents = 2
    MaxPending = 1
SYMMETRY WorkerSymmetry
INVARIANT TypeOK
PROPERTIES UserAddressKept StatusNeverRegresses RecordedHostTracked
CHECK_DEADLOCK FALSE
