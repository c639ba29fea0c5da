SPECIFICATION Spec
CONSTANTS
    Services = {s1}
    Hosts = {h1, h2}
    Workers = {w1, w2}
    Listener = Listener
    None = None
    UserIP = UserIP
    Ports = {p1}
    Types = {TRUE, FALSE}
    Annotations = {"absent"}
    UserTunnels <- TunnelManifests
    AnnotatedOnly = FALSE
    UserOps = {"createService", "createTunnel", "retype", "deleteDeployment", "rotateLicense"}
    MaxEdits = 2
    Faults = {"api", "lostReply", "cloud", "crash", "stop", "relist"}
    MaxFaults = 2
    MaxEvents = 3
    MaxPending = 2
SYMMETRY WorkerSymmetry
INVARIANTS AddressesPublishedOnce UserTunnelSetsNoAddress
PROPERTIES StatusNeverRegresses ImplementsLifecycle
CHECK_DEADLOCK FALSE
