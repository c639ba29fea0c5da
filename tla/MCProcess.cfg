SPECIFICATION Spec
CONSTANTS
    Configurations <- CommandLines
    Workers = {w1, w2}
    MaxFaults = 2
INVARIANTS TypeOK WorkersReadFedCaches OrdersLackTheUnchecked
PROPERTIES StopEndsProcess KeepsServing
