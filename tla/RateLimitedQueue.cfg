SPECIFICATION Spec
CONSTANTS
    Keys = {k1, k2}
    Workers = {w1, w2, w3}
    NoKey = NoKey
    ChanCap = 2
INVARIANTS TypeOK QueueIsDirtyAndIdle NoLostWakeUp
PROPERTIES WorkersExit NothingLost ImplementsWorkQueue
