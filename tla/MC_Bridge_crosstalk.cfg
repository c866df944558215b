\* Two backends with two requests each, two workers, well-formed requests
\* and no faults: the only way to write a status nobody waits on is the
\* shared receive buffer.
CONSTANTS
    b1 = b1  b2 = b2  s1 = s1  s2 = s2  s3 = s3  w1 = w1  w2 = w2  None = None
    Backends <- MCBackends
    Slots <- MCSlots
    Workers <- MCWorkers
    MaxReq = 2
    ChanCap = 2
    NullPayloads = FALSE
    CollabMayFail = FALSE
    MqMayFail = FALSE
    InitMayFail = FALSE
SPECIFICATION Spec
\* Backends stop after MaxReq requests; the system stops with them.
CHECK_DEADLOCK FALSE
PROPERTY WritesReachWaiter
