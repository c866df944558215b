\* Two backends, well-formed requests, no faults: only the shared receive buffer.
CONSTANTS
    b1 = b1  b2 = b2  s1 = s1  s2 = s2  s3 = s3  w1 = w1  w2 = w2  None = None
    Backends <- MCBackends
    Slots <- MCSlots
    Workers <- MCWorkers
    MaxReq = 1
    ChanCap = 2
    NullPayloads = FALSE
    CollabMayFail = FALSE
    MqMayFail = FALSE
    InitMayFail = FALSE
SPECIFICATION Spec
\* Backends stop after MaxReq requests; a backend whose reply never comes
\* blocks for ever, which the code allows.
CHECK_DEADLOCK FALSE
INVARIANT AtMostOnceExecution
