\* One request with a NULL payload, handled alone.
CONSTANTS
    b1 = b1  b2 = b2  s1 = s1  s2 = s2  s3 = s3  w1 = w1  w2 = w2  None = None
    Backends <- MCOneBackend
    Slots <- MCSlots
    Workers <- MCOneWorker
    MaxReq = 1
    ChanCap = 2
    NullPayloads = TRUE
    CollabMayFail = FALSE
    MqMayFail = FALSE
    InitMayFail = FALSE
SPECIFICATION Spec
\* Backends stop after MaxReq requests; a backend whose reply never comes
\* blocks for ever, which the code allows.
CHECK_DEADLOCK FALSE
PROPERTY ResultStable
