\* Every input enabled: NULL payloads, throwing collaborators, failing
\* open_mq, failing peloton_init.
CONSTANTS
    b1 = b1  b2 = b2  s1 = s1  s2 = s2  s3 = s3  w1 = w1  w2 = w2  None = None
    Backends <- MCBackends
    Slots <- MCSlots
    Workers <- MCWorkers
    MaxReq = 1
    ChanCap = 2
    NullPayloads = TRUE
    CollabMayFail = TRUE
    MqMayFail = TRUE
    InitMayFail = TRUE
INIT Init
NEXT Next
\* Backends issue MaxReq requests and then stop; a backend whose reply was
\* lost, or whose Peloton process died, waits forever: the system stops.
CHECK_DEADLOCK FALSE
INVARIANTS TypeOK RegistryUnique
PROPERTY RegistryRefinement
