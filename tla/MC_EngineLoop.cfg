\* Three datagrams against a two-slot socket buffer, so both drops and
\* back-to-back receives happen; signals arrive at every point of the loop.
CONSTANTS
    MaxMsgs = 3
    SockCap = 2
SPECIFICATION Spec
\* The loop stops for good only by proc_exit.
CHECK_DEADLOCK FALSE
INVARIANTS TypeOK NoLostWakeup
PROPERTIES ExitHonoured DeathNoticed HupServiced DatagramsDrained
