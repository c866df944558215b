\* Two dirty tables with up to one dirty index each (the protocol's
\* statistics scenario), and plans on up to two relations on both sides
\* of FirstNormalObjectId.
CONSTANTS
    Oids = {o1, o2}
    Counts = {0, 1}
    MaxTables = 2
    MaxIndexes = 1
    RelOids = {16383, 16384, 16385}
    MaxRels = 2
    FirstNormalObjectId = 16384
SPECIFICATION Spec
INVARIANTS TypeOK StatsInOrder IsPelotonQueryCorrect
PROPERTY StatsTerminate
\* Both routines return to their caller: the loops stop at "done" and "qdone".
CHECK_DEADLOCK FALSE
