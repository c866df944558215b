--------------------------- MODULE MC_PelotonStats ---------------------------
(* Model-checking instance of PelotonStats: the constants are set in the   *)
(* cfg.                                                                    *)
EXTENDS PelotonStats

\* The prescribed calls, built the direct way: the table's call followed by
\* its indexes' calls, table after table.
ExpectedByConcat(st) ==
    FlattenSeq([i \in 1..Len(st) |->
                  <<Call(st[i])>> \o [j \in 1..Len(st[i].indexes) |->
                                        Call(st[i].indexes[j])]])

\* The slot-position form of the prescribed order that StatsInOrder uses
\* is the concatenation, for every status of the instance.
ASSUME ExpectedIsConcat == \A st \in DirtyLists : Expected(st) = ExpectedByConcat(st)
=============================================================================
