---------------------------- MODULE PelotonStats ----------------------------
(***************************************************************************)
(* The two loops a backend runs on its own side of the bridge              *)
(* (src/src/postgres/backend/postmaster/peloton.cpp):                      *)
(*                                                                         *)
(*  - peloton_update_stats, which peloton_process_status runs after a     *)
(*    SUCCESS with dirty tables: a loop over the dirty tables with, for    *)
(*    each, a loop over its dirty indexes, calling SetNumberOfTuples once  *)
(*    per table and once per index.  The loops are steps on table_itr and  *)
(*    index_itr, the calls a sequence of <<oid, tuple count>> pairs, and   *)
(*    the result is compared with the order the statistics protocol        *)
(*    prescribes.                                                          *)
(*  - IsPelotonQuery, a foreach over a plan's relation oids that breaks   *)
(*    at the first Peloton relation, compared with its one-line meaning.   *)
(*                                                                         *)
(* The two routines share no state; their steps interleave freely.  A     *)
(* status's counts (m_dirty_count, dirty_index_count) are the lengths of  *)
(* its arrays, as Peloton fills them.                                      *)
(***************************************************************************)
EXTENDS Naturals, Sequences, SequencesExt

CONSTANTS
    Oids,                 \* table and index oids
    Counts,               \* tuple counts
    MaxTables,            \* dirty tables in a status (bound)
    MaxIndexes,           \* dirty indexes of a table (bound)
    RelOids,              \* relation oids a plan may depend on
    MaxRels,              \* relations a plan depends on (bound)
    FirstNormalObjectId   \* first oid not assigned at initdb

ASSUME PelotonStatsAssumption ==
    /\ MaxTables \in Nat /\ MaxIndexes \in Nat /\ MaxRels \in Nat
    /\ RelOids \subseteq Nat /\ FirstNormalObjectId \in Nat

DirtyIndex == [oid : Oids, ntuples : Counts]
DirtyTable == [oid : Oids, ntuples : Counts,
               indexes : BoundedSeq(DirtyIndex, MaxIndexes)]

\* The dirty-table part of a Peloton_Status.
DirtyLists == BoundedSeq(DirtyTable, MaxTables)

\* Relation-oid lists of a plan; <<>> is the NIL list.
RelLists == BoundedSeq(RelOids, MaxRels)

\* Mutant: the arguments of SetNumberOfTuples swapped.
CallSwapped(x) == <<x.ntuples, x.oid>>

\* One SetNumberOfTuples(oid, n) call.
Call(x) == <<x.oid, x.ntuples>>

VARIABLES
    status,         \* the status's dirty tables
    pc,             \* "start", "table", "index" or "done"
    tableItr,       \* table_itr
    indexItr,       \* index_itr
    calls,          \* SetNumberOfTuples calls made so far, in order
    postmasterEnv,  \* IsPostmasterEnvironment
    relationOids,   \* the relation oids a plan depends on
    qpc,            \* IsPelotonQuery: "qstart", "qloop" or "qdone"
    lc,             \* IsPelotonQuery: cells of the list already passed
    pelotonQuery    \* IsPelotonQuery: peloton_query

statsVars == <<status, pc, tableItr, indexItr, calls>>
queryVars == <<postmasterEnv, relationOids, qpc, lc, pelotonQuery>>
vars == <<statsVars, queryVars>>

Init ==
    /\ status \in DirtyLists
    /\ pc = "start" /\ tableItr = 0 /\ indexItr = 0 /\ calls = <<>>
    /\ postmasterEnv \in BOOLEAN /\ relationOids \in RelLists
    /\ qpc = "qstart" /\ lc = 0 /\ pelotonQuery = FALSE
-----------------------------------------------------------------------------
(***************************************************************************)
(* peloton_update_stats.                                                   *)
(***************************************************************************)

\* peloton_process_status on SUCCESS: update stats only if m_dirty_count.
Start ==
    /\ pc = "start"
    /\ pc' = IF status # <<>> THEN "table" ELSE "done"
    /\ UNCHANGED <<status, tableItr, indexItr, calls, queryVars>>

\* Outer loop body: SetNumberOfTuples for table table_itr, then enter the
\* index loop at index_itr = 0.
TableStep ==
    /\ pc = "table" /\ tableItr < Len(status)
    /\ calls' = Append(calls, Call(status[tableItr + 1]))
    /\ indexItr' = 0
    /\ pc' = "index"
    /\ UNCHANGED <<status, tableItr, queryVars>>

\* Mutant: the outer loop leaves one table early.
TableDoneEarly ==
    /\ pc = "table" /\ tableItr + 1 >= Len(status)
    /\ pc' = "done"
    /\ UNCHANGED <<status, tableItr, indexItr, calls, queryVars>>

\* Mutant: the exit test is off by one and never holds at the last table.
TableDoneLate ==
    /\ pc = "table" /\ tableItr > Len(status)
    /\ pc' = "done"
    /\ UNCHANGED <<status, tableItr, indexItr, calls, queryVars>>

\* Outer loop exit.
TableDone ==
    /\ pc = "table" /\ tableItr >= Len(status)
    /\ pc' = "done"
    /\ UNCHANGED <<status, tableItr, indexItr, calls, queryVars>>

\* Inner loop body: SetNumberOfTuples for index index_itr of the table.
IndexStep ==
    /\ pc = "index" /\ indexItr < Len(status[tableItr + 1].indexes)
    /\ calls' = Append(calls, Call(status[tableItr + 1].indexes[indexItr + 1]))
    /\ indexItr' = indexItr + 1
    /\ UNCHANGED <<status, pc, tableItr, queryVars>>

\* Mutant: the inner loop stops one index early.
IndexDoneEarly ==
    /\ pc = "index" /\ indexItr + 1 >= Len(status[tableItr + 1].indexes)
    /\ tableItr' = tableItr + 1
    /\ pc' = "table"
    /\ UNCHANGED <<status, indexItr, calls, queryVars>>

\* Inner loop exit; table_itr++ and back to the outer test.
IndexDone ==
    /\ pc = "index" /\ indexItr >= Len(status[tableItr + 1].indexes)
    /\ tableItr' = tableItr + 1
    /\ pc' = "table"
    /\ UNCHANGED <<status, indexItr, calls, queryVars>>

UpdateStats == Start \/ TableStep \/ TableDone \/ IndexStep \/ IndexDone
-----------------------------------------------------------------------------
(***************************************************************************)
(* IsPelotonQuery.                                                         *)
(***************************************************************************)

\* Mutant: the fast check uses > instead of >=.
IsPelotonRelStrict(oid) == oid > FirstNormalObjectId

\* The fast check that a relation is a Peloton relation.
IsPelotonRel(oid) == oid >= FirstNormalObjectId

\* Not in a postmaster environment, or a NIL list: return false.
\* Otherwise enter the foreach.
QueryStart ==
    /\ qpc = "qstart"
    /\ qpc' = IF postmasterEnv /\ relationOids # <<>> THEN "qloop" ELSE "qdone"
    /\ UNCHANGED <<postmasterEnv, relationOids, lc, pelotonQuery, statsVars>>

\* A Peloton relation: peloton_query = true; break.
QueryHit ==
    /\ qpc = "qloop" /\ lc < Len(relationOids)
    /\ IsPelotonRel(relationOids[lc + 1])
    /\ pelotonQuery' = TRUE
    /\ qpc' = "qdone"
    /\ UNCHANGED <<postmasterEnv, relationOids, lc, statsVars>>

\* Any other relation: next cell.
QueryMiss ==
    /\ qpc = "qloop" /\ lc < Len(relationOids)
    /\ ~IsPelotonRel(relationOids[lc + 1])
    /\ lc' = lc + 1
    /\ UNCHANGED <<postmasterEnv, relationOids, qpc, pelotonQuery, statsVars>>

\* End of the list: return peloton_query.
QueryEnd ==
    /\ qpc = "qloop" /\ lc >= Len(relationOids)
    /\ qpc' = "qdone"
    /\ UNCHANGED <<postmasterEnv, relationOids, lc, pelotonQuery, statsVars>>

QueryLoop == QueryStart \/ QueryHit \/ QueryMiss \/ QueryEnd
-----------------------------------------------------------------------------
Next == UpdateStats \/ QueryLoop

\* Each routine runs on the backend to its end.
Spec == Init /\ [][Next]_vars /\ WF_vars(UpdateStats) /\ WF_vars(QueryLoop)
-----------------------------------------------------------------------------
TypeOK ==
    /\ status \in DirtyLists
    /\ pc \in {"start", "table", "index", "done"}
    /\ tableItr \in 0..MaxTables /\ indexItr \in 0..MaxIndexes
    /\ calls \in Seq(Oids \X Counts)
    /\ postmasterEnv \in BOOLEAN /\ relationOids \in RelLists
    /\ qpc \in {"qstart", "qloop", "qdone"}
    /\ lc \in 0..MaxRels /\ pelotonQuery \in BOOLEAN

(***************************************************************************)
(* The order the statistics protocol prescribes.  A call has a slot       *)
(* <<i, j>>: j = 0 is table i, j > 0 its index j.  Slots are ordered      *)
(* table by table and, within a table, the table before its indexes; the  *)
(* position of a slot is one more than the number of slots before it.     *)
(***************************************************************************)
Slots(st) ==
    {s \in (1..Len(st)) \X (0..MaxIndexes) : s[2] <= Len(st[s[1]].indexes)}

SlotBefore(a, b) == a[1] < b[1] \/ (a[1] = b[1] /\ a[2] < b[2])

SlotsBefore(st, b) == {s \in Slots(st) : SlotBefore(s, b)}

SlotPos(st, s) == Cardinality(SlotsBefore(st, s)) + 1

CallAt(st, s) ==
    IF s[2] = 0 THEN Call(st[s[1]]) ELSE Call(st[s[1]].indexes[s[2]])

\* The calls prescribed for dirty tables st: one per dirty table and one
\* per dirty index, each table before its own indexes, in list order.
Expected(st) ==
    [p \in 1..Cardinality(Slots(st)) |->
        CallAt(st, CHOOSE s \in Slots(st) : SlotPos(st, s) = p)]

\* peloton_update_stats only ever makes a prefix of the prescribed calls,
\* and when it returns it has made all of them (the statistics scenario:
\* 2 tables with one index each give 4 calls, tables before their own
\* indexes).
StatsInOrder ==
    /\ IsPrefix(calls, Expected(status))
    /\ pc = "done" => calls = Expected(status)

\* peloton_update_stats returns: both loops terminate.
StatsTerminate == <>(pc = "done")

\* When IsPelotonQuery returns, its answer is TRUE exactly when the backend
\* runs under the postmaster and the plan depends on a relation created
\* after initdb.
IsPelotonQueryCorrect ==
    qpc = "qdone" =>
        (pelotonQuery <=>
            /\ postmasterEnv
            /\ \E i \in 1..Len(relationOids) : relationOids[i] >= FirstNormalObjectId)
=============================================================================
