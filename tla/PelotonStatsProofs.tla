------------------------- MODULE PelotonStatsProofs -------------------------
(***************************************************************************)
(* Proofs about PelotonStats for every bound on the dirty lists and the   *)
(* relation lists.                                                         *)
(*                                                                         *)
(* peloton_update_stats: the loop state determines the next slot to be    *)
(* called (NextSlot); the calls made are exactly the slots before it, at  *)
(* their positions.  The slot lemmas -- positions are injective, a step   *)
(* adds exactly one slot, leaving a table's index loop skips no slot --   *)
(* carry the induction; at the exit every slot is before NextSlot.        *)
(*                                                                         *)
(* IsPelotonQuery: inside the foreach, every cell passed is not a Peloton *)
(* relation and peloton_query is still false.                             *)
(***************************************************************************)
EXTENDS PelotonStats, SequenceTheorems, FiniteSetTheorems, TLAPS

USE PelotonStatsAssumption

\* An element of BoundedSeq(S, n) is a sequence over S of length at most n.
LEMMA BoundedSeqFacts ==
    ASSUME NEW S, NEW n \in Nat, NEW x \in BoundedSeq(S, n)
    PROVE  x \in Seq(S) /\ Len(x) <= n
<1>1. PICK m \in 0..n : x \in [1..m -> S]
  BY DEF BoundedSeq, SeqOf
<1>2. x \in Seq(S)
  BY <1>1, SeqDef
<1>3. Len(x) = m
  BY <1>1, <1>2, LenProperties
<1>4. QED
  BY <1>2, <1>3

\* What the proofs need to know of a dirty list.
LEMMA DirtyListFacts ==
    ASSUME NEW st \in DirtyLists
    PROVE  /\ st \in Seq(DirtyTable) /\ Len(st) \in 0..MaxTables
           /\ \A i \in 1..Len(st) :
                 /\ st[i] \in DirtyTable
                 /\ st[i].indexes \in Seq(DirtyIndex)
                 /\ Len(st[i].indexes) \in 0..MaxIndexes
<1>1. st \in Seq(DirtyTable) /\ Len(st) <= MaxTables
  BY BoundedSeqFacts DEF DirtyLists
<1>2. Len(st) \in Nat
  BY <1>1, LenProperties
<1>3. ASSUME NEW i \in 1..Len(st)
      PROVE  /\ st[i] \in DirtyTable
             /\ st[i].indexes \in Seq(DirtyIndex)
             /\ Len(st[i].indexes) \in 0..MaxIndexes
  <2>1. st[i] \in DirtyTable
    BY <1>1, ElementOfSeq
  <2>2. st[i].indexes \in BoundedSeq(DirtyIndex, MaxIndexes)
    BY <2>1 DEF DirtyTable
  <2>3. st[i].indexes \in Seq(DirtyIndex) /\ Len(st[i].indexes) <= MaxIndexes
    BY <2>2, BoundedSeqFacts
  <2>4. Len(st[i].indexes) \in Nat
    BY <2>3, LenProperties
  <2>5. QED
    BY <2>1, <2>3, <2>4
<1>4. QED
  BY <1>1, <1>2, <1>3

-----------------------------------------------------------------------------
(***************************************************************************)
(* Slots and their positions.                                              *)
(***************************************************************************)

\* What a slot is: a table of the list and 0 or one of its indexes.
LEMMA SlotFacts ==
    ASSUME NEW st \in DirtyLists
    PROVE  /\ IsFiniteSet(Slots(st))
           /\ \A s \in Slots(st) :
                 /\ s = <<s[1], s[2]>>
                 /\ s[1] \in 1..Len(st)
                 /\ s[2] \in 0..Len(st[s[1]].indexes)
           /\ \A i \in 1..Len(st) : \A j \in 0..Len(st[i].indexes) :
                 <<i, j>> \in Slots(st)
<1>1. IsFiniteSet((1..Len(st)) \X (0..MaxIndexes))
  <2>1. Len(st) \in Nat
    BY DirtyListFacts
  <2>2. IsFiniteSet(1..Len(st)) /\ IsFiniteSet(0..MaxIndexes)
    BY <2>1, FS_Interval
  <2>3. QED
    BY <2>2, FS_Product
<1>2. IsFiniteSet(Slots(st))
  BY <1>1, FS_Subset DEF Slots
<1>3. \A s \in Slots(st) : /\ s = <<s[1], s[2]>>
                           /\ s[1] \in 1..Len(st)
                           /\ s[2] \in 0..Len(st[s[1]].indexes)
  BY DEF Slots
<1>4. ASSUME NEW i \in 1..Len(st), NEW j \in 0..Len(st[i].indexes)
      PROVE  <<i, j>> \in Slots(st)
  <2>1. Len(st[i].indexes) \in 0..MaxIndexes
    BY DirtyListFacts
  <2>2. QED
    BY <2>1 DEF Slots
<1>5. QED
  BY <1>2, <1>3, <1>4

\* The slots before any point are finitely many, and no more than all.
LEMMA SlotsBeforeFacts ==
    ASSUME NEW st \in DirtyLists, NEW b
    PROVE  /\ IsFiniteSet(SlotsBefore(st, b))
           /\ Cardinality(SlotsBefore(st, b)) \in 0..Cardinality(Slots(st))
           /\ Cardinality(Slots(st)) \in Nat
<1>1. IsFiniteSet(Slots(st))
  BY SlotFacts
<1>2. SlotsBefore(st, b) \subseteq Slots(st)
  BY DEF SlotsBefore
<1>3. Cardinality(SlotsBefore(st, b)) \in Nat /\ Cardinality(Slots(st)) \in Nat
  BY <1>1, <1>2, FS_Subset, FS_CardinalityType
<1>4. QED
  BY <1>1, <1>2, <1>3, FS_Subset

\* A later slot has more slots before it.
LEMMA BeforeCard ==
    ASSUME NEW st \in DirtyLists, NEW a \in Slots(st), NEW b \in Slots(st),
           SlotBefore(a, b)
    PROVE  Cardinality(SlotsBefore(st, a)) < Cardinality(SlotsBefore(st, b))
<1>1. SlotsBefore(st, a) \cup {a} \subseteq SlotsBefore(st, b)
  <2>1. a[1] \in Nat /\ a[2] \in Nat /\ b[1] \in Nat /\ b[2] \in Nat
    BY SlotFacts
  <2>2. \A u \in Slots(st) : SlotBefore(u, a) => SlotBefore(u, b)
    <3>1. TAKE u \in Slots(st)
    <3>2. u[1] \in Nat /\ u[2] \in Nat
      BY SlotFacts
    <3>3. QED
      BY <2>1, <3>2 DEF SlotBefore
  <2>3. QED
    BY <2>2 DEF SlotsBefore
<1>2. a \notin SlotsBefore(st, a)
  BY SlotFacts DEF SlotsBefore, SlotBefore
<1>3. IsFiniteSet(SlotsBefore(st, a)) /\ IsFiniteSet(SlotsBefore(st, b))
  BY SlotsBeforeFacts
<1>4. Cardinality(SlotsBefore(st, a) \cup {a}) = Cardinality(SlotsBefore(st, a)) + 1
  BY <1>2, <1>3, FS_AddElement
<1>5. Cardinality(SlotsBefore(st, a) \cup {a}) <= Cardinality(SlotsBefore(st, b))
  BY <1>1, <1>3, FS_Subset
<1>6. Cardinality(SlotsBefore(st, a)) \in Nat /\ Cardinality(SlotsBefore(st, b)) \in Nat
  BY SlotsBeforeFacts
<1>7. QED
  BY <1>4, <1>5, <1>6

\* Two slots at the same position are the same slot.
LEMMA SlotPosInjective ==
    ASSUME NEW st \in DirtyLists, NEW a \in Slots(st), NEW b \in Slots(st),
           SlotPos(st, a) = SlotPos(st, b)
    PROVE  a = b
<1>1. Cardinality(SlotsBefore(st, a)) = Cardinality(SlotsBefore(st, b))
  <2>1. Cardinality(SlotsBefore(st, a)) \in Nat /\ Cardinality(SlotsBefore(st, b)) \in Nat
    BY SlotsBeforeFacts
  <2>2. QED
    BY <2>1 DEF SlotPos
<1>2. ~SlotBefore(a, b)
  <2>1. SUFFICES ASSUME SlotBefore(a, b) PROVE FALSE
    OBVIOUS
  <2>2. Cardinality(SlotsBefore(st, a)) < Cardinality(SlotsBefore(st, b))
    BY <2>1, BeforeCard
  <2>3. QED
    BY <1>1, <2>2, SlotsBeforeFacts
<1>3. ~SlotBefore(b, a)
  <2>1. SUFFICES ASSUME SlotBefore(b, a) PROVE FALSE
    OBVIOUS
  <2>2. Cardinality(SlotsBefore(st, b)) < Cardinality(SlotsBefore(st, a))
    BY <2>1, BeforeCard
  <2>3. QED
    BY <1>1, <2>2, SlotsBeforeFacts
<1>4. QED
  BY <1>2, <1>3, SlotFacts DEF SlotBefore

\* A slot's position is in range, and Expected holds its call there.
LEMMA ExpectedAt ==
    ASSUME NEW st \in DirtyLists, NEW s \in Slots(st)
    PROVE  /\ SlotPos(st, s) \in 1..Cardinality(Slots(st))
           /\ Expected(st)[SlotPos(st, s)] = CallAt(st, s)
<1>1. SlotPos(st, s) \in 1..Cardinality(Slots(st))
  <2>1. SlotsBefore(st, s) \cup {s} \subseteq Slots(st)
    BY DEF SlotsBefore
  <2>2. s \notin SlotsBefore(st, s)
    BY SlotFacts DEF SlotsBefore, SlotBefore
  <2>3. IsFiniteSet(Slots(st)) /\ IsFiniteSet(SlotsBefore(st, s))
    BY SlotFacts, SlotsBeforeFacts
  <2>4. Cardinality(SlotsBefore(st, s) \cup {s}) = Cardinality(SlotsBefore(st, s)) + 1
    BY <2>2, <2>3, FS_AddElement
  <2>5. Cardinality(SlotsBefore(st, s) \cup {s}) <= Cardinality(Slots(st))
    BY <2>1, <2>3, FS_Subset
  <2>6. Cardinality(SlotsBefore(st, s)) \in Nat /\ Cardinality(Slots(st)) \in Nat
    BY SlotsBeforeFacts
  <2>7. QED
    BY <2>4, <2>5, <2>6 DEF SlotPos
<1>2. (CHOOSE u \in Slots(st) : SlotPos(st, u) = SlotPos(st, s)) = s
  <2>1. \E u \in Slots(st) : SlotPos(st, u) = SlotPos(st, s)
    OBVIOUS
  <2>2. \A u \in Slots(st) : SlotPos(st, u) = SlotPos(st, s) => u = s
    BY SlotPosInjective
  <2>3. QED
    BY <2>1, <2>2
<1>3. QED
  BY <1>1, <1>2 DEF Expected

\* Calling slot s next, when n is the slot that follows it, adds s to the
\* slots before: the list of calls grows by s's call at s's position.
LEMMA AppendSlot ==
    ASSUME NEW st \in DirtyLists, NEW s \in Slots(st), NEW n, NEW c \in Seq(Oids \X Counts),
           SlotsBefore(st, n) = SlotsBefore(st, s) \cup {s},
           Len(c) = Cardinality(SlotsBefore(st, s)),
           \A p \in 1..Len(c) : \E u \in SlotsBefore(st, s) :
                                   SlotPos(st, u) = p /\ c[p] = CallAt(st, u)
    PROVE  LET c2 == Append(c, CallAt(st, s))
           IN  /\ Len(c2) = Cardinality(SlotsBefore(st, n))
               /\ \A p \in 1..Len(c2) : \E u \in SlotsBefore(st, n) :
                                           SlotPos(st, u) = p /\ c2[p] = CallAt(st, u)
<1> DEFINE c2 == Append(c, CallAt(st, s))
<1>1. s \notin SlotsBefore(st, s)
  BY SlotFacts DEF SlotsBefore, SlotBefore
<1>2. Cardinality(SlotsBefore(st, n)) = Cardinality(SlotsBefore(st, s)) + 1
  <2>1. IsFiniteSet(SlotsBefore(st, s))
    BY SlotsBeforeFacts
  <2>2. Cardinality(SlotsBefore(st, s) \cup {s}) = Cardinality(SlotsBefore(st, s)) + 1
    BY <1>1, <2>1, FS_AddElement
  <2>3. QED
    BY <2>2
<1>3. Len(c2) = Len(c) + 1 /\ \A p \in 1..Len(c) : c2[p] = c[p]
      /\ c2[Len(c) + 1] = CallAt(st, s)
  BY AppendProperties
<1>4. Len(c2) = Cardinality(SlotsBefore(st, n))
  BY <1>2, <1>3
<1>5. ASSUME NEW p \in 1..Len(c2)
      PROVE  \E u \in SlotsBefore(st, n) : SlotPos(st, u) = p /\ c2[p] = CallAt(st, u)
  <2>1. Len(c) \in Nat
    BY LenProperties
  <2>2. CASE p \in 1..Len(c)
    BY <2>2, <1>3
  <2>3. CASE p = Len(c) + 1
    <3>1. SlotPos(st, s) = p
      BY <2>3 DEF SlotPos
    <3>2. QED
      BY <2>3, <3>1, <1>3
  <2>4. QED
    BY <2>1, <2>2, <2>3, <1>3
<1>6. QED
  BY <1>4, <1>5

\* The slot after <<i, j>> within table i is <<i, j + 1>>.
LEMMA NextInTable ==
    ASSUME NEW st \in DirtyLists, NEW i \in 1..Len(st),
           NEW j \in 0..Len(st[i].indexes)
    PROVE  /\ <<i, j>> \in Slots(st)
           /\ SlotsBefore(st, <<i, j + 1>>) = SlotsBefore(st, <<i, j>>) \cup {<<i, j>>}
<1>1. <<i, j>> \in Slots(st)
  BY SlotFacts
<1>2. \A u \in Slots(st) : SlotBefore(u, <<i, j + 1>>) <=> (SlotBefore(u, <<i, j>>) \/ u = <<i, j>>)
  <2>1. TAKE u \in Slots(st)
  <2>2. u = <<u[1], u[2]>> /\ u[1] \in Nat /\ u[2] \in Nat
    BY SlotFacts
  <2>3. QED
    BY <2>2 DEF SlotBefore
<1>3. QED
  BY <1>1, <1>2 DEF SlotsBefore

\* Past the last index of table i comes table i + 1: no slot in between.
LEMMA LeaveTable ==
    ASSUME NEW st \in DirtyLists, NEW i \in 1..Len(st)
    PROVE  SlotsBefore(st, <<i, Len(st[i].indexes) + 1>>) = SlotsBefore(st, <<i + 1, 0>>)
<1>1. \A u \in Slots(st) : SlotBefore(u, <<i, Len(st[i].indexes) + 1>>) <=> SlotBefore(u, <<i + 1, 0>>)
  <2>1. TAKE u \in Slots(st)
  <2>2. u[1] \in 1..Len(st) /\ u[2] \in 0..Len(st[u[1]].indexes)
    BY SlotFacts
  <2>3. Len(st[i].indexes) \in Nat
    BY DirtyListFacts
  <2>4. u[1] = i => u[2] <= Len(st[i].indexes)
    BY <2>2
  <2>5. QED
    BY <2>2, <2>3, <2>4 DEF SlotBefore
<1>2. QED
  BY <1>1 DEF SlotsBefore

\* Before the first table there is no slot; past the last, every slot.
LEMMA EndSlots ==
    ASSUME NEW st \in DirtyLists
    PROVE  /\ SlotsBefore(st, <<1, 0>>) = {}
           /\ SlotsBefore(st, <<Len(st) + 1, 0>>) = Slots(st)
<1>1. \A u \in Slots(st) : u[1] \in 1..Len(st) /\ u[2] \in Nat
  BY SlotFacts, DirtyListFacts
<1>2. QED
  BY <1>1, DirtyListFacts DEF SlotsBefore, SlotBefore

-----------------------------------------------------------------------------
(***************************************************************************)
(* The inductive invariant.                                                *)
(***************************************************************************)

\* The slot peloton_update_stats calls next: table table_itr+1 itself in
\* the outer loop, its index index_itr+1 in the inner loop.
NextSlot ==
    IF pc = "index" THEN <<tableItr + 1, indexItr + 1>> ELSE <<tableItr + 1, 0>>

\* The loop counters stay in range, and the calls made are exactly the
\* slots before NextSlot, each at its position.
StatsInv ==
    /\ pc = "start" => tableItr = 0 /\ calls = <<>>
    /\ pc \in {"table", "done"} => tableItr <= Len(status)
    /\ pc = "done" => tableItr = Len(status)
    /\ pc = "index" => /\ tableItr < Len(status)
                       /\ indexItr <= Len(status[tableItr + 1].indexes)
    /\ Len(calls) = Cardinality(SlotsBefore(status, NextSlot))
    /\ \A p \in 1..Len(calls) :
          \E s \in SlotsBefore(status, NextSlot) :
             SlotPos(status, s) = p /\ calls[p] = CallAt(status, s)

\* Inside the foreach every cell passed is no Peloton relation and
\* peloton_query is still false.
QueryInv ==
    /\ lc <= Len(relationOids)
    /\ qpc = "qstart" => ~pelotonQuery /\ lc = 0
    /\ qpc = "qloop" => /\ postmasterEnv /\ ~pelotonQuery
                        /\ \A k \in 1..lc : ~IsPelotonRel(relationOids[k])
    /\ IsPelotonQueryCorrect

\* TypeOK, split between the two routines.
StatsType ==
    /\ status \in DirtyLists
    /\ pc \in {"start", "table", "index", "done"}
    /\ tableItr \in 0..MaxTables /\ indexItr \in 0..MaxIndexes
    /\ calls \in Seq(Oids \X Counts)

QueryType ==
    /\ postmasterEnv \in BOOLEAN /\ relationOids \in RelLists
    /\ qpc \in {"qstart", "qloop", "qdone"}
    /\ lc \in 0..MaxRels /\ pelotonQuery \in BOOLEAN

IInv == TypeOK /\ StatsInv /\ QueryInv

\* The initial states satisfy the inductive invariant.
LEMMA InitIInv == Init => IInv
<1> SUFFICES ASSUME Init PROVE IInv
  OBVIOUS
<1>1. status \in DirtyLists /\ relationOids \in RelLists
  BY DEF Init
<1>2. Len(relationOids) \in 0..MaxRels
  <2>1. relationOids \in Seq(RelOids) /\ Len(relationOids) <= MaxRels
    BY <1>1, BoundedSeqFacts DEF RelLists
  <2>2. QED
    BY <2>1, LenProperties
<1>3. TypeOK
  <2>1. calls \in Seq(Oids \X Counts)
    BY EmptySeq DEF Init
  <2>2. postmasterEnv \in BOOLEAN /\ pelotonQuery \in BOOLEAN
    BY Zenon DEF Init
  <2>3. QED
    BY <1>1, <2>1, <2>2 DEF Init, TypeOK
<1>4. StatsInv
  <2>0. NextSlot = <<1, 0>>
    BY DEF Init, NextSlot
  <2>1. SlotsBefore(status, NextSlot) = {}
    BY <1>1, <2>0, EndSlots
  <2>2. QED
    BY <1>1, <2>1, FS_EmptySet DEF Init, StatsInv
<1>5. QueryInv
  BY <1>2 DEF Init, QueryInv, IsPelotonQueryCorrect
<1>6. QED
  BY <1>3, <1>4, <1>5 DEF IInv
-----------------------------------------------------------------------------
(***************************************************************************)
(* peloton_update_stats keeps its part of the invariant.                  *)
(***************************************************************************)

\* What every step of the loop starts from.
LEMMA StatsFacts ==
    ASSUME IInv
    PROVE  /\ StatsType /\ StatsInv
           /\ Len(status) \in 0..MaxTables
           /\ Len(calls) \in Nat
<1>1. StatsType /\ StatsInv
  BY Zenon DEF IInv, TypeOK, StatsType
<1>2. QED
  BY <1>1, DirtyListFacts, LenProperties DEF StatsType

\* The outer loop's body calls table table_itr + 1.
LEMMA TableStepInv ==
    ASSUME IInv, TableStep
    PROVE  StatsType' /\ StatsInv'
<1> DEFINE t == tableItr
           s == <<t + 1, 0>>
<1>1. StatsType /\ StatsInv /\ Len(status) \in 0..MaxTables /\ Len(calls) \in Nat
  BY StatsFacts
<1>2. pc = "table" /\ t < Len(status) /\ t \in Nat
  BY <1>1 DEF TableStep, StatsType
<1>3. t + 1 \in 1..Len(status) /\ 0 \in 0..Len(status[t + 1].indexes)
  BY <1>1, <1>2, DirtyListFacts DEF StatsType
<1>4. s \in Slots(status) /\ SlotsBefore(status, <<t + 1, 1>>) = SlotsBefore(status, s) \cup {s}
  <2>1. <<t + 1, 0 + 1>> = <<t + 1, 1>>
    OBVIOUS
  <2>2. QED
    BY <1>1, <1>3, <2>1, NextInTable DEF StatsType
<1>5. NextSlot = s /\ NextSlot' = <<t + 1, 1>>
  BY <1>2 DEF TableStep, NextSlot
<1>6. calls' = Append(calls, CallAt(status, s)) /\ status' = status
  BY DEF TableStep, CallAt
<1>7. Len(calls') = Cardinality(SlotsBefore(status', NextSlot'))
      /\ \A p \in 1..Len(calls') : \E u \in SlotsBefore(status', NextSlot') :
            SlotPos(status', u) = p /\ calls'[p] = CallAt(status', u)
  <2>1. Len(calls) = Cardinality(SlotsBefore(status, s))
        /\ \A p \in 1..Len(calls) : \E u \in SlotsBefore(status, s) :
              SlotPos(status, u) = p /\ calls[p] = CallAt(status, u)
    BY <1>1, <1>5 DEF StatsInv
  <2>2. QED
    BY <1>1, <1>4, <1>5, <1>6, <2>1, AppendSlot DEF StatsType
<1>8. Call(status[t + 1]) \in Oids \X Counts
  <2>1. status[t + 1] \in DirtyTable
    BY <1>1, <1>3, DirtyListFacts DEF StatsType
  <2>2. QED
    BY <2>1 DEF DirtyTable, Call
<1>9. StatsType'
  <2>1. calls' \in Seq(Oids \X Counts)
    BY <1>1, <1>8, AppendProperties DEF TableStep, StatsType
  <2>2. QED
    BY <1>1, <2>1, PelotonStatsAssumption DEF TableStep, StatsType
<1>10. QED
  <2>1. pc' = "index" /\ tableItr' = t /\ indexItr' = 0
    BY DEF TableStep
  <2>2. Len(status[t + 1].indexes) \in Nat
    BY <1>1, <1>3, DirtyListFacts DEF StatsType
  <2>3. QED
    BY <1>2, <1>6, <1>7, <1>9, <2>1, <2>2 DEF StatsInv
\* The inner loop's body calls index index_itr + 1 of the table.
LEMMA IndexStepInv ==
    ASSUME IInv, IndexStep
    PROVE  StatsType' /\ StatsInv'
<1> DEFINE t == tableItr
           j == indexItr
           s == <<t + 1, j + 1>>
<1>1. StatsType /\ StatsInv /\ Len(status) \in 0..MaxTables /\ Len(calls) \in Nat
  BY StatsFacts
<1>2. pc = "index" /\ t < Len(status) /\ t \in Nat /\ j \in Nat
      /\ j < Len(status[t + 1].indexes)
  BY <1>1 DEF IndexStep, StatsType, StatsInv
<1>3. /\ t + 1 \in 1..Len(status)
      /\ Len(status[t + 1].indexes) \in 0..MaxIndexes
      /\ status[t + 1].indexes \in Seq(DirtyIndex)
  BY <1>1, <1>2, DirtyListFacts DEF StatsType
<1>4. j + 1 \in 0..Len(status[t + 1].indexes)
  BY <1>2, <1>3
<1>5. s \in Slots(status) /\ SlotsBefore(status, <<t + 1, j + 2>>) = SlotsBefore(status, s) \cup {s}
  <2>1. <<t + 1, (j + 1) + 1>> = <<t + 1, j + 2>>
    BY <1>2
  <2>2. QED
    BY <1>1, <1>3, <1>4, <2>1, NextInTable DEF StatsType
<1>6. NextSlot = s /\ NextSlot' = <<t + 1, j + 2>>
  BY <1>2 DEF IndexStep, NextSlot
<1>7. calls' = Append(calls, CallAt(status, s)) /\ status' = status
  <2>1. CallAt(status, s) = Call(status[t + 1].indexes[j + 1])
    BY <1>2 DEF CallAt
  <2>2. QED
    BY <2>1 DEF IndexStep
<1>8. Len(calls') = Cardinality(SlotsBefore(status', NextSlot'))
      /\ \A p \in 1..Len(calls') : \E u \in SlotsBefore(status', NextSlot') :
            SlotPos(status', u) = p /\ calls'[p] = CallAt(status', u)
  <2>1. Len(calls) = Cardinality(SlotsBefore(status, s))
        /\ \A p \in 1..Len(calls) : \E u \in SlotsBefore(status, s) :
              SlotPos(status, u) = p /\ calls[p] = CallAt(status, u)
    BY <1>1, <1>6 DEF StatsInv
  <2>2. /\ Len(Append(calls, CallAt(status, s)))
              = Cardinality(SlotsBefore(status, <<t + 1, j + 2>>))
        /\ \A p \in 1..Len(Append(calls, CallAt(status, s))) :
              \E u \in SlotsBefore(status, <<t + 1, j + 2>>) :
                 SlotPos(status, u) = p /\ Append(calls, CallAt(status, s))[p] = CallAt(status, u)
    BY <1>1, <1>5, <2>1, AppendSlot DEF StatsType
  <2>3. QED
    BY <2>2, <1>6, <1>7
<1>9. Call(status[t + 1].indexes[j + 1]) \in Oids \X Counts
  <2>1. status[t + 1].indexes[j + 1] \in DirtyIndex
    BY <1>2, <1>3, ElementOfSeq
  <2>2. QED
    BY <2>1 DEF DirtyIndex, Call
<1>10. StatsType'
  <2>1. calls' \in Seq(Oids \X Counts)
    BY <1>1, <1>9, AppendProperties DEF IndexStep, StatsType
  <2>2. indexItr' \in 0..MaxIndexes
    BY <1>2, <1>3 DEF IndexStep
  <2>3. QED
    BY <1>1, <2>1, <2>2 DEF IndexStep, StatsType
<1>11. QED
  <2>1. pc' = "index" /\ tableItr' = t /\ indexItr' = j + 1
    BY DEF IndexStep
  <2>2. QED
    BY <1>2, <1>4, <1>7, <1>8, <1>10, <2>1 DEF StatsInv

\* Leaving the inner loop moves to the next table; no slot is skipped.
LEMMA IndexDoneInv ==
    ASSUME IInv, IndexDone
    PROVE  StatsType' /\ StatsInv'
<1> DEFINE t == tableItr
<1>1. StatsType /\ StatsInv /\ Len(status) \in 0..MaxTables
  BY StatsFacts
<1>2. pc = "index" /\ t < Len(status) /\ t \in Nat
      /\ indexItr = Len(status[t + 1].indexes)
  <2>1. Len(status[t + 1].indexes) \in Nat /\ indexItr \in Nat
    BY <1>1, DirtyListFacts DEF StatsType, StatsInv, IndexDone
  <2>2. QED
    BY <1>1, <2>1 DEF IndexDone, StatsType, StatsInv
<1>3. NextSlot = <<t + 1, Len(status[t + 1].indexes) + 1>> /\ NextSlot' = <<t + 2, 0>>
  BY <1>2 DEF IndexDone, NextSlot
<1>4. SlotsBefore(status', NextSlot') = SlotsBefore(status, NextSlot)
  <2>1. <<(t + 1) + 1, 0>> = <<t + 2, 0>>
    BY <1>2
  <2>2. QED
    BY <1>1, <1>2, <1>3, <2>1, LeaveTable DEF IndexDone, StatsType
<1>5. StatsType'
  BY <1>1, <1>2 DEF IndexDone, StatsType
<1>6. QED
  <2>1. pc' = "table" /\ tableItr' = t + 1 /\ calls' = calls /\ status' = status
    BY DEF IndexDone
  <2>2. QED
    BY <1>1, <1>2, <1>4, <1>5, <2>1 DEF StatsInv

\* Leaving the outer loop: every table has been called.
LEMMA TableDoneInv ==
    ASSUME IInv, TableDone
    PROVE  StatsType' /\ StatsInv'
<1>1. StatsType /\ StatsInv /\ Len(status) \in 0..MaxTables
  BY StatsFacts
<1>2. pc = "table" /\ tableItr = Len(status)
  BY <1>1 DEF TableDone, StatsType, StatsInv
<1>3. NextSlot' = NextSlot
  BY <1>2 DEF TableDone, NextSlot
<1>4. StatsType'
  BY <1>1 DEF TableDone, StatsType
<1>5. QED
  BY <1>1, <1>2, <1>3, <1>4 DEF TableDone, StatsInv

\* peloton_process_status enters the loop only with dirty tables.
LEMMA StartInv ==
    ASSUME IInv, Start
    PROVE  StatsType' /\ StatsInv'
<1>1. StatsType /\ StatsInv /\ Len(status) \in 0..MaxTables
  BY StatsFacts
<1>2. pc = "start" /\ tableItr = 0 /\ calls = <<>>
  BY <1>1 DEF Start, StatsInv
<1>3. NextSlot' = NextSlot
  BY <1>2 DEF Start, NextSlot
<1>4. status = <<>> => Len(status) = 0
  OBVIOUS
<1>5. status # <<>> => Len(status) # 0
  BY <1>1, EmptySeq, DirtyListFacts DEF StatsType
<1>6. StatsType'
  BY <1>1 DEF Start, StatsType
<1>7. QED
  BY <1>1, <1>2, <1>3, <1>4, <1>5, <1>6 DEF Start, StatsInv
-----------------------------------------------------------------------------
(***************************************************************************)
(* IsPelotonQuery keeps its part of the invariant.                        *)
(***************************************************************************)

\* What every step of the scan starts from.
LEMMA QueryFacts ==
    ASSUME IInv
    PROVE  /\ QueryType /\ QueryInv
           /\ relationOids \in Seq(RelOids)
           /\ Len(relationOids) \in 0..MaxRels
<1>1. QueryType /\ QueryInv
  BY Zenon DEF IInv, TypeOK, QueryType
<1>2. relationOids \in Seq(RelOids) /\ Len(relationOids) <= MaxRels
  BY <1>1, BoundedSeqFacts DEF QueryType, RelLists
<1>3. QED
  BY <1>1, <1>2, LenProperties

\* Entering the foreach, or returning false at once.
LEMMA QueryStartInv ==
    ASSUME IInv, QueryStart
    PROVE  QueryType' /\ QueryInv'
<1>1. QueryType /\ QueryInv /\ Len(relationOids) \in 0..MaxRels
  BY QueryFacts
<1>2. qpc = "qstart" /\ ~pelotonQuery /\ lc = 0
  BY <1>1 DEF QueryStart, QueryInv
<1>3. QueryType'
  BY <1>1 DEF QueryStart, QueryType
<1>4. CASE postmasterEnv /\ relationOids # <<>>
  BY <1>1, <1>2, <1>3, <1>4 DEF QueryStart, QueryInv, IsPelotonQueryCorrect
<1>5. CASE ~(postmasterEnv /\ relationOids # <<>>)
  <2>1. ~postmasterEnv \/ Len(relationOids) = 0
    BY <1>1, <1>5, EmptySeq, QueryFacts
  <2>2. QED
    BY <1>1, <1>2, <1>3, <1>5, <2>1 DEF QueryStart, QueryInv, IsPelotonQueryCorrect
<1>6. QED
  BY <1>4, <1>5

\* A Peloton relation: the answer is true, and it is right.
LEMMA QueryHitInv ==
    ASSUME IInv, QueryHit
    PROVE  QueryType' /\ QueryInv'
<1>1. QueryType /\ QueryInv /\ Len(relationOids) \in 0..MaxRels
  BY QueryFacts
<1>2. qpc = "qloop" /\ postmasterEnv /\ lc \in Nat /\ lc < Len(relationOids)
  BY <1>1 DEF QueryHit, QueryInv, QueryType
<1>3. relationOids[lc + 1] >= FirstNormalObjectId
  BY DEF QueryHit, IsPelotonRel
<1>4. QueryType'
  BY <1>1 DEF QueryHit, QueryType
<1>5. QED
  BY <1>1, <1>2, <1>3, <1>4 DEF QueryHit, QueryInv, IsPelotonQueryCorrect

\* Any other relation: one more cell passed.
LEMMA QueryMissInv ==
    ASSUME IInv, QueryMiss
    PROVE  QueryType' /\ QueryInv'
<1>1. QueryType /\ QueryInv /\ Len(relationOids) \in 0..MaxRels
  BY QueryFacts
<1>2. qpc = "qloop" /\ postmasterEnv /\ ~pelotonQuery /\ lc \in Nat
      /\ lc < Len(relationOids)
      /\ \A k \in 1..lc : ~IsPelotonRel(relationOids[k])
  BY <1>1 DEF QueryMiss, QueryInv, QueryType
<1>3. \A k \in 1..lc + 1 : ~IsPelotonRel(relationOids[k])
  BY <1>2 DEF QueryMiss
<1>4. QueryType'
  BY <1>1, <1>2 DEF QueryMiss, QueryType
<1>5. QED
  BY <1>2, <1>3, <1>4 DEF QueryMiss, QueryInv, IsPelotonQueryCorrect

\* The end of the list: no cell was a Peloton relation, the answer false.
LEMMA QueryEndInv ==
    ASSUME IInv, QueryEnd
    PROVE  QueryType' /\ QueryInv'
<1>1. QueryType /\ QueryInv /\ Len(relationOids) \in 0..MaxRels
  BY QueryFacts
<1>2. qpc = "qloop" /\ ~pelotonQuery /\ lc = Len(relationOids)
      /\ \A k \in 1..lc : ~IsPelotonRel(relationOids[k])
  BY <1>1 DEF QueryEnd, QueryInv, QueryType
<1>3. ~\E i \in 1..Len(relationOids) : relationOids[i] >= FirstNormalObjectId
  BY <1>2 DEF IsPelotonRel
<1>4. QueryType'
  BY <1>1 DEF QueryEnd, QueryType
<1>5. QED
  BY <1>1, <1>2, <1>3, <1>4 DEF QueryEnd, QueryInv, IsPelotonQueryCorrect
-----------------------------------------------------------------------------
(***************************************************************************)
(* Every step keeps the invariant.                                         *)
(***************************************************************************)

\* A step of one routine leaves the other's part of the invariant alone.
LEMMA StatsFrame ==
    ASSUME IInv, UNCHANGED statsVars
    PROVE  StatsType' /\ StatsInv'
<1>1. StatsType /\ StatsInv
  BY StatsFacts
<1>2. NextSlot' = NextSlot
  BY DEF statsVars, NextSlot
<1>3. QED
  BY <1>1, <1>2 DEF statsVars, StatsType, StatsInv

LEMMA QueryFrame ==
    ASSUME IInv, UNCHANGED queryVars
    PROVE  QueryType' /\ QueryInv'
<1>1. QueryType /\ QueryInv
  BY QueryFacts
<1>2. QED
  BY <1>1 DEF queryVars, QueryType, QueryInv, IsPelotonQueryCorrect, IsPelotonRel

LEMMA NextIInv == IInv /\ [Next]_vars => IInv'
<1> SUFFICES ASSUME IInv, [Next]_vars PROVE IInv'
  OBVIOUS
<1>1. StatsType' /\ StatsInv'
  <2>1. CASE Start
    BY <2>1, StartInv
  <2>2. CASE TableStep
    BY <2>2, TableStepInv
  <2>3. CASE TableDone
    BY <2>3, TableDoneInv
  <2>4. CASE IndexStep
    BY <2>4, IndexStepInv
  <2>5. CASE IndexDone
    BY <2>5, IndexDoneInv
  <2>6. CASE QueryLoop \/ UNCHANGED vars
    <3>1. UNCHANGED statsVars
      BY <2>6 DEF QueryLoop, QueryStart, QueryHit, QueryMiss, QueryEnd, vars
    <3>2. QED
      BY <3>1, StatsFrame
  <2>7. QED
    BY <2>1, <2>2, <2>3, <2>4, <2>5, <2>6 DEF Next, UpdateStats
<1>2. QueryType' /\ QueryInv'
  <2>1. CASE QueryStart
    BY <2>1, QueryStartInv
  <2>2. CASE QueryHit
    BY <2>2, QueryHitInv
  <2>3. CASE QueryMiss
    BY <2>3, QueryMissInv
  <2>4. CASE QueryEnd
    BY <2>4, QueryEndInv
  <2>5. CASE UpdateStats \/ UNCHANGED vars
    <3>1. UNCHANGED queryVars
      BY <2>5 DEF UpdateStats, Start, TableStep, TableDone, IndexStep, IndexDone, vars
    <3>2. QED
      BY <3>1, QueryFrame
  <2>6. QED
    BY <2>1, <2>2, <2>3, <2>4, <2>5 DEF Next, QueryLoop
<1>3. TypeOK'
  BY <1>1, <1>2, Zenon DEF TypeOK, StatsType, QueryType
<1>4. QED
  BY <1>1, <1>2, <1>3 DEF IInv

\* Expected(st) is a sequence with one entry per slot.
LEMMA ExpectedLen ==
    ASSUME NEW st \in DirtyLists
    PROVE  /\ Cardinality(Slots(st)) \in Nat
           /\ DOMAIN Expected(st) = 1..Cardinality(Slots(st))
           /\ Len(Expected(st)) = Cardinality(Slots(st))
<1>1. Cardinality(Slots(st)) \in Nat
  BY SlotsBeforeFacts
<1>2. QED
  BY <1>1 DEF Expected

\* Once the outer loop has passed the last table, every prescribed call
\* has been made.
LEMMA CallsComplete ==
    ASSUME IInv, pc # "index", tableItr = Len(status)
    PROVE  calls = Expected(status)
<1> DEFINE E == Expected(status)
           n == Len(calls)
<1>1. StatsInv /\ n \in Nat
  BY StatsFacts
<1>2. status \in DirtyLists /\ calls \in Seq(Oids \X Counts)
  BY StatsFacts DEF StatsType
<1>3. NextSlot = <<Len(status) + 1, 0>>
  BY DEF NextSlot
<1>4. SlotsBefore(status, NextSlot) = Slots(status)
  BY <1>2, <1>3, EndSlots
<1>5. n = Cardinality(Slots(status))
  BY <1>1, <1>4 DEF StatsInv
<1>6. ASSUME NEW p \in 1..n PROVE calls[p] = E[p]
  <2>1. PICK u \in Slots(status) : SlotPos(status, u) = p /\ calls[p] = CallAt(status, u)
    BY <1>1, <1>4 DEF StatsInv
  <2>2. QED
    BY <1>2, <2>1, ExpectedAt
<1>7. DOMAIN calls = 1..n
  BY <1>2, LenProperties
<1>8. DOMAIN E = 1..Cardinality(Slots(status))
  BY <1>2, ExpectedLen
<1>9. QED
  BY <1>2, <1>5, <1>6, <1>7, <1>8 DEF Expected

\* The invariant gives the order of the calls.
LEMMA IInvInOrder == IInv => StatsInOrder
<1> SUFFICES ASSUME IInv PROVE StatsInOrder
  OBVIOUS
<1> DEFINE E == Expected(status)
           n == Len(calls)
           B == SlotsBefore(status, NextSlot)
<1>1. StatsType /\ StatsInv /\ n \in Nat
  BY StatsFacts
<1>2. status \in DirtyLists /\ calls \in Seq(Oids \X Counts)
  BY <1>1 DEF StatsType
<1>3. Cardinality(Slots(status)) \in Nat /\ n \in 0..Cardinality(Slots(status))
  BY <1>1, <1>2, SlotsBeforeFacts DEF StatsInv
<1>4. DOMAIN E = 1..Cardinality(Slots(status))
  BY DEF Expected
<1>5. ASSUME NEW p \in 1..n PROVE calls[p] = E[p]
  <2>1. PICK u \in B : SlotPos(status, u) = p /\ calls[p] = CallAt(status, u)
    BY <1>1 DEF StatsInv
  <2>2. u \in Slots(status)
    BY DEF SlotsBefore
  <2>3. QED
    BY <1>2, <2>1, <2>2, ExpectedAt
<1>6. Len(E) = Cardinality(Slots(status))
  BY <1>3, <1>4 DEF Expected
<1>7. IsPrefix(calls, E)
  <2>1. DOMAIN calls = 1..n
    BY <1>2, LenProperties
  <2>2. SubSeq(calls, 1, n) = SubSeq(E, 1, n)
    BY <1>5
  <2>3. QED
    BY <1>3, <1>6, <2>2 DEF IsPrefix
<1>8. pc = "done" => calls = E
  BY <1>1, CallsComplete DEF StatsInv
<1>9. QED
  BY <1>7, <1>8 DEF StatsInOrder
-----------------------------------------------------------------------------
(***************************************************************************)
(* Theorems.                                                               *)
(***************************************************************************)

\* The state of both routines is always well typed, for every bound.
THEOREM PelotonStatsTypeCorrect == Spec => []TypeOK
<1>1. IInv => TypeOK
  BY DEF IInv
<1>2. QED
  BY <1>1, InitIInv, NextIInv, PTL DEF Spec

\* peloton_update_stats makes a prefix of the prescribed SetNumberOfTuples
\* calls and, on return, all of them in table-then-index order, for every
\* number of dirty tables and dirty indexes.
THEOREM StatsInOrderHolds == Spec => []StatsInOrder
<1>1. QED
  BY IInvInOrder, InitIInv, NextIInv, PTL DEF Spec

\* IsPelotonQuery's answer is right for every plan and environment.
THEOREM IsPelotonQueryCorrectHolds == Spec => []IsPelotonQueryCorrect
<1>1. IInv => IsPelotonQueryCorrect
  BY DEF IInv, QueryInv
<1>2. QED
  BY <1>1, InitIInv, NextIInv, PTL DEF Spec
========================================================================
