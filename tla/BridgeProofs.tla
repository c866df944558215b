---------------------------- MODULE BridgeProofs ----------------------------
(***************************************************************************)
(* Proofs about Bridge for every set of backends, slots and workers and   *)
(* every bound.                                                            *)
(*                                                                         *)
(* TypeOK is not inductive by itself: a handler dereferences `msg`, the   *)
(* reply target and the history tag, so the invariant must say that they  *)
(* are defined whenever a worker is busy (Busy).  RegistryUnique needs the *)
(* mutex discipline of peloton_reply_to_backend (Registry): only the lock  *)
(* holder opens a queue, it opens only an uncached one, and each cached    *)
(* entry stands for exactly one open_mq call.                              *)
(***************************************************************************)
EXTENDS Bridge, SequenceTheorems, TLAPS

Busy ==
    /\ buf \in Datagrams \/ (sched = <<>> /\ \A w \in Workers : wpc[w] = "idle")
    /\ \A w \in Workers : wpc[w] \in {"lookup", "open", "send"} => wdst[w] \in Backends
    /\ \A w \in Workers : wpc[w] \notin {"idle", "start"} => wsrc[w] \in Reqs
    /\ \A b \in Backends : rpc[b] # "idle" => nreq[b] \in 1..MaxReq /\ rslot[b] \in Slots

Registry ==
    /\ \A b \in Backends : opens[b] = IF qh[b] = "none" THEN 0 ELSE 1
    /\ \A w \in Workers : wpc[w] = "open" => lock = w /\ qh[wdst[w]] = "none"
    /\ lock # "free" => lock \in Workers /\ wpc[lock] = "open"

\* A worker about to send_message holds the mqd cached for its backend.
Sending ==
    \A w \in Workers :
        wpc[w] = "send" => whandle[w] = qh[wdst[w]] /\ qh[wdst[w]] # "none"

IInv == TypeOK /\ Busy /\ Registry

\* TypeOK split into its Boolean-valued part (for Zenon) and the rest (SMT).
TypeBool == sock \in BOOLEAN /\ alive \in BOOLEAN /\ wplan \in [Workers -> BOOLEAN]

TypeRest ==
    /\ rpc \in [Backends -> {"idle", "created", "sent", "done"}]
    /\ nreq \in [Backends -> 0..MaxReq]
    /\ rslot \in [Backends -> Slots \cup {None}]
    /\ alloc \subseteq Slots /\ res \in [Slots -> Results]
    /\ chan \in Seq(Datagrams) /\ Len(chan) <= ChanCap
    /\ buf \in Datagrams \cup {None} /\ sched \in Seq(Tasks)
    /\ wpc \in [Workers -> WPcs] /\ wtask \in [Workers -> Tasks \cup {None}]
    /\ wsrc \in [Workers -> Reqs \cup {None}]
    /\ wdst \in [Workers -> Backends \cup {None}]
    /\ wret \in [Workers -> {"idle", "exec", "finish"}]
    /\ whandle \in [Workers -> Handles] /\ lock \in Workers \cup {"free"}
    /\ qh \in [Backends -> Handles] /\ mq \in [Backends -> Nat]
    /\ opens \in [Backends -> Nat] /\ execd \in [Reqs -> Nat]
    /\ nsent \in [Reqs -> Nat] /\ obs \in [Reqs -> Results \cup {"none"}]

LEMMA TypeSplit == TypeOK <=> TypeBool /\ TypeRest
  BY Zenon DEF TypeOK, TypeBool, TypeRest

\* The initial state satisfies the inductive invariant.
LEMMA InitIInv == Init => IInv
<1> SUFFICES ASSUME Init PROVE IInv
  OBVIOUS
<1>1. TypeOK
  <2>1. sock \in BOOLEAN /\ alive \in BOOLEAN /\ wplan \in [Workers -> BOOLEAN]
    BY Zenon DEF Init
  <2>2. /\ rpc \in [Backends -> {"idle", "created", "sent", "done"}]
        /\ nreq \in [Backends -> 0..MaxReq]
        /\ rslot \in [Backends -> Slots \cup {None}]
        /\ alloc \subseteq Slots /\ res \in [Slots -> Results]
        /\ chan \in Seq(Datagrams) /\ Len(chan) <= ChanCap
        /\ buf \in Datagrams \cup {None} /\ sched \in Seq(Tasks)
    BY BridgeAssumption DEF Init, Results
  <2>3. /\ wpc \in [Workers -> WPcs] /\ wtask \in [Workers -> Tasks \cup {None}]
        /\ wsrc \in [Workers -> Reqs \cup {None}]
        /\ wdst \in [Workers -> Backends \cup {None}]
        /\ wret \in [Workers -> {"idle", "exec", "finish"}]
        /\ whandle \in [Workers -> Handles] /\ lock \in Workers \cup {"free"}
    BY DEF Init, WPcs, Handles
  <2>4. /\ qh \in [Backends -> Handles] /\ mq \in [Backends -> Nat]
        /\ opens \in [Backends -> Nat] /\ execd \in [Reqs -> Nat]
        /\ nsent \in [Reqs -> Nat] /\ obs \in [Reqs -> Results \cup {"none"}]
    BY DEF Init, Handles, Results
  <2>5. QED
    BY <2>1, <2>2, <2>3, <2>4 DEF TypeOK
<1>2. Busy
  BY DEF Init, Busy
<1>3. Registry
  BY DEF Init, Registry
<1>4. QED
  BY <1>1, <1>2, <1>3 DEF IInv

\* The Boolean-valued variables keep their type: only HandlerStart writes
\* wplan, from a datagram's payload flag, and only HandlerFault alive.
LEMMA NextTypeBool == IInv /\ [Next]_vars => TypeBool'
<1> SUFFICES ASSUME IInv, [Next]_vars PROVE TypeBool'
  OBVIOUS
<1>1. TypeBool /\ TypeRest /\ Busy
  BY TypeSplit DEF IInv
<1>2. CASE \E w \in Workers : HandlerStart(w)
  <2>1. PICK w \in Workers : HandlerStart(w)
    BY <1>2
  <2>2. buf \in Datagrams
    BY <1>1, <2>1 DEF HandlerStart, Busy, TypeRest
  <2>3. buf.payload \in BOOLEAN
    BY <2>2 DEF Datagrams
  <2>4. QED
    BY <1>1, <2>1, <2>3, Zenon DEF HandlerStart, TypeBool
<1>3. CASE ~\E w \in Workers : HandlerStart(w)
  <2>1. sock' = sock /\ wplan' = wplan /\ (alive' = alive \/ alive' = FALSE)
    <3>1. CASE \E b \in Backends : BackendStep(b)
      BY <3>1 DEF BackendStep, CreateStatus, SendRequest, ProcessStatus,
                  DestroyStatus, reqVars, wVars
    <3>2. CASE MainLoopRecv
      BY <3>2 DEF MainLoopRecv, reqVars, wVars
    <3>3. CASE \E w \in Workers : WorkerStep(w)
      BY <1>3, <3>3 DEF WorkerStep, WorkerTake, HandlerFail, HandlerExec,
             HandlerExecNull, HandlerFault, HandlerFinish, CallReply, RegistryHit,
             RegistryMiss, RegistryOpen, ReplySend, reqVars, wVars
    <3>4. CASE UNCHANGED vars
      BY <3>4 DEF vars
    <3>5. QED
      BY <3>1, <3>2, <3>3, <3>4 DEF Next
  <2>2. QED
    BY <1>1, <2>1, Zenon DEF TypeBool
<1>4. QED
  BY <1>2, <1>3

\* Fields of a datagram.
LEMMA DatagramFields ==
    ASSUME NEW d \in Datagrams
    PROVE  /\ d.kind \in Kinds /\ d.req \in Reqs /\ d.slot \in Slots
           /\ d.req[1] \in Backends
  BY DEF Datagrams, Reqs

\* The task MainLoopRecv hands the scheduler is a task.
LEMMA TaskIntro ==
    ASSUME NEW k \in Kinds, NEW r \in Reqs
    PROVE  [h |-> k, req |-> r] \in Tasks
  BY DEF Tasks

\* The datagram a backend sends is a datagram.
LEMMA DatagramIntro ==
    ASSUME NEW k \in Kinds, NEW r \in Reqs, NEW s \in Slots, NEW p \in BOOLEAN
    PROVE  [kind |-> k, req |-> r, slot |-> s, payload |-> p] \in Datagrams
  BY DEF Datagrams

\* Receiving keeps the channel and the task queue well typed.
LEMMA RecvSeqs ==
    ASSUME NEW c \in Seq(Datagrams), c # <<>>, Len(c) <= ChanCap,
           NEW q \in Seq(Tasks), NEW t \in Tasks
    PROVE  /\ Head(c) \in Datagrams /\ Tail(c) \in Seq(Datagrams)
           /\ Len(Tail(c)) <= ChanCap /\ Append(q, t) \in Seq(Tasks)
<1>1. Head(c) \in Datagrams
  BY HeadTailProperties
<1>2. Tail(c) \in Seq(Datagrams) /\ Len(Tail(c)) = Len(c) - 1
  BY HeadTailProperties
<1>6. Len(c) \in Nat
  BY LenProperties
<1>5. Len(Tail(c)) <= ChanCap
  BY <1>2, <1>6, BridgeAssumption
<1>3. Append(q, t) \in Seq(Tasks)
  BY AppendProperties
<1>4. QED
  BY <1>1, <1>2, <1>3, <1>5

\* Every step keeps the rest of TypeOK, Busy and Registry.
LEMMA NextRest == IInv /\ [Next]_vars => (TypeRest /\ Busy /\ Registry)'
<1> SUFFICES ASSUME IInv, [Next]_vars PROVE (TypeRest /\ Busy /\ Registry)'
  OBVIOUS
<1>0. TypeRest /\ Busy /\ Registry
  BY TypeSplit DEF IInv
<1> USE <1>0, BridgeAssumption DEF TypeRest, Busy, Registry, reqVars, wVars
<1>1. ASSUME NEW b \in Backends, CreateStatus(b) PROVE (TypeRest /\ Busy /\ Registry)'
  BY <1>1 DEF CreateStatus, Results
<1>2. ASSUME NEW b \in Backends, NEW k \in Kinds, NEW p \in Payloads,
             SendRequest(b, k, p)
      PROVE (TypeRest /\ Busy /\ Registry)'
  <2>1. [kind |-> k, req |-> <<b, nreq[b]>>, slot |-> rslot[b], payload |-> p] \in Datagrams
    BY <1>2 DEF SendRequest, Datagrams, Reqs, Payloads
  <2>2. QED
    BY <1>2, <2>1 DEF SendRequest
<1>3. ASSUME NEW b \in Backends, ProcessStatus(b) PROVE (TypeRest /\ Busy /\ Registry)'
  <2>1. rslot[b] \in Slots /\ <<b, nreq[b]>> \in Reqs
    BY <1>3 DEF ProcessStatus, Reqs
  <2>2. /\ obs' \in [Reqs -> Results \cup {"none"}]
        /\ mq' \in [Backends -> Nat]
        /\ rpc' \in [Backends -> {"idle", "created", "sent", "done"}]
    BY <1>3, <2>1 DEF ProcessStatus
  <2>3. TypeRest'
    BY <1>3, <2>2 DEF ProcessStatus
  <2>4. Busy'
    BY <1>3 DEF ProcessStatus
  <2>5. Registry'
    BY <1>3 DEF ProcessStatus
  <2>6. QED
    BY <2>3, <2>4, <2>5
<1>4. ASSUME NEW b \in Backends, DestroyStatus(b) PROVE (TypeRest /\ Busy /\ Registry)'
  BY <1>4 DEF DestroyStatus
<1>5. CASE MainLoopRecv
  <2>1. /\ Head(chan) \in Datagrams /\ Tail(chan) \in Seq(Datagrams)
        /\ Len(Tail(chan)) <= ChanCap
    BY <1>5, RecvSeqs DEF MainLoopRecv
  <2>2. [h |-> Head(chan).kind, req |-> Head(chan).req] \in Tasks
    BY <2>1, DatagramFields, TaskIntro
  <2>3. sched' \in Seq(Tasks)
    BY <1>5, <2>2, RecvSeqs DEF MainLoopRecv
  <2>4. QED
    BY <1>5, <2>1, <2>3 DEF MainLoopRecv
<1>6. ASSUME NEW w \in Workers, WorkerTake(w) PROVE (TypeRest /\ Busy /\ Registry)'
  <2>1. Head(sched) \in Tasks /\ Tail(sched) \in Seq(Tasks)
    BY <1>6, HeadTailProperties DEF WorkerTake
  <2>2. buf \in Datagrams
    BY <1>6 DEF WorkerTake
  <2>3. TypeRest'
    <3>1. wtask' \in [Workers -> Tasks \cup {None}] /\ wpc' \in [Workers -> WPcs]
      BY <1>6, <2>1 DEF WorkerTake, WPcs
    <3>2. QED
      BY <1>6, <2>1, <3>1 DEF WorkerTake
  <2>4. Busy'
    BY <1>6, <2>2 DEF WorkerTake
  <2>5. Registry'
    BY <1>6 DEF WorkerTake
  <2>6. QED
    BY <2>3, <2>4, <2>5
<1>7. ASSUME NEW w \in Workers, HandlerStart(w) PROVE (TypeRest /\ Busy /\ Registry)'
  BY <1>7 DEF HandlerStart, Datagrams, WPcs
<1>8. ASSUME NEW w \in Workers, HandlerFail(w) PROVE (TypeRest /\ Busy /\ Registry)'
  <2>1. buf.slot \in Slots
    BY <1>8, DatagramFields DEF HandlerFail
  <2>2. res' \in [Slots -> Results] /\ wpc' \in [Workers -> WPcs]
        /\ wret' \in [Workers -> {"idle", "exec", "finish"}]
    BY <1>8, <2>1 DEF HandlerFail, Results, WPcs
  <2>3. QED
    BY <1>8, <2>2 DEF HandlerFail
<1>9. ASSUME NEW w \in Workers, HandlerExec(w) PROVE (TypeRest /\ Busy /\ Registry)'
  <2>1. buf.slot \in Slots /\ wsrc[w] \in Reqs
    BY <1>9, DatagramFields DEF HandlerExec
  <2>2. /\ res' \in [Slots -> Results] /\ execd' \in [Reqs -> Nat]
        /\ wpc' \in [Workers -> WPcs]
    BY <1>9, <2>1 DEF HandlerExec, Results, WPcs
  <2>3. QED
    BY <1>9, <2>1, <2>2 DEF HandlerExec
<1>10. ASSUME NEW w \in Workers, HandlerExecNull(w) PROVE (TypeRest /\ Busy /\ Registry)'
  BY <1>10 DEF HandlerExecNull, WPcs
<1>11. ASSUME NEW w \in Workers, HandlerFault(w) PROVE (TypeRest /\ Busy /\ Registry)'
  BY <1>11 DEF HandlerFault
<1>12. ASSUME NEW w \in Workers, HandlerFinish(w) PROVE (TypeRest /\ Busy /\ Registry)'
  <2>1. buf.slot \in Slots
    BY <1>12, DatagramFields DEF HandlerFinish
  <2>2. res' \in [Slots -> Results] /\ wpc' \in [Workers -> WPcs]
        /\ wret' \in [Workers -> {"idle", "exec", "finish"}]
    BY <1>12, <2>1 DEF HandlerFinish, Results, WPcs
  <2>3. QED
    BY <1>12, <2>2 DEF HandlerFinish
\* The reply reads the requester from `msg`, which a busy worker knows to
\* hold a datagram.
<1>19. ASSUME NEW w \in Workers, CallReply(w) PROVE (TypeRest /\ Busy /\ Registry)'
  <2>1. buf \in Datagrams
    BY <1>19 DEF CallReply
  <2>2. buf.req \in Reqs /\ buf.req[1] \in Backends
    BY <2>1, DatagramFields
  <2>3. lock # w
    BY <1>19 DEF CallReply
  <2>4. TypeRest'
    <3>1. wpc' \in [Workers -> WPcs]
      BY <1>19 DEF CallReply, WPcs
    <3>2. wdst' \in [Workers -> Backends \cup {None}]
      BY <1>19, <2>2 DEF CallReply
    <3>4. nsent' \in [Reqs -> Nat]
      BY <1>19, <2>2 DEF CallReply
    <3>3. QED
      BY <1>19, <3>1, <3>2, <3>4 DEF CallReply
  <2>5. Busy'
    BY <1>19, <2>1, <2>2 DEF CallReply
  <2>6. Registry'
    BY <1>19, <2>3 DEF CallReply
  <2>7. QED
    BY <2>4, <2>5, <2>6
<1>13. ASSUME NEW w \in Workers, RegistryHit(w) PROVE (TypeRest /\ Busy /\ Registry)'
  BY <1>13 DEF RegistryHit, WPcs
<1>14. ASSUME NEW w \in Workers, RegistryMiss(w) PROVE (TypeRest /\ Busy /\ Registry)'
  BY <1>14 DEF RegistryMiss, WPcs
<1>15. ASSUME NEW w \in Workers, RegistryOpen(w) PROVE (TypeRest /\ Busy /\ Registry)'
  <2>1. TypeRest'
    BY <1>15 DEF RegistryOpen, WPcs, Handles
  <2>2. Busy'
    BY <1>15 DEF RegistryOpen, WPcs, Handles
  <2>3. Registry'
    BY <1>15 DEF RegistryOpen, WPcs, Handles
  <2>4. QED
    BY <2>1, <2>2, <2>3
<1>16. ASSUME NEW w \in Workers, ReplySend(w) PROVE (TypeRest /\ Busy /\ Registry)'
  <2>1. lock # w /\ wret[w] # "open"
    BY <1>16 DEF ReplySend
  <2>2. TypeRest'
    BY <1>16 DEF ReplySend, WPcs
  <2>3. Busy'
    <3>1. wpc'[w] \in {"idle", "exec", "finish"}
      BY <1>16 DEF ReplySend
    <3>2. buf \in Datagrams
      BY <1>16 DEF ReplySend
    <3>3. QED
      BY <1>16, <3>1, <3>2 DEF ReplySend
  <2>4. Registry'
    BY <1>16, <2>1 DEF ReplySend
  <2>5. QED
    BY <2>2, <2>3, <2>4
<1>17. CASE UNCHANGED vars
  BY <1>17 DEF vars
<1>18. QED
  BY <1>1, <1>2, <1>3, <1>4, <1>5, <1>6, <1>7, <1>8, <1>9, <1>10, <1>11,
     <1>12, <1>13, <1>14, <1>15, <1>16, <1>17, <1>19
     DEF Next, BackendStep, WorkerStep
\* The inductive invariant is preserved by every step.
LEMMA NextIInv == IInv /\ [Next]_vars => IInv'
<1> SUFFICES ASSUME IInv, [Next]_vars PROVE IInv'
  OBVIOUS
<1>1. TypeBool' /\ (TypeRest /\ Busy /\ Registry)'
  BY NextTypeBool, NextRest
<1>2. TypeOK'
  BY <1>1, Zenon DEF TypeOK, TypeBool, TypeRest
<1>3. QED
  BY <1>1, <1>2 DEF IInv

\* Every variable of the bridge -- the datagram channel, the shared `msg`
\* buffer, the scheduler queue, each worker's locals and the reply-queue
\* cache -- stays in its type, for every number of backends, slots and
\* workers and every bound.
THEOREM BridgeTypeCorrect == Spec => []TypeOK
<1>1. IInv => TypeOK
  BY DEF IInv
<1>2. QED
  BY <1>1, InitIInv, NextIInv, PTL DEF Spec

\* peloton_reply_to_backend's lookup-or-insert under backend_queue_map_mutex
\* calls open_mq at most once per backend, however many workers reply to
\* it concurrently.
THEOREM RegistryUniqueHolds == Spec => []RegistryUnique
<1>1. IInv => RegistryUnique
  <2> SUFFICES ASSUME IInv, NEW b \in Backends PROVE opens[b] <= 1
    BY DEF RegistryUnique
  <2>1. opens[b] = IF qh[b] = "none" THEN 0 ELSE 1
    BY DEF IInv, Registry
  <2>2. QED
    BY <2>1
<1>2. QED
  BY <1>1, InitIInv, NextIInv, PTL DEF Spec
=============================================================================
