------------------------ MODULE BridgeRefinementProofs ------------------------
(***************************************************************************)
(* Bridge implements ReplyRegistry under the mapping cache <- qh, for     *)
(* every set of backends, slots and workers.                               *)
(*                                                                         *)
(* RegistryOpen is the abstract Open of the worker's backend (Registry in *)
(* BridgeProofs says the lock holder sees no cached mqd), ReplySend is    *)
(* Notify, ProcessStatus is Consume, and every other step leaves the      *)
(* cache, the open count and the queues alone.  ReplySend needs one more  *)
(* invariant, Sending: a worker about to send holds the mqd cached for    *)
(* its backend, because a cached entry is never replaced.                 *)
(***************************************************************************)
EXTENDS BridgeProofs

\* The initial state has no worker sending.
LEMMA InitSending == Init => Sending
  BY DEF Init, Sending

\* Every step keeps Sending.
LEMMA NextSending == IInv /\ Sending /\ [Next]_vars => Sending'
<1> SUFFICES ASSUME IInv, Sending, [Next]_vars PROVE Sending'
  OBVIOUS
<1>0. TypeRest /\ Busy /\ Registry
  BY TypeSplit DEF IInv
<1> USE <1>0 DEF TypeRest, wVars
\* Steps that change no worker's sending state, mqd, target or the cache.
<1>1. CASE \E b \in Backends : BackendStep(b)
  BY <1>1 DEF Sending, BackendStep, CreateStatus, SendRequest,
              ProcessStatus, DestroyStatus
<1>2. CASE MainLoopRecv
  BY <1>2 DEF Sending, MainLoopRecv
\* Steps of a worker that leave it in a state other than "send".
<1>3. ASSUME NEW w \in Workers,
             \/ WorkerTake(w) \/ HandlerStart(w) \/ HandlerExec(w)
             \/ HandlerExecNull(w) \/ HandlerFault(w) \/ RegistryMiss(w)
      PROVE Sending'
  BY <1>3 DEF Sending, WorkerTake, HandlerStart, HandlerExec, HandlerExecNull,
              HandlerFault, RegistryMiss
<1>4. ASSUME NEW w \in Workers, HandlerFail(w) \/ HandlerFinish(w) \/ CallReply(w)
      PROVE Sending'
  BY <1>4 DEF Sending, HandlerFail, HandlerFinish, CallReply
<1>5. ASSUME NEW w \in Workers, ReplySend(w) PROVE Sending'
  <2>1. wpc'[w] # "send"
    BY <1>5 DEF ReplySend
  <2>2. QED
    BY <1>5, <2>1 DEF Sending, ReplySend
<1>6. ASSUME NEW w \in Workers, RegistryHit(w) PROVE Sending'
  BY <1>6 DEF Sending, RegistryHit
\* Opening: only the opener's backend gets an entry, and no sending worker
\* targets that backend, since its entry was empty.
<1>7. ASSUME NEW w \in Workers, RegistryOpen(w) PROVE Sending'
  <2>1. qh[wdst[w]] = "none"
    BY <1>7 DEF RegistryOpen, Registry
  <2>2. \A v \in Workers : wpc[v] = "send" => wdst[v] # wdst[w]
    BY <2>1 DEF Sending
  <2>3. PICK h \in {"ok", "bad"} : /\ qh' = [qh EXCEPT ![wdst[w]] = h]
                                  /\ whandle' = [whandle EXCEPT ![w] = h]
    BY <1>7 DEF RegistryOpen
  <2>4. wdst[w] \in Backends /\ wdst' = wdst /\ wpc'[w] = "send"
    BY <1>7 DEF RegistryOpen, Busy
  <2>5. \A v \in Workers \ {w} : wpc'[v] = wpc[v] /\ whandle'[v] = whandle[v]
    BY <1>7, <2>3 DEF RegistryOpen
  <2>6. QED
    BY <2>2, <2>3, <2>4, <2>5 DEF Sending
<1>8. CASE UNCHANGED vars
  BY <1>8 DEF Sending, vars
<1>9. QED
  BY <1>1, <1>2, <1>3, <1>4, <1>5, <1>6, <1>7, <1>8 DEF Next, WorkerStep

\* The registry starts empty.
LEMMA InitRefines == Init => AbsRegistry!Init
  BY DEF Init, AbsRegistry!Init

\* Every step of the bridge is a registry step or leaves it alone.
LEMMA NextRefines ==
    IInv /\ Sending /\ [Next]_vars => [AbsRegistry!Next]_AbsRegistry!vars
<1> SUFFICES ASSUME IInv, Sending, [Next]_vars
             PROVE [AbsRegistry!Next]_AbsRegistry!vars
  OBVIOUS
<1>0. TypeRest /\ Busy /\ Registry
  BY TypeSplit DEF IInv
<1> USE <1>0 DEF TypeRest, wVars, reqVars
<1>1. ASSUME NEW w \in Workers, RegistryOpen(w)
      PROVE wdst[w] \in Backends /\ AbsRegistry!Open(wdst[w])
  <2>1. wdst[w] \in Backends /\ qh[wdst[w]] = "none"
    BY <1>1 DEF RegistryOpen, Busy, Registry
  <2>2. QED
    BY <1>1, <2>1 DEF RegistryOpen, AbsRegistry!Open
<1>2. ASSUME NEW w \in Workers, ReplySend(w)
      PROVE wdst[w] \in Backends /\ AbsRegistry!Notify(wdst[w])
  <2>1. wdst[w] \in Backends /\ whandle[w] = qh[wdst[w]] /\ qh[wdst[w]] # "none"
    BY <1>2 DEF ReplySend, Busy, Sending
  <2>2. QED
    BY <1>2, <2>1 DEF ReplySend, AbsRegistry!Notify
<1>3. ASSUME NEW b \in Backends, ProcessStatus(b)
      PROVE AbsRegistry!Consume(b)
  BY <1>3 DEF ProcessStatus, AbsRegistry!Consume
\* Every other step leaves qh, opens and mq unchanged.
<1>4. ASSUME NEW b \in Backends,
             CreateStatus(b) \/ (\E k \in Kinds, p \in Payloads : SendRequest(b, k, p))
             \/ DestroyStatus(b)
      PROVE UNCHANGED AbsRegistry!vars
  BY <1>4 DEF CreateStatus, SendRequest, DestroyStatus, AbsRegistry!vars
<1>5. ASSUME NEW w \in Workers,
             \/ WorkerTake(w) \/ HandlerStart(w) \/ HandlerFail(w)
             \/ HandlerExec(w) \/ HandlerExecNull(w) \/ HandlerFault(w)
             \/ HandlerFinish(w) \/ CallReply(w) \/ RegistryHit(w)
             \/ RegistryMiss(w)
      PROVE UNCHANGED AbsRegistry!vars
  BY <1>5 DEF WorkerTake, HandlerStart, HandlerFail, HandlerExec,
              HandlerExecNull, HandlerFault, HandlerFinish, CallReply, RegistryHit,
              RegistryMiss, AbsRegistry!vars
<1>6. CASE MainLoopRecv \/ UNCHANGED vars
  BY <1>6 DEF MainLoopRecv, vars, AbsRegistry!vars
<1>7. QED
  <2>1. CASE \E b \in Backends : BackendStep(b)
    BY <2>1, <1>3, <1>4 DEF BackendStep, AbsRegistry!Next
  <2>2. CASE \E w \in Workers : WorkerStep(w)
    <3>1. PICK w \in Workers : WorkerStep(w)
      BY <2>2
    <3>2. CASE RegistryOpen(w)
      BY <3>2, <1>1 DEF AbsRegistry!Next
    <3>3. CASE ReplySend(w)
      BY <3>3, <1>2 DEF AbsRegistry!Next
    <3>4. CASE ~RegistryOpen(w) /\ ~ReplySend(w)
      BY <3>1, <3>4, <1>5 DEF WorkerStep
    <3>5. QED
      BY <3>2, <3>3, <3>4
  <2>3. QED
    BY <2>1, <2>2, <1>6 DEF Next

\* peloton_reply_to_backend and peloton_process_status implement the reply
\* registry for every configuration: each backend's queue is opened at
\* most once and its outcome kept, and a reply notifies exactly when the
\* kept mqd is usable.
THEOREM RegistryRefined == Spec => RegistryRefinement
<1>1. Init => IInv /\ Sending
  BY InitIInv, InitSending
<1>2. IInv /\ Sending /\ [Next]_vars => (IInv /\ Sending)'
  BY NextIInv, NextSending
<1>3. QED
  BY <1>1, <1>2, InitRefines, NextRefines, PTL DEF Spec, RegistryRefinement, AbsRegistry!Spec
=============================================================================
