------------------------------- MODULE Bridge -------------------------------
(***************************************************************************)
(* The request/reply protocol between Postgres backends and the Peloton   *)
(* process (src/src/postgres/backend/postmaster/peloton.cpp).              *)
(*                                                                         *)
(* A backend allocates a Peloton_Status in shared memory, sends a DML, DDL *)
(* or bootstrap datagram on the self-connected UDP socket and blocks on    *)
(* its POSIX reply queue.  The Peloton main loop recv()s every datagram    *)
(* into ONE stack buffer `msg` and hands the scheduler a pointer to that   *)
(* buffer; a worker thread runs the handler, which reads the message       *)
(* fields through the pointer when it needs them, writes the status and    *)
(* replies through the backend_queue_map cache guarded by a mutex.         *)
(*                                                                         *)
(* Data is abstracted: a datagram carries its kind, the requesting         *)
(* backend, the status slot it points to and whether its payload pointer  *)
(* (plan, parse tree, raw database) is non-NULL.  The request number in    *)
(* `req` is a history tag, not a wire field.                               *)
(***************************************************************************)
EXTENDS Naturals, Sequences

CONSTANTS
    Backends,      \* backend ids (BackendId) issuing requests
    Slots,         \* shared-memory cells a Peloton_Status can occupy
    Workers,       \* scheduler worker threads
    MaxReq,        \* requests each backend issues (bound)
    ChanCap,       \* datagrams the UDP socket buffer holds before drops
    NullPayloads,  \* can a request carry a NULL plan/parse tree/database?
    CollabMayFail, \* can the plan executor / DDL / bootstrap code throw?
    MqMayFail,     \* can open_mq of a backend's reply queue fail?
    InitMayFail,   \* can peloton_init fail to set up the socket?
    None           \* no value: empty buffer, free slot pointer, idle worker

ASSUME BridgeAssumption ==
    /\ MaxReq \in Nat \ {0}
    /\ ChanCap \in Nat \ {0}
    /\ Backends # {} /\ Slots # {} /\ Workers # {}
    /\ {NullPayloads, CollabMayFail, MqMayFail, InitMayFail} \subseteq BOOLEAN
    /\ None \notin Backends \cup Slots
    /\ "free" \notin Workers
Kinds   == {"DML", "DDL", "BOOT"}
Results == {"INVALID", "SUCCESS", "FAILURE"}
Reqs    == Backends \X (1..MaxReq)
Datagrams == [kind : Kinds, req : Reqs, slot : Slots, payload : BOOLEAN]
Tasks   == [h : Kinds, req : Reqs]
WPcs    == {"idle", "start", "fail", "exec", "finish", "reply", "lookup",
            "open", "send"}
Handles == {"none", "ok", "bad"}
Payloads == IF NullPayloads THEN BOOLEAN ELSE {TRUE}

VARIABLES
    sock,     \* pelotonSock is valid (peloton_init succeeded)
    rpc,      \* backend b: "idle" | "created" | "sent" | "done"
    nreq,     \* number of requests backend b has started
    rslot,    \* the status slot of b's current request
    alloc,    \* status slots currently allocated (SHMAlloc'ed, not pfree'd)
    res,      \* m_result of each status slot
    chan,     \* datagrams queued on the UDP socket
    buf,      \* the main loop's receive buffer `msg`
    sched,    \* scheduler task queue: handler kind (+ history tag)
    wpc,      \* worker program counter
    wtask,    \* task a worker runs
    wplan,    \* handler local `plan`/`parsetree`/`raw_database` is non-NULL
    wsrc,     \* history: request whose payload the handler read at start
    wdst,     \* backend id being replied to
    wret,     \* where a worker resumes after peloton_reply_to_backend
    whandle,  \* mqd the worker obtained from the queue map
    lock,     \* holder of backend_queue_map_mutex, or "free"
    qh,       \* backend_queue_map: cached mqd per backend ("none" = absent)
    mq,       \* notifications pending in each backend's reply queue
    alive,    \* the Peloton process is running
    opens,    \* history: open_mq calls per backend
    execd,    \* history: collaborator executions of each request's payload
    nsent,    \* history: replies sent while the request sat in `msg`
    obs       \* history: m_result the backend read for each request

reqVars  == <<rpc, nreq, rslot, alloc, obs>>
wVars    == <<wpc, wtask, wplan, wsrc, wdst, wret, whandle>>
vars == <<sock, rpc, nreq, rslot, alloc, res, chan, buf, sched, wpc, wtask,
          wplan, wsrc, wdst, wret, whandle, lock, qh, mq, alive, opens,
          execd, nsent, obs>>

Init ==
    /\ sock \in IF InitMayFail THEN BOOLEAN ELSE {TRUE}
    /\ rpc = [b \in Backends |-> "idle"]
    /\ nreq = [b \in Backends |-> 0]
    /\ rslot = [b \in Backends |-> None]
    /\ alloc = {}
    /\ res = [s \in Slots |-> "INVALID"]
    /\ chan = <<>>
    /\ buf = None
    /\ sched = <<>>
    /\ wpc = [w \in Workers |-> "idle"]
    /\ wtask = [w \in Workers |-> None]
    /\ wplan = [w \in Workers |-> FALSE]
    /\ wsrc = [w \in Workers |-> None]
    /\ wdst = [w \in Workers |-> None]
    /\ wret = [w \in Workers |-> "idle"]
    /\ whandle = [w \in Workers |-> "none"]
    /\ lock = "free"
    /\ qh = [b \in Backends |-> "none"]
    /\ mq = [b \in Backends |-> 0]
    /\ alive = TRUE
    /\ opens = [b \in Backends |-> 0]
    /\ execd = [r \in Reqs |-> 0]
    /\ nsent = [r \in Reqs |-> 0]
    /\ obs = [r \in Reqs |-> "none"]
-----------------------------------------------------------------------------
(***************************************************************************)
(* Backend side.                                                           *)
(***************************************************************************)

\* peloton_create_status: SHMAlloc a slot and reset m_result to INVALID.
CreateStatus(b) ==
    /\ rpc[b] = "idle" /\ nreq[b] < MaxReq
    /\ \E s \in Slots \ alloc :
         /\ alloc' = alloc \cup {s}
         /\ res' = [res EXCEPT ![s] = "INVALID"]
         /\ rslot' = [rslot EXCEPT ![b] = s]
    /\ nreq' = [nreq EXCEPT ![b] = @ + 1]
    /\ rpc' = [rpc EXCEPT ![b] = "created"]
    /\ UNCHANGED <<sock, chan, buf, sched, wVars, lock, qh, mq, alive, opens,
                   execd, nsent, obs>>

\* peloton_send_dml / _ddl / _bootstrap and peloton_send: a no-op when the
\* socket is invalid; a non-blocking send whose failure (a full socket
\* buffer) is ignored.  The caller goes on to wait for the reply either way.
SendRequest(b, k, p) ==
    LET d == [kind |-> k, req |-> <<b, nreq[b]>>, slot |-> rslot[b], payload |-> p]
    IN /\ rpc[b] = "created"
       /\ rpc' = [rpc EXCEPT ![b] = "sent"]
       /\ chan' = IF sock /\ Len(chan) < ChanCap THEN Append(chan, d) ELSE chan
       /\ UNCHANGED <<sock, nreq, rslot, alloc, res, buf, sched, wVars, lock,
                      qh, mq, alive, opens, execd, nsent, obs>>

\* Mutant: the status is read without waiting for the reply.
ProcessStatusNoWait(b) ==
    /\ rpc[b] = "sent"
    /\ mq' = [mq EXCEPT ![b] = @ - 1]
    /\ obs' = [obs EXCEPT ![<<b, nreq[b]>>] = res[rslot[b]]]
    /\ rpc' = [rpc EXCEPT ![b] = IF res[rslot[b]] = "SUCCESS" THEN "done" ELSE "idle"]
    /\ UNCHANGED <<sock, nreq, rslot, alloc, res, chan, buf, sched, wVars,
                   lock, qh, alive, opens, execd, nsent>>

\* peloton_process_status: wait_for_message on the backend's queue, then
\* read m_result.  SUCCESS returns to the caller, which frees the status;
\* anything else is ereport(ERROR), which longjmps past the caller's
\* peloton_destroy_status, so the slot stays allocated.
ProcessStatus(b) ==
    /\ rpc[b] = "sent" /\ mq[b] > 0
    /\ mq' = [mq EXCEPT ![b] = @ - 1]
    /\ obs' = [obs EXCEPT ![<<b, nreq[b]>>] = res[rslot[b]]]
    /\ rpc' = [rpc EXCEPT ![b] = IF res[rslot[b]] = "SUCCESS" THEN "done" ELSE "idle"]
    /\ UNCHANGED <<sock, nreq, rslot, alloc, res, chan, buf, sched, wVars,
                   lock, qh, alive, opens, execd, nsent>>

\* peloton_destroy_status: pfree the slot.
DestroyStatus(b) ==
    /\ rpc[b] = "done"
    /\ alloc' = alloc \ {rslot[b]}
    /\ rpc' = [rpc EXCEPT ![b] = "idle"]
    /\ UNCHANGED <<sock, nreq, rslot, res, chan, buf, sched, wVars, lock, qh,
                   mq, alive, opens, execd, nsent, obs>>
-----------------------------------------------------------------------------
(***************************************************************************)
(* Peloton side.                                                           *)
(***************************************************************************)

\* peloton_MainLoop, inner loop: recv() into `msg`; both length checks pass
\* for every datagram peloton_send stamps; dispatch by m_type to the
\* scheduler with a pointer to `msg` itself.
MainLoopRecv ==
    /\ alive /\ chan # <<>>
    /\ buf' = Head(chan)
    /\ chan' = Tail(chan)
    /\ sched' = Append(sched, [h |-> Head(chan).kind, req |-> Head(chan).req])
    /\ UNCHANGED <<sock, reqVars, res, wVars, lock, qh, mq, alive, opens,
                   execd, nsent>>

\* A free scheduler thread picks up the next task.
WorkerTake(w) ==
    /\ alive /\ wpc[w] = "idle" /\ sched # <<>>
    /\ wtask' = [wtask EXCEPT ![w] = Head(sched)]
    /\ sched' = Tail(sched)
    /\ wpc' = [wpc EXCEPT ![w] = "start"]
    /\ UNCHANGED <<sock, reqVars, res, chan, buf, wplan, wsrc, wdst, wret,
                   whandle, lock, qh, mq, alive, opens, execd, nsent>>

\* Handler entry: copy the payload pointer out of `msg` into a local and
\* test it for NULL (peloton_process_dml/ddl/bootstrap).
HandlerStart(w) ==
    /\ alive /\ wpc[w] = "start"
    /\ wplan' = [wplan EXCEPT ![w] = buf.payload]
    /\ wsrc' = [wsrc EXCEPT ![w] = buf.req]
    /\ wpc' = [wpc EXCEPT ![w] = IF buf.payload THEN "exec" ELSE "fail"]
    /\ UNCHANGED <<sock, reqVars, res, chan, buf, sched, wtask, wdst, wret,
                   whandle, lock, qh, mq, alive, opens, execd, nsent>>

\* Call peloton_reply_to_backend(msg->m_hdr.m_backend_id): a read of `msg`
\* of its own, after the status write, so a recv() may land in between.
\* The worker resumes at wret afterwards.
CallReply(w) ==
    /\ alive /\ wpc[w] = "reply"
    /\ wdst' = [wdst EXCEPT ![w] = buf.req[1]]
    /\ nsent' = [nsent EXCEPT ![buf.req] = @ + 1]
    /\ wpc' = [wpc EXCEPT ![w] = "lookup"]
    /\ UNCHANGED <<sock, reqVars, res, chan, buf, sched, wtask, wplan, wsrc,
                   wret, whandle, lock, qh, mq, alive, opens, execd>>

\* NULL payload: m_result = FAILURE and reply -- then fall through, as the
\* code has no return: DML and DDL go on to the collaborator, bootstrap to
\* the final status write.
HandlerFail(w) ==
    /\ alive /\ wpc[w] = "fail"
    /\ res' = [res EXCEPT ![buf.slot] = "FAILURE"]
    /\ wret' = [wret EXCEPT ![w] = IF wtask[w].h = "BOOT" THEN "finish" ELSE "exec"]
    /\ wpc' = [wpc EXCEPT ![w] = "reply"]
    /\ UNCHANGED <<sock, reqVars, chan, buf, sched, wtask, wplan, wsrc, wdst,
                   whandle, lock, qh, mq, alive, opens, execd, nsent>>

\* The collaborator runs on the payload read at entry, with the status
\* pointer read from `msg` now.  The plan executor sets m_result itself;
\* for DDL and bootstrap the handler sets it afterwards.
HandlerExec(w) ==
    /\ alive /\ wpc[w] = "exec" /\ wplan[w]
    /\ execd' = [execd EXCEPT ![wsrc[w]] = @ + 1]
    /\ res' = IF wtask[w].h = "DML" THEN [res EXCEPT ![buf.slot] = "SUCCESS"]
                                    ELSE res
    /\ wpc' = [wpc EXCEPT ![w] = "finish"]
    /\ UNCHANGED <<sock, reqVars, chan, buf, sched, wtask, wplan, wsrc, wdst,
                   wret, whandle, lock, qh, mq, alive, opens, nsent>>

\* ExecutePlan / ProcessUtility called with the NULL payload returns.
HandlerExecNull(w) ==
    /\ alive /\ wpc[w] = "exec" /\ ~wplan[w]
    /\ wpc' = [wpc EXCEPT ![w] = "finish"]
    /\ UNCHANGED <<sock, reqVars, res, chan, buf, sched, wtask, wplan, wsrc,
                   wdst, wret, whandle, lock, qh, mq, alive, opens, execd,
                   nsent>>

\* The collaborator throws (or dereferences the NULL payload): the catch
\* block's elog(ERROR) longjmps out of the worker thread to PelotonMain's
\* sigsetjmp, which calls proc_exit -- the whole Peloton process is gone.
HandlerFault(w) ==
    /\ alive /\ wpc[w] = "exec" /\ (CollabMayFail \/ ~wplan[w])
    /\ alive' = FALSE
    /\ UNCHANGED <<sock, reqVars, res, chan, buf, sched, wVars, lock, qh, mq,
                   opens, execd, nsent>>

\* End of the handler: DDL and bootstrap set m_result = SUCCESS
\* unconditionally; every kind replies.
HandlerFinish(w) ==
    /\ alive /\ wpc[w] = "finish"
    /\ res' = IF wtask[w].h = "DML" THEN res
                                    ELSE [res EXCEPT ![buf.slot] = "SUCCESS"]
    /\ wret' = [wret EXCEPT ![w] = "idle"]
    /\ wpc' = [wpc EXCEPT ![w] = "reply"]
    /\ UNCHANGED <<sock, reqVars, chan, buf, sched, wtask, wplan, wsrc, wdst,
                   whandle, lock, qh, mq, alive, opens, execd, nsent>>

\* peloton_reply_to_backend, under backend_queue_map_mutex: a cached mqd is
\* taken and the lock released.
RegistryHit(w) ==
    /\ alive /\ wpc[w] = "lookup" /\ lock = "free"
    /\ qh[wdst[w]] # "none"
    /\ whandle' = [whandle EXCEPT ![w] = qh[wdst[w]]]
    /\ wpc' = [wpc EXCEPT ![w] = "send"]
    /\ UNCHANGED <<sock, reqVars, res, chan, buf, sched, wtask, wplan, wsrc,
                   wdst, wret, lock, qh, mq, alive, opens, execd, nsent>>

\* Mutant: the lookup-or-insert done outside backend_queue_map_mutex.
RegistryMissUnlocked(w) ==
    /\ alive /\ wpc[w] = "lookup"
    /\ qh[wdst[w]] = "none"
    /\ wpc' = [wpc EXCEPT ![w] = "open"]
    /\ UNCHANGED <<sock, reqVars, res, chan, buf, sched, wtask, wplan, wsrc,
                   wdst, wret, lock, whandle, qh, mq, alive, opens, execd, nsent>>

\* ... no cached mqd: keep the lock and open the queue.
RegistryMiss(w) ==
    /\ alive /\ wpc[w] = "lookup" /\ lock = "free"
    /\ qh[wdst[w]] = "none"
    /\ lock' = w
    /\ wpc' = [wpc EXCEPT ![w] = "open"]
    /\ UNCHANGED <<sock, reqVars, res, chan, buf, sched, wtask, wplan, wsrc,
                   wdst, wret, whandle, qh, mq, alive, opens, execd, nsent>>

\* Mutant: the opened mqd is used but never stored in backend_queue_map.
RegistryOpenNoCache(w) ==
    /\ alive /\ wpc[w] = "open"
    /\ \E h \in IF MqMayFail THEN {"ok", "bad"} ELSE {"ok"} :
         whandle' = [whandle EXCEPT ![w] = h]
    /\ opens' = [opens EXCEPT ![wdst[w]] = @ + 1]
    /\ lock' = "free"
    /\ wpc' = [wpc EXCEPT ![w] = "send"]
    /\ UNCHANGED <<sock, reqVars, res, chan, buf, sched, wtask, wplan, wsrc,
                   wdst, wret, qh, mq, alive, execd, nsent>>

\* open_mq(get_mq_name(id)), cache the result (even a failed -1), unlock.
RegistryOpen(w) ==
    /\ alive /\ wpc[w] = "open"
    /\ \E h \in IF MqMayFail THEN {"ok", "bad"} ELSE {"ok"} :
         /\ qh' = [qh EXCEPT ![wdst[w]] = h]
         /\ whandle' = [whandle EXCEPT ![w] = h]
    /\ opens' = [opens EXCEPT ![wdst[w]] = @ + 1]
    /\ lock' = "free"
    /\ wpc' = [wpc EXCEPT ![w] = "send"]
    /\ UNCHANGED <<sock, reqVars, res, chan, buf, sched, wtask, wplan, wsrc,
                   wdst, wret, mq, alive, execd, nsent>>

\* send_message(mqd, "test_msg") outside the lock; a bad mqd loses it.
ReplySend(w) ==
    /\ alive /\ wpc[w] = "send"
    /\ mq' = IF whandle[w] = "ok" THEN [mq EXCEPT ![wdst[w]] = @ + 1] ELSE mq
    /\ wpc' = [wpc EXCEPT ![w] = wret[w]]
    /\ UNCHANGED <<sock, reqVars, res, chan, buf, sched, wtask, wplan, wsrc,
                   wdst, wret, whandle, lock, qh, alive, opens, execd, nsent>>
-----------------------------------------------------------------------------
BackendStep(b) ==
    \/ CreateStatus(b)
    \/ \E k \in Kinds, p \in Payloads : SendRequest(b, k, p)
    \/ ProcessStatus(b)
    \/ DestroyStatus(b)

WorkerStep(w) ==
    \/ WorkerTake(w) \/ HandlerStart(w) \/ HandlerFail(w)
    \/ HandlerExec(w) \/ HandlerExecNull(w) \/ HandlerFault(w)
    \/ HandlerFinish(w) \/ CallReply(w) \/ RegistryHit(w) \/ RegistryMiss(w)
    \/ RegistryOpen(w) \/ ReplySend(w)

Next ==
    \/ \E b \in Backends : BackendStep(b)
    \/ MainLoopRecv
    \/ \E w \in Workers : WorkerStep(w)

\* Threads and processes are scheduled by the OS: a step that stays enabled
\* is taken.  A backend may stop issuing requests, so CreateStatus is not
\* fair; once it has a status it sends, waits and frees.
Fairness ==
    /\ WF_vars(MainLoopRecv)
    /\ \A w \in Workers : WF_vars(WorkerStep(w))
    /\ \A b \in Backends : WF_vars(\E k \in Kinds, p \in Payloads : SendRequest(b, k, p))
    /\ \A b \in Backends : WF_vars(ProcessStatus(b))
    /\ \A b \in Backends : WF_vars(DestroyStatus(b))

Spec == Init /\ [][Next]_vars /\ Fairness
-----------------------------------------------------------------------------
TypeOK ==
    /\ sock \in BOOLEAN /\ alive \in BOOLEAN
    /\ rpc \in [Backends -> {"idle", "created", "sent", "done"}]
    /\ nreq \in [Backends -> 0..MaxReq]
    /\ rslot \in [Backends -> Slots \cup {None}]
    /\ alloc \subseteq Slots
    /\ res \in [Slots -> Results]
    /\ chan \in Seq(Datagrams) /\ Len(chan) <= ChanCap
    /\ buf \in Datagrams \cup {None}
    /\ sched \in Seq(Tasks)
    /\ wpc \in [Workers -> WPcs]
    /\ wtask \in [Workers -> Tasks \cup {None}]
    /\ wplan \in [Workers -> BOOLEAN]
    /\ wsrc \in [Workers -> Reqs \cup {None}]
    /\ wdst \in [Workers -> Backends \cup {None}]
    /\ wret \in [Workers -> {"idle", "exec", "finish"}]
    /\ whandle \in [Workers -> Handles]
    /\ lock \in Workers \cup {"free"}
    /\ qh \in [Backends -> Handles]
    /\ mq \in [Backends -> Nat]
    /\ opens \in [Backends -> Nat]
    /\ execd \in [Reqs -> Nat]
    /\ nsent \in [Reqs -> Nat]
    /\ obs \in [Reqs -> Results \cup {"none"}]

\* The reply-queue cache opens each backend's queue at most once, however
\* the workers replying to it interleave (backend_queue_map_mutex).
RegistryUnique == \A b \in Backends : opens[b] <= 1

\* The scheduler runs each request's handler at most once, so no request's
\* plan, DDL statement or bootstrap is carried out twice (spec 4.3).
AtMostOnceExecution == \A r \in Reqs : execd[r] <= 1

\* A status result, once set by Peloton, never changes while the status is
\* allocated: m_result is written exactly once per request (spec 3).
ResultStable ==
    [][\A s \in alloc \cap alloc' :
          res[s] # "INVALID" => res'[s] = res[s]]_vars

\* A backend woken by its reply queue never reads a status Peloton has not
\* yet filled in (the reply follows the status write, spec 5).
NoSpuriousFailure == \A r \in Reqs : obs[r] # "INVALID"

\* Every allocated status belongs to a backend that will still free it:
\* peloton_process_status's ereport(ERROR) on a FAILURE or INVALID result
\* must not strand the status in shared memory (spec 3: the requester
\* frees every status it allocated).
StatusesOwned ==
    \A s \in alloc : \E b \in Backends : rslot[b] = s /\ rpc[b] # "idle"

\* The backend whose request is waiting on status slot s.
Waiting(s) == \E b \in Backends : rpc[b] = "sent" /\ rslot[b] = s

\* A handler writes m_result only into the status of a request that is
\* still waiting for it: never into a status its requester has already
\* read and freed, nor into one that was freed and handed to a later
\* request (spec 7: no cross-talk between requesters).  The one other
\* write is peloton_create_status initialising a fresh slot.
WritesReachWaiter ==
    [][\A s \in Slots :
          res'[s] # res[s] => (s \notin alloc /\ s \in alloc') \/ Waiting(s)]_vars

\* Every backend waiting in peloton_process_status is eventually woken.
RequestsAnswered == \A b \in Backends : rpc[b] = "sent" ~> rpc[b] # "sent"

\* The queue cache and the reply queues, seen from the backends.
AbsRegistry == INSTANCE ReplyRegistry WITH cache <- qh

\* peloton_reply_to_backend with peloton_process_status implements the
\* reply registry: each backend's queue is opened once, on the first reply,
\* and its outcome kept; a reply notifies the backend exactly when the kept
\* mqd is usable (so after a failed open_mq every later reply is lost too).
RegistryRefinement == AbsRegistry!Spec
=============================================================================
