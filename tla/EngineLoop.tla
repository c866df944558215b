----------------------------- MODULE EngineLoop -----------------------------
(***************************************************************************)
(* The control of peloton_MainLoop and the signal handlers that drive it   *)
(* (src/src/postgres/backend/postmaster/peloton.cpp).                      *)
(*                                                                         *)
(* The loop clears the process latch, quits if need_exit is set, then      *)
(* recv()s without blocking for as long as datagrams are queued, serving   *)
(* got_SIGHUP once per iteration, and finally sleeps in                    *)
(* WaitLatchOrSocket until the latch is set, the socket is readable or the *)
(* postmaster dies.  Signal handlers set a flag and then the latch; they  *)
(* run between any two steps of the loop.  Datagrams are counted, not     *)
(* inspected: what a dispatched message does is the business of Bridge.   *)
(***************************************************************************)
EXTENDS Naturals

CONSTANTS
    MaxMsgs,   \* datagrams that arrive during a behaviour (bound)
    SockCap    \* datagrams the socket buffer holds; later ones are dropped

ASSUME EngineLoopAssumption ==
    /\ MaxMsgs \in Nat
    /\ SockCap \in Nat \ {0}

Pcs == {"reset", "check", "inner", "wait", "exit", "dead"}

VARIABLES
    pc,        \* where peloton_MainLoop is
    latch,     \* MyLatch is set
    needExit,  \* need_exit (SIGTERM, SIGUSR1)
    gotHup,    \* got_SIGHUP
    pmDead,    \* the postmaster has died
    pending,   \* datagrams queued on pelotonSock
    arrived,   \* history: datagrams sent to the socket so far
    recvd      \* history: datagrams the loop has received and dispatched

vars == <<pc, latch, needExit, gotHup, pmDead, pending, arrived, recvd>>

Init ==
    /\ pc = "reset"
    /\ latch = FALSE
    /\ needExit = FALSE /\ gotHup = FALSE /\ pmDead = FALSE
    /\ pending = 0 /\ arrived = 0 /\ recvd = 0
-----------------------------------------------------------------------------
(***************************************************************************)
(* The main loop.                                                          *)
(***************************************************************************)

\* Outer loop head: ResetLatch(MyLatch).
ResetLatch ==
    /\ pc = "reset"
    /\ latch' = FALSE
    /\ pc' = "check"
    /\ UNCHANGED <<needExit, gotHup, pmDead, pending, arrived, recvd>>

\* if (need_exit) break;  otherwise enter the inner loop.
CheckExit ==
    /\ pc = "check"
    /\ pc' = IF needExit THEN "exit" ELSE "inner"
    /\ UNCHANGED <<latch, needExit, gotHup, pmDead, pending, arrived, recvd>>

\* Inner loop condition false: go to sleep.
InnerDone ==
    /\ pc = "inner" /\ needExit
    /\ pc' = "wait"
    /\ UNCHANGED <<latch, needExit, gotHup, pmDead, pending, arrived, recvd>>

\* Mutant: got_SIGHUP tested but never cleared.
InnerRecvKeepHup ==
    /\ pc = "inner" /\ ~needExit
    /\ UNCHANGED gotHup
    /\ \/ /\ pending > 0
          /\ pending' = pending - 1
          /\ recvd' = recvd + 1
          /\ UNCHANGED pc
       \/ /\ pending = 0
          /\ pc' = "wait"
          /\ UNCHANGED <<pending, recvd>>
    /\ UNCHANGED <<latch, needExit, pmDead, arrived>>

\* One inner iteration: serve got_SIGHUP (clear it, ProcessConfigFile), then recv().  A datagram is taken
\* and dispatched (the loop continues); EAGAIN breaks out to the wait.
InnerRecv ==
    /\ pc = "inner" /\ ~needExit
    /\ gotHup' = FALSE
    /\ \/ /\ pending > 0
          /\ pending' = pending - 1
          /\ recvd' = recvd + 1
          /\ UNCHANGED pc
       \/ /\ pending = 0
          /\ pc' = "wait"
          /\ UNCHANGED <<pending, recvd>>
    /\ UNCHANGED <<latch, needExit, pmDead, arrived>>

\* recv() fails with an errno other than EAGAIN/EWOULDBLOCK/EINTR (on a
\* connected UDP socket, e.g. a queued ECONNREFUSED): ereport(ERROR)
\* longjmps to PelotonMain, which calls proc_exit.
InnerRecvError ==
    /\ pc = "inner" /\ ~needExit
    /\ pc' = "dead"
    /\ UNCHANGED <<latch, needExit, gotHup, pmDead, pending, arrived, recvd>>

\* Mutant: the wait without WL_LATCH_SET.
WaitWakeNoLatch ==
    /\ pc = "wait"
    /\ pending > 0 \/ pmDead
    /\ pc' = IF pmDead THEN "exit" ELSE "reset"
    /\ UNCHANGED <<latch, needExit, gotHup, pmDead, pending, arrived, recvd>>

\* Mutant: WL_POSTMASTER_DEATH requested but its result not tested.
WaitWakeIgnoreDeath ==
    /\ pc = "wait"
    /\ latch \/ pending > 0 \/ pmDead
    /\ pc' = "reset"
    /\ UNCHANGED <<latch, needExit, gotHup, pmDead, pending, arrived, recvd>>

\* Mutant: the wait without WL_SOCKET_READABLE.
WaitWakeNoSocket ==
    /\ pc = "wait"
    /\ latch \/ pmDead
    /\ pc' = IF pmDead THEN "exit" ELSE "reset"
    /\ UNCHANGED <<latch, needExit, gotHup, pmDead, pending, arrived, recvd>>

\* WaitLatchOrSocket(WL_LATCH_SET | WL_POSTMASTER_DEATH | WL_SOCKET_READABLE)
\* blocks until one holds; postmaster death ends the loop.
WaitWake ==
    /\ pc = "wait"
    /\ latch \/ pending > 0 \/ pmDead
    /\ pc' = IF pmDead THEN "exit" ELSE "reset"
    /\ UNCHANGED <<latch, needExit, gotHup, pmDead, pending, arrived, recvd>>
-----------------------------------------------------------------------------
(***************************************************************************)
(* The environment: signal handlers, the postmaster, the backends.        *)
(***************************************************************************)

Running == pc \notin {"exit", "dead"}

\* peloton_sighup_handler: got_SIGHUP = true; SetLatch.
SigHup ==
    /\ Running
    /\ gotHup' = TRUE /\ latch' = TRUE
    /\ UNCHANGED <<pc, needExit, pmDead, pending, arrived, recvd>>

\* Mutant: the SIGTERM handler sets need_exit but not the latch.
SigTermNoLatch ==
    /\ Running
    /\ needExit' = TRUE
    /\ UNCHANGED <<pc, latch, gotHup, pmDead, pending, arrived, recvd>>

\* peloton_sigterm_handler / peloton_sigusr2_handler: need_exit; SetLatch.
SigTerm ==
    /\ Running
    /\ needExit' = TRUE /\ latch' = TRUE
    /\ UNCHANGED <<pc, gotHup, pmDead, pending, arrived, recvd>>

\* The postmaster dies; the loop learns of it only in WaitLatchOrSocket.
PostmasterDeath ==
    /\ Running /\ ~pmDead
    /\ pmDead' = TRUE
    /\ UNCHANGED <<pc, latch, needExit, gotHup, pending, arrived, recvd>>

\* Mutant: the socket buffer never fills.
ArriveUnbounded ==
    /\ arrived < MaxMsgs
    /\ arrived' = arrived + 1
    /\ pending' = pending + 1
    /\ UNCHANGED <<pc, latch, needExit, gotHup, pmDead, recvd>>

\* A backend's peloton_send; the datagram is dropped if the buffer is full.
Arrive ==
    /\ arrived < MaxMsgs
    /\ arrived' = arrived + 1
    /\ pending' = IF pending < SockCap THEN pending + 1 ELSE pending
    /\ UNCHANGED <<pc, latch, needExit, gotHup, pmDead, recvd>>

Loop == ResetLatch \/ CheckExit \/ InnerDone \/ InnerRecv \/ InnerRecvError \/ WaitWake

Next == Loop \/ SigHup \/ SigTerm \/ PostmasterDeath \/ Arrive

\* The main loop is one process the OS keeps scheduling.  Signals, the
\* postmaster and backends are the environment and owe it nothing; a recv
\* error is possible, never forced.
Fairness == WF_vars(ResetLatch \/ CheckExit \/ InnerDone \/ InnerRecv \/ WaitWake)

Spec == Init /\ [][Next]_vars /\ Fairness
-----------------------------------------------------------------------------
TypeOK ==
    /\ pc \in Pcs
    /\ latch \in BOOLEAN /\ needExit \in BOOLEAN
    /\ gotHup \in BOOLEAN /\ pmDead \in BOOLEAN
    /\ pending \in 0..SockCap
    /\ arrived \in 0..MaxMsgs
    /\ recvd \in 0..MaxMsgs

\* The loop never goes to sleep in WaitLatchOrSocket while a shutdown or a
\* configuration reload it has not served is pending without the latch
\* being set: a signal that arrives during the inner loop is not lost,
\* because ResetLatch runs only before need_exit is tested.
NoLostWakeup ==
    /\ pc = "wait" /\ (needExit \/ gotHup) => latch
    /\ pc = "inner" /\ needExit => latch

\* SIGTERM (or SIGUSR1) is eventually obeyed: the loop exits, unless it
\* has died of a recv error first.
ExitHonoured == needExit ~> ~Running

\* Postmaster death is eventually noticed once backends stop sending.
DeathNoticed == pmDead ~> ~Running

\* A SIGHUP is eventually served by ProcessConfigFile, or the loop ends.
HupServiced == gotHup ~> (~gotHup \/ ~Running)

\* Every datagram the socket keeps is eventually received and dispatched,
\* unless the loop ends: the loop never sleeps with the socket readable.
DatagramsDrained == pending > 0 ~> (pending = 0 \/ ~Running)
=============================================================================
