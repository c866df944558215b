-------------------------- MODULE EngineLoopProofs --------------------------
(***************************************************************************)
(* Proofs about EngineLoop for every value of MaxMsgs and SockCap.         *)
(*                                                                         *)
(* NoLostWakeup is inductive once TypeOK holds; TypeOK itself needs the   *)
(* counting fact that received plus queued datagrams never exceed the     *)
(* datagrams that arrived, which bounds `recvd` by MaxMsgs.                *)
(***************************************************************************)
EXTENDS EngineLoop, TLAPS

\* Received and still-queued datagrams are datagrams that arrived.
Counted == recvd + pending <= arrived

IInv == TypeOK /\ Counted /\ NoLostWakeup

\* The initial state satisfies the inductive invariant.
LEMMA InitIInv == Init => IInv
<1> SUFFICES ASSUME Init PROVE IInv
  OBVIOUS
<1>1. TypeOK
  <2>1. pc \in Pcs
    BY DEF Init, Pcs
  <2>2. latch \in BOOLEAN /\ needExit \in BOOLEAN /\ gotHup \in BOOLEAN
        /\ pmDead \in BOOLEAN
    BY Zenon DEF Init
  <2>3. pending \in 0..SockCap /\ arrived \in 0..MaxMsgs /\ recvd \in 0..MaxMsgs
    BY EngineLoopAssumption DEF Init
  <2>4. QED
    BY <2>1, <2>2, <2>3 DEF TypeOK
<1>2. Counted
  BY DEF Init, Counted
<1>3. NoLostWakeup
  BY DEF Init, NoLostWakeup
<1>4. QED
  BY <1>1, <1>2, <1>3 DEF IInv

\* Every step of the loop or of its environment preserves the invariant.
\* The proof goes part by part of the invariant: SMT handles the program
\* counter and the counters, Zenon the Boolean flags.
LEMMA NextIInv == IInv /\ [Next]_vars => IInv'
<1> SUFFICES ASSUME IInv, [Next]_vars PROVE IInv'
  OBVIOUS
<1> USE DEF IInv, TypeOK
<1>1. pc' \in Pcs
  BY DEF Next, Loop, vars, ResetLatch, CheckExit, InnerDone, InnerRecv,
         InnerRecvError, WaitWake, SigHup, SigTerm, PostmasterDeath, Arrive, Pcs
<1>2. latch' \in BOOLEAN /\ needExit' \in BOOLEAN /\ gotHup' \in BOOLEAN
      /\ pmDead' \in BOOLEAN
  BY Zenon DEF Next, Loop, vars, ResetLatch, CheckExit, InnerDone, InnerRecv,
         InnerRecvError, WaitWake, SigHup, SigTerm, PostmasterDeath, Arrive
<1>3. pending' \in 0..SockCap /\ arrived' \in 0..MaxMsgs /\ recvd' \in 0..MaxMsgs
      /\ Counted'
  BY EngineLoopAssumption
     DEF Next, Loop, vars, ResetLatch, CheckExit, InnerDone, InnerRecv,
         InnerRecvError, WaitWake, SigHup, SigTerm, PostmasterDeath, Arrive, Counted
<1>4. NoLostWakeup'
  <2> USE DEF NoLostWakeup
  <2>1. CASE ResetLatch \/ CheckExit \/ InnerRecvError \/ WaitWake
    BY <2>1 DEF ResetLatch, CheckExit, InnerRecvError, WaitWake
  <2>2. CASE InnerDone
    BY <2>2 DEF InnerDone
  <2>3. CASE InnerRecv
    BY <2>3 DEF InnerRecv
  <2>4. CASE SigHup \/ SigTerm
    BY <2>4 DEF SigHup, SigTerm
  <2>5. CASE PostmasterDeath \/ Arrive \/ UNCHANGED vars
    BY <2>5 DEF PostmasterDeath, Arrive, vars
  <2>6. QED
    BY <2>1, <2>2, <2>3, <2>4, <2>5 DEF Next, Loop
<1>5. QED
  BY <1>1, <1>2, <1>3, <1>4

\* The main loop's state is always well typed.
THEOREM TypeCorrect == Spec => []TypeOK
<1>1. IInv => TypeOK
  BY DEF IInv
<1>2. QED
  BY <1>1, InitIInv, NextIInv, PTL DEF Spec

\* peloton_MainLoop never sleeps in WaitLatchOrSocket with an unserved
\* SIGTERM or SIGHUP and the latch clear, for every bound on the traffic.
THEOREM NoLostWakeupHolds == Spec => []NoLostWakeup
<1>1. IInv => NoLostWakeup
  BY DEF IInv
<1>2. QED
  BY <1>1, InitIInv, NextIInv, PTL DEF Spec
=============================================================================
