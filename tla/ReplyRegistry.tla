--------------------------- MODULE ReplyRegistry ---------------------------
(***************************************************************************)
(* What peloton_reply_to_backend promises, seen from the backends            *)
(* (src/src/postgres/backend/postmaster/peloton.cpp, 941-961), together    *)
(* with the backend's side of the reply queue (wait_for_message in        *)
(* peloton_process_status).                                                 *)
(*                                                                         *)
(* A backend's reply queue is opened once, on the first reply to it, and   *)
(* the outcome -- a usable mqd or a failed one -- is kept for good.  A     *)
(* reply adds a notification to the queue exactly when the kept mqd is     *)
(* usable; the backend takes notifications off one at a time.  Which      *)
(* worker replies, and the lock that makes lookup-or-open one step, are    *)
(* not visible here.                                                       *)
(***************************************************************************)
EXTENDS Naturals

CONSTANTS
    Backends,   \* backend ids
    MqMayFail   \* open_mq may return -1

VARIABLES
    cache,   \* mqd kept for each backend: "none", "ok" or "bad"
    opens,   \* open_mq calls made for each backend
    mq       \* notifications waiting in each backend's queue

vars == <<cache, opens, mq>>

Init ==
    /\ cache = [b \in Backends |-> "none"]
    /\ opens = [b \in Backends |-> 0]
    /\ mq = [b \in Backends |-> 0]

\* The first reply to b opens its queue and keeps the result.
Open(b) ==
    /\ cache[b] = "none"
    /\ \E h \in IF MqMayFail THEN {"ok", "bad"} ELSE {"ok"} :
          cache' = [cache EXCEPT ![b] = h]
    /\ opens' = [opens EXCEPT ![b] = @ + 1]
    /\ UNCHANGED mq

\* A reply through the kept mqd: delivered if it is usable, lost if not.
Notify(b) ==
    /\ cache[b] # "none"
    /\ mq' = IF cache[b] = "ok" THEN [mq EXCEPT ![b] = @ + 1] ELSE mq
    /\ UNCHANGED <<cache, opens>>

\* The backend's wait_for_message returns with one notification.
Consume(b) ==
    /\ mq[b] > 0
    /\ mq' = [mq EXCEPT ![b] = @ - 1]
    /\ UNCHANGED <<cache, opens>>

Next == \E b \in Backends : Open(b) \/ Notify(b) \/ Consume(b)

Spec == Init /\ [][Next]_vars
=============================================================================
