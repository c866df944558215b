# TLA+ models of the Peloton backend bridge

This directory holds TLA+ models of the bridge between PostgreSQL backends and
the Peloton engine process in `src/src/postgres/backend/postmaster/peloton.cpp`.
It also holds the TLC configurations that check those models and the TLAPS
proofs about them.

## The system

- **Backends** are PostgreSQL processes. A backend sends a request to Peloton like this:
  1. `peloton_create_status` allocates a `Peloton_Status` in shared memory, with `m_result = RESULT_INVALID`.
  2. `peloton_send_dml`, `_ddl` or `_bootstrap` sends a UDP datagram on `pelotonSock`. The datagram carries the status pointer and a shared-memory payload (a plan, a parse tree or a raw database).
  3. `peloton_process_status` blocks in `wait_for_message` on the backend's POSIX message queue and then reads `m_result`. SUCCESS returns to the caller, which calls `peloton_destroy_status`. Anything else is `ereport(ERROR)`.
- **The Peloton process** runs `peloton_MainLoop`:
  - It clears its latch and checks `need_exit`.
  - It then `recv()`s datagrams without blocking, serving `got_SIGHUP` on every inner iteration. Each datagram goes into one stack buffer `msg`, and a pointer to that buffer is passed to the TBB scheduler.
  - When `recv()` returns EAGAIN, it sleeps in `WaitLatchOrSocket`.
  - The signal handlers set a flag and then the latch.
- **Handlers** (`peloton_process_dml`, `_ddl`, `_bootstrap`) run on scheduler threads:
  - They read the payload out of `msg` and test it for NULL. On NULL they write FAILURE and reply.
  - They call the collaborator (ExecutePlan, ProcessUtility, BootstrapPeloton). DDL and bootstrap then write SUCCESS.
  - They reply through `peloton_reply_to_backend`. That function looks up or opens the backend's queue in `backend_queue_map` under `backend_queue_map_mutex`, then calls `send_message` outside the lock.

## Modules

| Module | Models | State | Actions |
|---|---|---|---|
| `EngineLoop` | `peloton_MainLoop` (412-511), the SIGHUP, SIGTERM and SIGUSR1 handlers (314-342), `peloton_send`'s effect on the socket buffer (791-809) | `pc`, the latch, `need_exit`, `got_SIGHUP`, postmaster death, queued datagrams and two history counters | `ResetLatch`, `CheckExit`, `InnerDone`, `InnerRecv`, `InnerRecvError`, `WaitWake`; environment steps `SigHup`, `SigTerm`, `PostmasterDeath`, `Arrive` |
| `Bridge` | the request protocol end to end: send (818-932), dispatch (438-489), the handlers (971-1095), the reply registry (941-961), create/process/destroy status (1097-1153) | channel, the shared `msg` buffer, the scheduler queue, each worker's program counter and locals, statuses (`res`, `alloc`), queue cache `qh`, per-backend notification counts `mq`, `alive`, and history (`opens`, `execd`, `nsent`, `obs`) | one action per backend step, `MainLoopRecv`, and one per handler step |
| `ReplyRegistry` | what `peloton_reply_to_backend` (941-961) promises together with the backend's `wait_for_message` (1119): an abstract specification | `cache` (mqd kept per backend), `opens`, `mq` | `Open`, `Notify`, `Consume` |
| `PelotonStats` | `peloton_update_stats` (1185-1207), its call from `peloton_process_status` (1125-1131), and `IsPelotonQuery` (1161-1183) | the dirty-table list, `pc`, `tableItr`, `indexItr`, the `SetNumberOfTuples` calls made, `IsPostmasterEnvironment` and the plan's `relationOids` | `Start`, `TableStep`, `TableDone`, `IndexStep`, `IndexDone`; `QueryStart`, `QueryHit`, `QueryMiss`, `QueryEnd` |
| `EngineLoopProofs`, `BridgeProofs`, `BridgeRefinementProofs`, `PelotonStatsProofs` | TLAPS proofs (below) | | |
| `MC_EngineLoop`, `MC_Bridge`, `MC_PelotonStats` | TLC instantiations (model values for backends, slots, workers and oids); `MC_PelotonStats` also cross-checks `Expected` against a `FlattenSeq` definition | | |

### How `Bridge` follows the code

Each handler is split at the points where another thread can observe it:
- `HandlerStart` is the read of the payload pointer and its NULL test.
- `HandlerFail` is the FAILURE write.
- `HandlerExec`, `HandlerExecNull` and `HandlerFault` are the collaborator returning, returning on a NULL input, and throwing.
- `HandlerFinish` is the final SUCCESS write.

- `CallReply` is the call `peloton_reply_to_backend(msg->m_hdr.m_backend_id)` that follows each write. It is a step of its own, because it reads `msg` again: a `recv()` that lands between the status write and the reply redirects the reply to another backend.

 `peloton_reply_to_backend` has one action per step:
- `RegistryHit` is a cached mqd, taken under the lock.
- `RegistryMiss` keeps the lock.
- `RegistryOpen` calls `open_mq`, caches the result (a failed `-1` included) and unlocks.
- `ReplySend` is `send_message` outside the lock.

The data are abstracted:
- A payload is `TRUE` (non-NULL) or `FALSE`.
- A request is `<<backend, n>>`.
- A reply is a unit added to the backend's queue.

Four constants select what the environment may do:
- `NullPayloads`: a NULL payload may be sent.
- `CollabMayFail`: a collaborator may throw.
- `MqMayFail`: `open_mq` may fail.
- `InitMayFail`: `peloton_init` may have disabled the socket.

### `Bridge` refines `ReplyRegistry`

`Bridge` ends with `AbsRegistry == INSTANCE ReplyRegistry WITH cache <- qh`.
The refinement maps the steps like this:
- `RegistryOpen` is `Open` of the worker's backend.
- `ReplySend` is `Notify`.
- `ProcessStatus` is `Consume`.
- Every other step leaves `qh`, `opens` and `mq` alone.

The abstract module says nothing about workers or the mutex. It states what the lock is for: one open per backend, its outcome (a failed `-1` too) kept for good, and a reply delivered exactly when the kept mqd is usable.

### `PelotonStats`

- The two loops of `peloton_update_stats` are steps on `tableItr` and `indexItr`.
- Each step appends its `SetNumberOfTuples(oid, n)` call to `calls`.
- `Expected(st)` is the reference: the calls the statistics protocol prescribes, one per table followed by one per index of that table.
  - Each call has a slot `<<i, j>>`: table `i` when `j = 0`, its index `j` otherwise.
  - Slots are ordered lexicographically, and a slot's position is one more than the number of slots before it.
  - This form avoids recursion, so the provers can reason about it.
  - `MC_PelotonStats` checks, as the `ASSUME ExpectedIsConcat`, that it equals the plain concatenation built with `FlattenSeq` for every status of the instance.
- `IsPelotonQuery`'s `foreach` with its `break` is a loop on the list position `lc`:
  - `QueryStart` is the `IsPostmasterEnvironment` return and the NIL test.
  - `QueryHit` is the `>= FirstNormalObjectId` test holding, then `peloton_query = true; break`.
  - `QueryMiss` moves to the next cell.
  - `QueryEnd` is the end of the list and the `return`.
  - Its answer is compared with the function's one-line meaning.
- A status's counts are the lengths of its arrays, as Peloton fills them.

## Runs

All passing runs set `CHECK_DEADLOCK FALSE`. The system really does stop: backends issue a bounded number of requests, a backend whose reply is lost waits forever, both `proc_exit` paths end the loop, and `peloton_update_stats` returns to its caller.

- **engineloop** (pass): `MaxMsgs = 3`, `SockCap = 2`. Three datagrams against a two-slot buffer, so both a drop and back-to-back receives happen, and signals arrive at every point of the loop.
  - `NoLostWakeup`: the loop never waits with an unserved SIGTERM or SIGHUP while the latch is clear.
  - `ExitHonoured`, `DeathNoticed`, `HupServiced`, `DatagramsDrained`: liveness properties, checked under weak fairness of the loop's own steps. The OS keeps scheduling the Peloton process. Signals, the postmaster and backends owe it nothing, and a recv error is possible but never forced, so none of those steps is fair.
- **bridge_full** (pass): two backends, three slots, two workers, `MaxReq = 1`, `ChanCap = 2`, every fault enabled (about 1.65M states).
  - `RegistryUnique`: `open_mq` is called at most once per backend. Two workers replying to the same backend at once is exactly the case the mutex exists for. It happens here because the main loop overwrites `msg`, so both handlers read the same backend id.
  - `RegistryRefinement`: the bridge implements `ReplyRegistry`. A mutant that forgets to cache the opened mqd breaks it.
- **pelotonstats** (pass): two dirty tables with up to one index each (the protocol's statistics scenario), two oids, two tuple counts, and plans on up to two relations around `FirstNormalObjectId` (245,502 states).
  - `StatsInOrder`: the calls made are always a prefix of `Expected(status)` and equal it on return.
  - `StatsTerminate`: the loops return, under weak fairness. One backend runs the loop and nothing else competes for it.
  - `IsPelotonQueryCorrect`: when the loop returns, its answer equals its meaning. This is checked in every state, whose `relationOids` and `IsPostmasterEnvironment` range over every list and both values. The boundary oid `FirstNormalObjectId` itself is among the inputs.
- **bridge_race** (violation of `AtMostOnceExecution`): two backends and well-formed requests. Both datagrams are received before either handler reads `msg`, and both handlers run the second plan.
- **bridge_nullresult** (violation of `ResultStable`): a NULL payload. FAILURE is written, then overwritten by SUCCESS, because the NULL branch has no `return`.
- **bridge_stale** (violation of `NoSpuriousFailure`): a NULL bootstrap replies twice. The leftover notification wakes the backend's next request, which reads `RESULT_INVALID`.
- **bridge_fault** (violation of `RequestsAnswered`): a throwing collaborator makes `elog(ERROR)` end the process, and the backend is never woken.
- **bridge_mqfail** (violation of `RequestsAnswered`): only `open_mq` may fail. Its `-1` is cached and `send_message` on it fails, so the backend waits for ever. Every later reply to that backend is lost the same way.
- **bridge_drop** (violation of `RequestsAnswered`): two backends share a one-datagram socket buffer. The second `send()` fails, `peloton_send` ignores the failure, and that backend waits for ever.

- **bridge_leak** (violation of `StatusesOwned`): a NULL DDL gets FAILURE. `peloton_process_status` ereports, the caller's `peloton_destroy_status` never runs, and the status stays allocated with no backend owning it.
- **bridge_crosstalk** (violation of `WritesReachWaiter`): the handler that read the overwritten `msg` replies to the other backend. That backend wakes on a result that is not its own and frees its status, and the genuine handler's later write lands on a status nobody waits on.

These eight violations are the project's findings (see `PROJECT.json`).

The bounds are enough for these questions:
- Every counterexample needs at most two requests.
- The registry race needs two workers and two replies to one backend.
- `MaxReq = 1` with two backends already gives two concurrent requests.

Every property of a passing run has a mutant in `PROJECT.json` that breaks it. Examples: dropping the mutex in `RegistryMiss`, dropping `SetLatch` in the SIGTERM handler, dropping `WL_SOCKET_READABLE` from the wait.

## Proofs (TLAPS)

`EngineLoopProofs` proves `TypeCorrect` (`Spec => []TypeOK`) and `NoLostWakeupHolds` (`Spec => []NoLostWakeup`), for every `MaxMsgs` and `SockCap` allowed by `EngineLoopAssumption`.
- The inductive invariant is `TypeOK /\ Counted /\ NoLostWakeup`.
- `Counted` (received plus queued never exceeds arrived) is what bounds `recvd`.
- `NoLostWakeup` is inductive by itself. `ResetLatch` runs only at the loop head, before `need_exit` is tested, and both handlers set the latch after the flag.

`BridgeProofs` proves `BridgeTypeCorrect` (`Spec => []TypeOK`) and `RegistryUniqueHolds` (`Spec => []RegistryUnique`), for all sets of backends, slots and workers and all bounds allowed by `BridgeAssumption`. The inductive invariant `IInv` adds two parts to `TypeOK`:
- `Busy`: while any worker is busy, `msg` holds a datagram. A replying worker has a backend to reply to, a worker past its start has read a request, and a backend with an open request has a slot and a request number. Without it, the handler's reads of `msg` are not known to be well typed.
- `Registry`: every cached entry stands for exactly one `open_mq` call. A worker about to open holds the lock and sees no entry, and the lock is held only by such a worker.

TLC checked `IInv` as an invariant of the `bridge_full` model before the proof was written.

`BridgeRefinementProofs` proves `RegistryRefined` (`Spec => AbsRegistry!Spec`) for every configuration:
- The initial states map to `ReplyRegistry`'s initial state.
- Under `IInv /\ Sending`, every step maps to an abstract step or a stutter.
- `Sending` is an extra invariant: a worker about to send holds the mqd cached for its backend, and that entry is set. `ReplySend` needs it to be `Notify`.
- `Sending` holds because an entry is written only by `RegistryOpen` and only when it is empty, which `Registry` guarantees. No sending worker targets an empty entry.
- `Registry` is also what makes `RegistryOpen` an `Open`: the lock holder sees no cached entry.

`PelotonStatsProofs` proves three theorems for every bound on tables, indexes and relations, every oid set and every `FirstNormalObjectId`:
- `PelotonStatsTypeCorrect` (`Spec => []TypeOK`);
- `StatsInOrderHolds` (`Spec => []StatsInOrder`);
- `IsPelotonQueryCorrectHolds` (`Spec => []IsPelotonQueryCorrect`).

They rest on the inductive invariant `IInv == TypeOK /\ StatsInv /\ QueryInv`. TLC checked it on the `pelotonstats` instance first.
- `NextSlot` is the slot of the next call: `<<tableItr+1, indexItr+1>>` inside a table's index loop, and `<<tableItr+1, 0>>` otherwise.
- `StatsInv` says the following:
  - `calls` has one entry per slot before `NextSlot`, and entry `p` is the call of the slot at position `p`.
  - The iterators stay within the current table and its index list.
  - At `"done"`, every table has been visited.
- `StatsInv` is needed because `StatsInOrder` speaks only of the prefix relation, which says nothing about where the loops are. A step can keep the prefix only if it is known to append the call of the next slot.
- `QueryInv` says the following:
  - While in the loop, the postmaster test passed, nothing has been found yet, and every cell passed is not a Peloton relation.
  - At the start, nothing has been found and `lc = 0`.
  - At `"qdone"`, the answer is correct.

`CallsComplete` shows that once the outer loop has passed the last table, `calls = Expected(status)`.

Slot lemmas carry the argument:
- `NextInTable` and `LeaveTable` show that moving to the next index, or to the next table, adds exactly the current slot to the slots before.
- `AppendSlot` shows that appending that slot's call keeps `StatsInv`.
- `EndSlots` shows that no slot precedes `<<1, 0>>` and that every slot precedes `<<Len(status)+1, 0>>`. So the calls are complete at `"done"`.
- `ExpectedAt` and `SlotPosInjective` identify `Expected`'s entries through slot positions.

Only TLC checks the following:
- the liveness properties, since TLAPS does not handle fairness or ENABLED here;
- that `Expected` equals the `FlattenSeq` concatenation: `FlattenSeq` is recursive, and what a recursive definition computes for every input needs induction over data, which the provers cannot instantiate here. The `ExpectedIsConcat` assumption checks it on the instance;
- `StatsTerminate`, which is liveness;
- the violation runs;
- everything that depends on the small instance.

## Model simplifications

- `WaitWake` ends the loop on postmaster death even when the latch is set too. PostgreSQL 9.5's `WaitLatchOrSocket` reports only `WL_LATCH_SET` in that case, and the loop then notices the death on a later wait. This matters only under an endless stream of signals.
- `InnerRecv` folds the `EINTR` break (444) into `EAGAIN`: both leave the inner loop for the wait, which the still-readable socket ends at once.
- `HandlerExec` abstracts `ExecutePlan`'s own FAILURE or abort result to SUCCESS.
- `WorkerTake` takes tasks in FIFO order, which is stronger than TBB guarantees. No checked property depends on the order.
- `DeathNoticed` holds only because at most `MaxMsgs` datagrams arrive. An endless stream that keeps the inner loop busy, so that death is never noticed, is not reached by any run.
- A hard `recv()` error is fatal by design (spec 4.5), so `ExitHonoured` and `DatagramsDrained` exempt a loop that has ended that way.

## Not modelled

- The `peloton_init` self-test and `peloton_start`/fork: straight-line socket I/O. Only their outcome is modelled, as `sock`.
- The SIGSEGV/SIGABRT handlers: immediate `proc_exit`.
- The frontend logger, the planner and executor headers, and the materialization test: no protocol behaviour.

## Still to do

Every hazard in `PROJECT.json` has a property, except the two whose notes say why: the endless datagram stream (503), and the recv error (446), which is fatal by design. What remains:
- a composition of `EngineLoop` and `Bridge`;
- safety proofs of `StatusesOwned` and `WritesReachWaiter` for the fixed code (a `return` after the NULL reply, a copy of `msg` per task);
- larger instances of `Bridge`.
