# JetStream in TLA+

JetStream is a streaming analytics engine for the wide area: a Python controller places operators on C++
worker nodes; operators form chains; chains end in data cubes, which aggregate tuples by cell; subscribers
query cubes and feed further chains, often on other nodes. This directory holds TLA+ models of its concurrent
parts, TLC instances, and proofs checked by TLAPS. `PROJECT.json` lists the components, the runs with their
configurations, the lines each definition models, the hazards, the findings and the theorems.

## The system and its parts

| Part | State | Operations | What is hard |
|---|---|---|---|
| Data cube (`cube/cube.cc`) | a process queue, a batch and a flush queue per processor; subscribers; two queue lengths | `process`, `flush`, `do_process`, `do_check_flush`, `do_barrier`, `add_`/`remove_subscriber`, `wait_for_commits` | two threads per processor, a barrier through all of them, three locks |
| Tuple batch (`cube/tuple_batch.cc`) | entries, key lookup, holes | `insert_tuple`, `update_batched_tuple`, `flush` | three structures that must agree |
| Subscribers (`dataplane/subscriber.*`, `base_subscribers.*`) | executor queue, markers, window | callbacks, `emit_batch`, `post_flush`, `incoming_meta` | timer, executor and chain threads |
| Connected socket (`comm/connected_socket.cc`) | `sending`, `sendQueue`, `sock_state`, two strands | `send_msg`, `recv_msg`, `close`, completion handlers | the strands share state |
| Dataplane connections (`dataplane/dataplane_comm.*`) | pending and live connections, adaptors, buffers | handshake, buffered send, teardown, broken connections | timeouts and lifetimes |
| Operator chains, node, cube manager (`dataplane/operator_chain.*`, `node.cc`, `cube_manager.cc`) | operator and chain tables, cubes | `handle_alter`, `stop_computation`, `unregister_chain` | lock order, partial failure |
| Congestion (`utils/congestion_monitors.cc`, `congest_policy.cc`) | counters, policy levels | `capacity_ratio`, `get_step` | lock-free counters |
| TPUT (`dataplane/topk_tput.cc`) | candidates, responses per phase | three phases | lost sources |
| Controller (`python/jetstream/controller.py`) | workers, computations | heartbeats, alter and responses, worker death | late answers |
| Planner (`query_planner.py`, `jsgraph.py`) | graphs | assignment, traversal | pure algorithms |

Database and masstree back ends, sketches, operators that only transform tuples, the web interface and the
Python client wrappers are I/O or single-threaded and are not modelled; `PROJECT.json` gives a reason for each.

## Modules

**`CubePromise`** is what a cube promises: tuples are handed over, become visible later and once, and a flush is
answered only when everything handed over before its request is visible and every flush issued before its
request is answered.

**`CubePipeline`** is the write path as the code has it. A chain counts a tuple (`ReportInsert`) and pushes it under
`process_lock` (`Assign`); a processor that found work keeps that lock until its queue is empty (`Wake` .. `Drained`),
so pushes wait. `LockBatch` takes `batcherLock`, `DoProcess` merges into the batch, and the lock goes with
`ReportDelete`; the flush thread swaps the batch under the same lock (`BatchFlush`), saves it (`SaveBatch`) and calls
back entry by entry (`Notify`). `StartFlush` and `Barrier` are `DataCube::flush`; `PassBarrier`, `DoBarrier` and
`FlushCallback` carry the barrier to its answer. A step is what one lock makes atomic. `boost::shared_mutex` lets a
waiting writer hold off new readers: `writerWaits`. Saving a batch is one step: the database is outside the model.
`can_batch` is the same for all tuples of a cell (`NoBatch`); cells for which it alternates are in `TupleBatch` only.

**`CubeWait`** adds a caller of `wait_for_commits`, whose two reads are two steps.

**`TupleBatch`** is the data structure, driven as `do_process` and `batch_flush` drive it; `can_batch` may go either
way for every tuple. `removed` and `spoiled` record which tuples shared a batch with a call of `remove_tuple`. A read
past the end of the vector after `flush()` erased holes yields any entry the old vector held.

**`TimeWindow`** is `TimeBasedSubscriber` on top of `CubePromise`: chains send tuples and end markers, a clock
ticks, windows are requested, answered and queried. A chain sends no tuple at or before its own marker. The
`BACKFILL` code, compiled out, is left out. `querier.min` and `next_window_start_time` start equal.

**`ConnectedSocket`** is one end of a connection. The strands are two queues of handlers run concurrently; the
handlers `sent`, `fail` and `close_on_strand` are split where the other strand can see the middle. asio, the
kernel and the peer are external: a write completes or fails, a read yields the next frame part, the end of the
stream, or is canceled by the close. `close_now` is one step. The close is called from outside or from the
receive callback, where `dispatch` runs it at once.

**`Delivery`** is what a connection between two nodes promises: what is accepted arrives in order and once, an
orderly end comes only behind the last of it, and otherwise the connection is seen to break.

**`Dataplane`** is that connection: the `RemoteDestAdaptor` at the end of the sending chains, the
`IncomingConnectionState` on the other node, and the teardown of both. Its threads are the chains' strands, the
adaptor's timer, the receive handler and the control thread. `Process`, `WaitReady` and `Buffer` are `process`;
`ForceSend` is the timer: `force_send` takes no error code, so a cancelled wait runs it as well, and `timer` counts the
calls to come; `StopChain` and `ChainStopping` are the end of a chain; `BrokenMark` .. `BrokenClear` are
`connection_broken`, split where another thread can see the middle; `StopComputation` .. `PurgeReturns` are
`stop_computation`, which keeps `operatorTableLock` while it waits. The socket is reduced to what
`ConnectedSocket` shows: order, a suffix lost when it fails, and what a close overtakes (`CloseSocket`). An adaptor
serves either one source chain or the clones of a forwarder's chain, whose original stays attached (`template`).
A crash (`crashed`) is a null pointer followed or `LOG(FATAL)` reached. The adaptor's destruction is not modelled.

**`Tput`** is the distributed top-k query of `topk_tput.cc`. Values are numbers, an item is a cell, sources answer
through FIFO connections that may break. Thresholds are kept times the number of sources, so that no division is
needed. `EmitData` and `StopPred` are the teardown with the coordinator's mutex held. Two simplifications: the sources'
cubes do not change while the query runs (in the code a cube may take in tuples between two rounds, and then no total is
exact), and every source is on another node (a source on the coordinator's node answers within `upwards_metadata`, under
the recursive mutex).

**`Controller`** is `controller.py` with `computation_state.py`, and the control side of the nodes. The event loop
runs one handler at a time; `handle_alter` and `stop_computation` are split where they do not hold `stateLock`, so
that the liveness thread (`Timeout`) comes in between, also between the test of `nodeID_to_local` and its read
(`StopLookup`, `StopRead`). Each started computation has a thread that sends its ALTERs (`StartSend`). An exception ends
the handler, is recorded with the computation it is about (`raised`), and closes the channel its message came from. A
restarted process has a new endpoint. The planner's result is any assignment to registered workers, with or without an
empty one for the default worker (`bare`), or no plan: an error, or an exception when validation or the choice of a worker
failed. A node's `stop_computation` begins (`NodeStop`) and may never end (`NodeStopped`): `Dataplane` shows why. `lost`
are the nodes that were declared dead or replaced, and `Hit(c)` says that `c` was planned onto one of them.

`Queues` holds the predicates on FIFO queues, `CubeInvariant` the cube's inductive invariant, and the `*Proofs` modules
the proofs. `MC*` modules give the instances their functions. Definitions marked
"Mutant" are variants of the definition after them with a plausible mistake; no specification uses them.

## Runs

| Run | Instance | Shows |
|---|---|---|
| `cube_safe` | 2 processors, 2 tuples of a cell, 2 chains, a subscriber that may leave, 1 flush | no tuple lost or doubled by the swap; exact queue lengths; a flush answered after save and after callbacks; a stall needs a waiting writer; `CubePipeline` refines `CubePromise` |
| `cube_live` | 2 processors with a tuple each, one batched and one not, 1 flush, a poller, fair | tuples are saved, flushes answered by the last flush thread; `wait_for_commits` returns, process queues drained |
| `batch_mixed` | 6 tuples, 3 keys, `can_batch` either way for each tuple | outside the batches that `remove_tuple` was called on, each tuple is saved once in its cell |
| `socket_safe` | 3 messages out, 1 in, a close, the peer may leave, fair | until a failure: in order, exact count; always: nothing stuck, frames intact |
| `window_ontime` | 2 chains, 2 windows | a tuple handed over in time is emitted |
| `dataplane_link` | 2 chains, 2 emissions, a stop, a failure, fair | refines `Delivery`; nothing behind NO_MORE_DATA; no crash before a failure; the two ways to stall; handshake, arrival, and no chain left behind at the far end |
| `tput_query` | 2 sources, all values, one may leave, fair | exact totals, rounds in step, an answer large enough; the query ends and is torn down |
| `controller_jobs` | 2 nodes, one lost or replaced, 1 computation, 1 stop, fair | the maps agree; a handler raises only about a computation that lost a node, or that got no plan (invalid topology, no worker left); listed cubes exist; orphaned operators explained; starts and stops take effect |

Runs that end in a violation, each a disagreement between the code and what it says of itself:

| Run | What happens |
|---|---|
| `batch_assert` | a batched key updated twice without batching has its position freed twice: the assertion of `size()` fails. Only the tests have a subscriber that answers `SEND_NO_BATCH` |
| `socket_close` | a close is lost when `sent()` finishes in the middle of `close_on_strand` |
| `rda_lock` | `connection_broken` locks a temporary, so the adaptor can be erased while it is at work |
| `tput_round2` | the round-2 message has no sort key: sources leave out items above the threshold |

What the properties do not promise matters as much. `WaitDrains` promises drained process queues only:
`wait_for_commits` reads the flush length first and may return with a tuple unsaved. `QueueLengthsExact` is about
cells that are always or never batched: an unbatched update of a batched cell shrinks the batch without a
`report_delete`, and the flush length stays too high. `OnTimeIsEmitted` promises at least once: a chain that ends can
move the window's start back, and a tuple is emitted twice. After a failure on the receive strand a second write may
overlap the first, and the send side is promised nothing. `EachOnce` promises nothing of the tuples in a batch that
`remove_tuple` was called on (`spoiled`): they may be lost, doubled or filed under another key. Because of
`tput_round2`, no property says that the answer holds the true top items; `ExactTotals` and `AnswerSize` say what is
left. `StallShape` and `EndsUnlessBusy` name deadlocks the code can reach: `stop_computation` against
`unregister_chain`, a failed send that holds the adaptor's mutex, and `emit_data` against `chain_stopping`.
`CrashNeedsBreak` is all that holds of crashes: after a failure, a failed send follows the pointer that
`connection_broken` has reset. `FarEnds` leaves one thing behind: a connection that waits for a chain which is never
created stays in the list of the pending ones. For a computation that lost a node, the controller's handlers may raise
half way, leaving assignments partial, later workers without their ALTER and stops unfinished: `RaisesNeedFault` says
that no other computation is touched, and `Starts`, `Stops` and `OrphansExplained` exempt those that are.
`LocalIsRegistered` goes one way: an entry of `nodeID_to_local` names a registered worker, but a registered worker
need not have one, because the death of a node's old endpoint removes the entry of the new one. `Stops` does not say
that `stop_computation` returns: a node may hang in it, as `StallShape` shows.

`StallNeedsWriter` does not exclude a stall: it says which one there is. A chain that holds `subscriberLock` shared
in `DataCube::process` asks, through `incoming_meta`, for a flush and waits for `process_lock`; the processor that
holds it waits in `do_process` for `subscriberLock`, which a waiting `add_subscriber` or `remove_subscriber` keeps
from new readers. The model reaches that state.

`StallShape` takes it that every handler finds a thread of the `io_service`. `thread_pool_size` is 1 by default
(`node.cc:874`) and 8 in the configurations that come with the code; with too few threads, handlers that wait keep others
from running, and more waits than the two it names are for ever.

Deadlock checking is off everywhere because every model may stop: inputs are finite. That nothing else stops with
work left is `StallNeedsWriter`, `EventuallyStored`, `EventuallyAnswered`, `WaitReturns`, `AcceptedIsSent`,
`StallShape`, `Arrives`, `Completes`, `EndsUnlessBusy`, `Starts` and `Stops`.

**Bounds.** Two processors are the fewest for which a barrier must be collected; two tuples of one cell merge, two of
two cells go to two processors; two chains and a subscriber that leaves let a writer meet a reader. Three tuples of a
key let a position be freed twice, and three keys let it be reused. Three messages let one be written, one queued and
one in the strand. Three ticks let the clock fall behind a marker and catch up. Two clones share an adaptor, a source
chain has it to itself, and a buffer of one tuple is filled, flushed and left to the timer. Two sources can be in
different rounds, and one can leave. Two nodes let an assignment be partial; one that is timed out or replaced
(`Unstable`) makes an old and a new endpoint coexist, and the other one shows what a fault leaves alone. The proofs
have none of these bounds.

**Fairness.** Weak fairness of each thread's steps: threads and `io_service` workers run whenever they can, and
a lock's holder runs out of work because inputs are finite. With one exception nothing is assumed of inputs: tuples, meta
messages, flush requests, sends and closes may never come, the chain at the far end of a connection need not be created,
connections need not break, workers need not be lost. The exception is `AddChain` in `Tput`: every source connects in the
end, since without one the coordinator only tries again. `NodeStopped` has no fairness either, because the wait in
`stop_computation` may be for ever. `cube_live` has no subscriber coming or going, since then the stall above applies.

## Proofs

Every safety property that a passing run checks is proved for all values of the constants; the two that use `ENABLED`
rest on a hypothesis that the run checks (see Stalls). A `*Proofs` module holds its component's inductive invariant,
one lemma per action and the theorems.

| Module | Theorems | From |
|---|---|---|
| `CubePipelineProofs` | `TypeCorrect`, `Invariance`, `FlushBarrierHolds`, `CallbacksInOrder`, `TuplesConserved`, `LengthsExact`, `WaitSeesAll`, `StallsNeedWriter`, `Refinement` (of `CubePromise`) | at least one processor, functions with the right domains, tuples and flushes distinct, finitely many integer cells, unbatched cells only with a fixed set of subscribers |
| `TupleBatchProofs` | `TypeCorrect`, `SavedOnce` | functions with the right domains |
| `TimeWindowProofs` | `OnTimeEmitted` | types of the constants |
| `ConnectedSocketProofs` | `ReadsFramed`, `WritesInOrder`, `QueuedCounted` | types of the constants |
| `DataplaneProofs` | `Invariance`, `TypeCorrect`, `EndIsLast`, `NoCrashInOrder`, `StallsExplained`, `Refinement` (of `Delivery`) | finitely many chains, at least one, none of them named like the receiving thread or the timer |
| `TputProofs` | `RoundsInStep`, `TypeCorrect`, `TotalsExact`, `AnswerLarge` | finitely many sources and items, `K > 0` |
| `ControllerProofs` | `TypeCorrect`, `MapsAgree`, `RaisesConfined`, `ListedCubesExist`, `NoSilentOrphans` | types of the constants |

**Cube.** `FlushBarrier` is not inductive: that a flush is answered says nothing of the queues. `IInv` adds where
everything is. `PlacesInv`: an unsaved tuple is in one place of the processor its cell hashes to. `CountInv`: a
flush's count is the number of processors it has not passed (`Left`). `OrderInv`: on each processor, what was handed
over or issued before a flush is ahead of it in the queues, and if it is in the batch then a `do_check_flush` is
running or is ahead of the barrier; behind a barrier that has passed, nothing of it is left. So when the count is
zero, everything is saved. `ExecInv` carries the same order into the executors. The queue lengths need `IInv` and
`LengthInv`, which adds that a batch being saved holds cells of its own processor only: the batched and the saved
cells of different processors are then disjoint, and each action moves both sides of the equation by the same amount.
`WaitSeesAll` follows: what the poller waits for is in a process queue, and a process length of zero leaves nothing in
one. `CubeStepProofs` has the facts about queues and the preservation of the types and of `SafeInv`,
`CubePipelineProofs` the theorems.

**Tuple batch.** `StoreInv` keeps holes within the vector and every entry in the lookup, whatever is decided. `BatchInv`
splits on `removed`: a batch that `remove_tuple` was not called on has no holes, and vector and lookup are inverse to each
other (`EntriesInv`); in any other batch every entry holds spoiled tuples only (`SpoiledInv`), so that whatever its flush
reads, past the end of the vector or from a reused position, no other tuple is saved by it. `SavedInv`: a tuple that is
not spoiled is saved once or `Waits` in the entry of its key.

**Time windows.** `AskedBehind`: a window that reaches the time of a tuple that came in time was asked for after the
tuple was handed over. With the cube's promise that an answered flush shows what came before it (`Answered`), and
since the next start is behind an end that was asked for (`WindowAsked`), the tuple is in the window's result.

**Connected socket.** On the receive side, reads and completed reads exclude each other (`OneRead`), and while the
socket is open the reader is where the stream is (`AtPiece`). On the send side, `OneWrite` excludes two writes and
`Waiting` says that what follows the last issued message is in `sendQueue` and behind it in the strand; both are claimed
only until a strand fails, for the reason given under Runs. `UnderWay` adds that while `sending` is set its write or the
handler of its write is outstanding; with the last conjunct of `Waiting` (an idle strand that is not sending has an
empty `sendQueue`) no accepted message is left with nobody to write it, the safety half of `AcceptedIsSent`.

**Dataplane.** `DataInv` says that what `process` accepted is what was delivered, then what is in flight, then what is
buffered; `Pipe` cuts the sequence at the messages' ends. `LinkInv` puts the chain's name first and NO_MORE_DATA last,
`ClosedInv` lets nobody emit after the close while nothing has failed, `EndedInv` lets nobody emit behind
NO_MORE_DATA, failure or not (a failed send may close the socket of chains that still run), `OrderlyInv` says what an
orderly close leaves while nothing has failed, `FreshInv` and `StrandInv` cover the time before the handshake and
adaptors without a template. The refinement maps the items to themselves and the far end's state to open, ended or
broken.

**TPUT.** `ChannelsInv`: a source has one question or one answer in flight, of the current phase. `CountInv`: the
count of responses is at most the number of quiet predecessors, so a phase cannot end with an answer on its way.
`OweInv`: while no source that was asked is lost it is exactly that number and less than all, so somebody still owes
an answer, the safety half of `Completes`. `AnswerInv` follows the data through the rounds: `Delivered(D)` are the
sources whose answer is in, in round 3 the output cube has the sums over `D` (`LastRound`), and rounds 1 and 2 keep at
least `K` candidates when some source has `K` items. Round 3 asks for them, because `tau` is a value that at least `K`
candidates reach, and a candidate's upper bound, wrapped or not, passes the test against `tau` when its value does.

**Controller.** `LocalIsRegistered` is inductive with the types of the two maps (`MapsInv`). That a handler raises
only about certain computations is not: whether a lookup raises depends on tables that other handlers and threads
wrote. `ControlInv` says, of each computation `c`, `Hit(c) \/ Clear(c)`. `Clear` is what holds of a computation none
of whose nodes was lost, whatever happens to the other nodes: plan, computation and workers have the same assignments,
apart from the computation now being entered or stopped (`Entered`, `Held`), a stop finds what it has still to clean
up (`Finds`), and once a stop is in progress or over, every worker it need not tell any more has been told, the STOP
behind the ALTER in its queue (`StopTold`). It rests on `HomesInv`: a node that was not lost is its first process,
registered once and for good. So the lookups of `handle_alter`, `stop_computation` and `handle_alter_response` succeed
for every such computation (`RaisedInv`), and its operators are gone or about to be told (`NoSilentOrphans`).
`CubeInv` holds through all faults: a STARTED reply in transit is true of the process that sent it.

**Stalls.** `StallNeedsWriter` and `StallShape` say what a state looks like in which `Work` is not enabled. The prover
does not reason about `ENABLED`. `CanWork` therefore writes out what the actions of `Work` test, in terms of locks,
queues and program counters, and `GuardsEnable` says that where it holds `Work` is enabled. TLC checks `GuardsEnable`
as a conjunct of the two properties; the theorems have it as their hypothesis and prove the shape of the stall for all
constants. In the cube, `LockInv` says that a waiting writer belongs to a call and waits for a reader: whatever is
left undone waits for a `process_lock` or for `subscriberLock`, the holder of a `process_lock` can only wait for
`subscriberLock`, so a writer waits, there is a reader, and that reader is in a flush. In the dataplane the types are
enough: with the adaptor's mutex free, everybody who waits does so, directly or through a chain to be stopped, for
`operatorTableLock`, and its holder `stop_computation` only for a chain that needs the same lock.

**Induction over data.** The library's induction theorems take an operator, which the provers cannot instantiate.
Where a proof needs induction it takes a minimal counterexample instead (`WFMin` with a well-founded order): that a
set of times has an earliest one (`TimeWindowProofs`), that a finite set of numbers has a greatest one, and that
`MapThenSumSet` gives the same sum in whatever order it takes the elements (`Least`, `Greatest`, `SumAdd` in
`TputProofs`).

The proof modules try a leaf with Zenon first and then, for up to 20 seconds, with SMT, unless the leaf names its
prover: most leaves need no arithmetic, and preparing an obligation for SMT gets slow in a large module. The largest
modules check in about ten minutes.

**Only model-checked.** `GuardsEnable` is about `ENABLED`, and the liveness properties (`WaitReturns`,
`EventuallyStored`, `EventuallyAnswered`, `AcceptedIsSent`, `Handshake`, `Arrives`, `FarEnds`, `Completes`,
`EndsUnlessBusy`, `Starts`, `Stops`) need fairness: both are beyond the prover. The four violations are
counterexamples.

## Not modelled

* Congestion: `capacity_ratio` and `get_step` are rates over wall-clock time and floating-point ratios; an untimed
  model has no faithful counterpart. Variable sampling and coarsening follow them.
* The planner's placement and graph traversal: single-threaded; `Controller` takes any result they may produce.
* The cube's destructor, rollup levels and `cube_max_stage`; the steps inside `handle_alter`; the connect timeout.
* Two adaptors to one destination, the adaptor's destruction, ERROR replies to a connect, congestion reports upwards.
* Cubes that change during a TPUT query, and TPUT sources on the coordinator's own node.
* `RESTART_FAILED_WORK`, off as shipped.
* Database and masstree back ends, sketches, tuple operators, the web interface and the client wrappers: I/O,
  third-party code or single-threaded code.
