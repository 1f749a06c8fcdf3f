---------------------------- MODULE CubePipeline ----------------------------
(***************************************************************************)
(* The write path of a DataCube (src/src/cube/cube.cc): operator chains    *)
(* hand tuples and meta messages to the cube; each of NumProcs             *)
(* ProcessCallables owns a processor thread that batches tuples by cell    *)
(* and a flush thread that saves batches; subscribers are told on an       *)
(* executor thread of their own.  A FlushInfo travels through every        *)
(* processor and every flush thread, and the last flush thread answers it. *)
(*                                                                         *)
(* The grain of an action is what the code's locks make atomic.  A         *)
(* processor keeps process_lock while it drains its queue, so pushing a    *)
(* task waits until the processor is idle again.                           *)
(***************************************************************************)
EXTENDS Queues, FiniteSets

CONSTANTS
  NumProcs,     \* conf.cube_processor_threads
  Tuples,
  Cells,        \* DimensionKeys, as integers: only their order matters
  CellOf,       \* the cell of each tuple
  ProcOf,       \* per cell: fast_string_hash(key) % processors.size(), plus 1
  Chains, Subs,
  InitialSubs,  \* subscribers attached before the first tuple
  Movers,       \* subscribers that may be added or removed during a behaviour
  Flushes,      \* bounds the number of FlushInfo objects of a behaviour
  NoBatch,      \* the cells whose tuples are all answered SEND_NO_BATCH; those of
                \* the others never are.  (TupleBatch has cells that alternate.)
  Check,        \* a posted do_check_flush
  None

Procs == 1 .. NumProcs
Callers == Chains \cup Subs   \* threads that call DataCube::flush

ASSUME ProcsAssumption == NumProcs \in Nat \ {0}
ASSUME KeyAssumption == CellOf \in [Tuples -> Cells] /\ ProcOf \in [Cells -> Procs]
ASSUME SubsAssumption ==
  /\ InitialSubs \subseteq Subs /\ Movers \subseteq Subs /\ NoBatch \subseteq Cells
  /\ NoBatch # {} => InitialSubs # {} /\ Movers = {}
ASSUME KindsAssumption ==
  /\ Tuples \cap Flushes = {} /\ Chains \cap Subs = {}
  /\ Check \notin Flushes
  /\ None \notin Tuples /\ None \notin Flushes
ASSUME CellsAssumption == Cells \subseteq Int /\ IsFiniteSet(Cells)

VARIABLES
  chainPc,     \* per chain: "idle", "assign" (counted, not yet pushed), "meta"
  hand,        \* per chain: the tuple it is about to push
  metaLeft,    \* per chain: subscribers its meta message has not visited
  inFlush,     \* per caller: the flush whose DataCube::flush it is executing
  tasks,       \* per processor: process_tasks
  procPc,      \* per processor thread: "idle", "loop", and with batcherLock held
               \* "locked", "report"
  batch,       \* per processor: the tuples merged into tupleBatcher
  batchTo,     \* per processor and cell: tpi->insert and tpi->update
  flushq,      \* per processor: handlers posted to service_flush
  flushPc,     \* per flush thread: where it is
  saving,      \* per flush thread: tuples of tb not yet saved or not yet reported
  savingTo,    \* per flush thread: the subscriber lists of tb
  saved,       \* per flush thread: the cells of tb, which batch_size counts
  answering,   \* per flush thread: the flush whose count it brought to zero
  count,       \* FlushInfo::count
  pushed,      \* per flush: how many processors have been given the barrier
  subsc,       \* FlushInfo::subsc
  execq,       \* per subscriber: its executor's queue
  processLen, flushLen,   \* queue lengths of processCongestMon, flushCongestMon
  subscribers, attached,  \* subscribers now, and ever
  wants,       \* subscribers whose add or remove call has not returned
  writerWaits, \* boost::shared_mutex: a waiting writer holds off new readers
  \* What happened, for the properties and the refinement.
  assigned, stored, started, issued, before, earlier, called

chainVars == <<chainPc, hand, metaLeft, inFlush>>
procVars == <<tasks, procPc, batch, batchTo>>
flushVars == <<flushq, flushPc, saving, savingTo, saved, answering>>
infoVars == <<count, pushed, subsc>>
lockVars == <<subscribers, attached, wants, writerWaits>>
askedVars == <<started, issued, before, earlier>>
vars == <<chainVars, procVars, flushVars, infoVars, execq, processLen, flushLen,
          lockVars, assigned, stored, askedVars, called>>

CellsOf(S) == {CellOf[t] : t \in S}
InHands == {hand[c] : c \in Chains} \ {None}

\* The readers that keep subscriberLock across a step: a chain visiting the
\* subscribers with a meta message.  Every other reader holds it within a step.
Readers == {c \in Chains : chainPc[c] = "meta"}
CanRead == ~writerWaits

Init ==
  /\ chainPc = [c \in Chains |-> "idle"]
  /\ hand = [c \in Chains |-> None]
  /\ metaLeft = [c \in Chains |-> {}]
  /\ inFlush = [x \in Callers |-> None]
  /\ tasks = [p \in Procs |-> <<>>]
  /\ procPc = [p \in Procs |-> "idle"]
  /\ batch = [p \in Procs |-> {}]
  /\ batchTo = [p \in Procs |-> [k \in Cells |-> {}]]
  /\ flushq = [p \in Procs |-> <<>>]
  /\ flushPc = [p \in Procs |-> "idle"]
  /\ saving = [p \in Procs |-> {}]
  /\ savingTo = [p \in Procs |-> [k \in Cells |-> {}]]
  /\ saved = [p \in Procs |-> {}]
  /\ answering = [p \in Procs |-> None]
  /\ count = [f \in Flushes |-> 0]
  /\ pushed = [f \in Flushes |-> 0]
  /\ subsc = [f \in Flushes |-> None]
  /\ execq = [s \in Subs |-> <<>>]
  /\ processLen = 0 /\ flushLen = 0
  /\ subscribers = InitialSubs /\ attached = InitialSubs
  /\ wants = {} /\ writerWaits = FALSE
  /\ assigned = {} /\ stored = {} /\ started = {} /\ issued = {} /\ called = {}
  /\ before = [f \in Flushes |-> {}]
  /\ earlier = [f \in Flushes |-> {}]

-----------------------------------------------------------------------------
(* Operator chains: DataCube::process and DataCube::flush.                 *)

\* DataCube::process(chain, t): count the tuple ...
ReportInsert(c, t) ==
  /\ chainPc[c] = "idle"
  /\ t \notin assigned /\ t \notin InHands
  /\ processLen' = processLen + 1
  /\ hand' = [hand EXCEPT ![c] = t]
  /\ chainPc' = [chainPc EXCEPT ![c] = "assign"]
  /\ UNCHANGED <<metaLeft, inFlush, procVars, flushVars, infoVars, execq, flushLen,
                 lockVars, assigned, stored, askedVars, called>>

\* ... then push it on the queue its cell hashes to, under process_lock.
Assign(c) ==
  LET p == ProcOf[CellOf[hand[c]]] IN
  /\ chainPc[c] = "assign"
  /\ procPc[p] = "idle"
  /\ tasks' = [tasks EXCEPT ![p] = Append(@, hand[c])]
  /\ assigned' = assigned \cup {hand[c]}
  /\ hand' = [hand EXCEPT ![c] = None]
  /\ chainPc' = [chainPc EXCEPT ![c] = "idle"]
  /\ UNCHANGED <<metaLeft, inFlush, procPc, batch, batchTo, flushVars, infoVars, execq,
                 processLen, flushLen, lockVars, stored, askedVars, called>>

\* A message that is not DATA: take subscriberLock shared, visit everyone.
BeginMeta(c) ==
  /\ chainPc[c] = "idle"
  /\ CanRead
  /\ chainPc' = [chainPc EXCEPT ![c] = "meta"]
  /\ metaLeft' = [metaLeft EXCEPT ![c] = subscribers]
  /\ UNCHANGED <<hand, inFlush, procVars, flushVars, infoVars, execq, processLen,
                 flushLen, lockVars, assigned, stored, askedVars, called>>

\* Mutant: FlushInfo::set_count leaves out one processor.
StartFlushShort(x, f, s) ==
  /\ f \notin started
  /\ started' = started \cup {f}
  /\ subsc' = [subsc EXCEPT ![f] = s]
  /\ count' = [count EXCEPT ![f] = NumProcs - 1]
  /\ inFlush' = [inFlush EXCEPT ![x] = f]
  /\ before' = [before EXCEPT ![f] = assigned]
  /\ earlier' = [earlier EXCEPT ![f] = issued]
  /\ UNCHANGED <<pushed, issued>>

\* Mutant: the caller counts itself in.
StartFlushLong(x, f, s) ==
  /\ f \notin started
  /\ started' = started \cup {f}
  /\ subsc' = [subsc EXCEPT ![f] = s]
  /\ count' = [count EXCEPT ![f] = NumProcs + 1]
  /\ inFlush' = [inFlush EXCEPT ![x] = f]
  /\ before' = [before EXCEPT ![f] = assigned]
  /\ earlier' = [earlier EXCEPT ![f] = issued]
  /\ UNCHANGED <<pushed, issued>>

\* DataCube::flush begins: a fresh FlushInfo f for s, called by thread x.
StartFlush(x, f, s) ==
  /\ f \notin started
  /\ started' = started \cup {f}
  /\ subsc' = [subsc EXCEPT ![f] = s]
  /\ count' = [count EXCEPT ![f] = NumProcs]
  /\ inFlush' = [inFlush EXCEPT ![x] = f]
  /\ before' = [before EXCEPT ![f] = assigned]
  /\ earlier' = [earlier EXCEPT ![f] = issued]
  /\ UNCHANGED <<pushed, issued>>

\* incoming_meta of the next subscriber returned null.
VisitQuietly(c, s) ==
  /\ chainPc[c] = "meta" /\ inFlush[c] = None
  /\ s \in metaLeft[c]
  /\ metaLeft' = [metaLeft EXCEPT ![c] = @ \ {s}]
  /\ UNCHANGED <<chainPc, hand, inFlush, procVars, flushVars, infoVars, execq,
                 processLen, flushLen, lockVars, assigned, stored, askedVars, called>>

\* incoming_meta of the next subscriber asked for a flush.
VisitFlush(c, s, f) ==
  /\ chainPc[c] = "meta" /\ inFlush[c] = None
  /\ s \in metaLeft[c]
  /\ metaLeft' = [metaLeft EXCEPT ![c] = @ \ {s}]
  /\ StartFlush(c, f, s)
  /\ UNCHANGED <<chainPc, hand, procVars, flushVars, execq, processLen, flushLen,
                 lockVars, assigned, stored, called>>

EndMeta(c) ==
  /\ chainPc[c] = "meta" /\ inFlush[c] = None /\ metaLeft[c] = {}
  /\ chainPc' = [chainPc EXCEPT ![c] = "idle"]
  /\ writerWaits' = (writerWaits /\ Readers \ {c} # {})
  /\ UNCHANGED <<hand, metaLeft, inFlush, procVars, flushVars, infoVars, execq,
                 processLen, flushLen, subscribers, attached, wants, assigned, stored,
                 askedVars, called>>

\* TimeBasedSubscriber::emit_batch on the strand of s; no subscriberLock.
EmitBatch(s, f) ==
  /\ s \in subscribers \ wants /\ inFlush[s] = None
  /\ StartFlush(s, f, s)
  /\ UNCHANGED <<chainPc, hand, metaLeft, procVars, flushVars, execq, processLen,
                 flushLen, lockVars, assigned, stored, called>>

\* Mutant: the barrier goes straight to the flush thread.
BarrierSkipsTasks(x) ==
  LET f == inFlush[x]
      p == pushed[f] + 1 IN
  /\ f # None
  /\ flushq' = [flushq EXCEPT ![p] = Append(@, f)]
  /\ pushed' = [pushed EXCEPT ![f] = p]
  /\ IF p = NumProcs
       THEN inFlush' = [inFlush EXCEPT ![x] = None] /\ issued' = issued \cup {f}
       ELSE UNCHANGED <<inFlush, issued>>
  /\ UNCHANGED <<chainPc, hand, metaLeft, procVars, flushPc, saving, savingTo, saved,
                 answering, count, subsc, execq, processLen, flushLen, lockVars, assigned,
                 stored, started, before, earlier, called>>

\* One turn of the loop of DataCube::flush: ProcessCallable::barrier.
Barrier(x) ==
  LET f == inFlush[x]
      p == pushed[f] + 1 IN
  /\ f # None
  /\ procPc[p] = "idle"
  /\ tasks' = [tasks EXCEPT ![p] = Append(@, f)]
  /\ pushed' = [pushed EXCEPT ![f] = p]
  /\ IF p = NumProcs
       THEN inFlush' = [inFlush EXCEPT ![x] = None] /\ issued' = issued \cup {f}
       ELSE UNCHANGED <<inFlush, issued>>
  /\ UNCHANGED <<chainPc, hand, metaLeft, procPc, batch, batchTo, flushVars, count,
                 subsc, execq, processLen, flushLen, lockVars, assigned, stored,
                 started, before, earlier, called>>

-----------------------------------------------------------------------------
(* The processor thread: ProcessCallable::run_process.                     *)

\* It has process_lock and finds work; it keeps the lock until "idle" again.
Wake(p) ==
  /\ procPc[p] = "idle" /\ tasks[p] # <<>>
  /\ procPc' = [procPc EXCEPT ![p] = "loop"]
  /\ UNCHANGED <<chainVars, tasks, batch, batchTo, flushVars, infoVars, execq, processLen,
                 flushLen, lockVars, assigned, stored, askedVars, called>>

\* do_process takes batcherLock before it waits for subscriberLock.
LockBatch(p) ==
  /\ procPc[p] = "loop" /\ tasks[p] # <<>> /\ Head(tasks[p]) \in Tuples
  /\ procPc' = [procPc EXCEPT ![p] = "locked"]
  /\ UNCHANGED <<chainVars, tasks, batch, batchTo, flushVars, infoVars, execq, processLen,
                 flushLen, lockVars, assigned, stored, askedVars, called>>

TakeTuple(p, t) ==
  /\ procPc[p] = "locked" /\ tasks[p] # <<>> /\ t = Head(tasks[p])
  /\ CanRead
  /\ tasks' = [tasks EXCEPT ![p] = Tail(@)]
  /\ procPc' = [procPc EXCEPT ![p] = "report"]

\* Submit one saved entry (its merged tuples) to the executors of T, as far as
\* they are still subscribed.
SaveCallback(S, T) ==
  execq' = [s \in Subs |-> IF s \in T \cap subscribers THEN Append(execq[s], <<"saved", S>>)
                                                ELSE execq[s]]

\* Mutant: a tuple merged into an entry is reported to flushCongestMon too.
DoProcessCountsAll(p, t, T) ==
  LET k == CellOf[t]
      inBatch == k \in CellsOf(batch[p]) IN
  /\ CellOf[t] \notin NoBatch /\ TakeTuple(p, t)
  /\ batch' = [batch EXCEPT ![p] = @ \cup {t}]
  /\ batchTo' = IF inBatch THEN batchTo ELSE [batchTo EXCEPT ![p][k] = T]
  /\ flushLen' = flushLen + 1
  /\ flushq' = IF batch[p] = {} THEN [flushq EXCEPT ![p] = Append(@, Check)] ELSE flushq
  /\ UNCHANGED <<chainVars, flushPc, saving, savingTo, saved, answering, infoVars, execq,
                 processLen, lockVars, assigned, stored, askedVars, called>>

\* Mutant: check_flush is called only when the batch already held something.
DoProcessChecksLate(p, t, T) ==
  LET k == CellOf[t]
      inBatch == k \in CellsOf(batch[p]) IN
  /\ CellOf[t] \notin NoBatch /\ TakeTuple(p, t)
  /\ batch' = [batch EXCEPT ![p] = @ \cup {t}]
  /\ batchTo' = IF inBatch THEN batchTo ELSE [batchTo EXCEPT ![p][k] = T]
  /\ flushLen' = IF inBatch THEN flushLen ELSE flushLen + 1
  /\ flushq' = IF batch[p] # {} THEN [flushq EXCEPT ![p] = Append(@, Check)] ELSE flushq
  /\ UNCHANGED <<chainVars, flushPc, saving, savingTo, saved, answering, infoVars, execq,
                 processLen, lockVars, assigned, stored, askedVars, called>>

\* DataCube::do_process, batching.  T are the subscribers that answered SEND or
\* SEND_UPDATE; only the first tuple of an entry records them.  A batch that
\* was empty gets a do_check_flush.
DoProcess(p, t, T) ==
  LET k == CellOf[t]
      inBatch == k \in CellsOf(batch[p]) IN
  /\ CellOf[t] \notin NoBatch /\ TakeTuple(p, t)
  /\ batch' = [batch EXCEPT ![p] = @ \cup {t}]
  /\ batchTo' = IF inBatch THEN batchTo ELSE [batchTo EXCEPT ![p][k] = T]
  /\ flushLen' = IF inBatch THEN flushLen ELSE flushLen + 1
  /\ flushq' = IF batch[p] = {} THEN [flushq EXCEPT ![p] = Append(@, Check)] ELSE flushq
  /\ UNCHANGED <<chainVars, flushPc, saving, savingTo, saved, answering, infoVars, execq,
                 processLen, lockVars, assigned, stored, askedVars, called>>

\* Mutant: the tuple is reported to flushCongestMon though it is not batched.
DoProcessNoBatchCounts(p, t, T) ==
  /\ CellOf[t] \in NoBatch /\ TakeTuple(p, t)
  /\ T # {}
  /\ stored' = stored \cup {t}
  /\ SaveCallback({t}, T)
  /\ flushLen' = flushLen + 1
  /\ UNCHANGED <<chainVars, batch, batchTo, flushVars, infoVars, processLen, lockVars,
                 assigned, askedVars, called>>

\* Mutant: save_tuple is skipped, only the callback is made.
DoProcessNoBatchDrops(p, t, T) ==
  /\ CellOf[t] \in NoBatch /\ TakeTuple(p, t)
  /\ T # {}
  /\ SaveCallback({t}, T)
  /\ UNCHANGED <<chainVars, batch, batchTo, flushVars, infoVars, processLen, flushLen,
                 lockVars, assigned, stored, askedVars, called>>

\* DataCube::do_process when some subscriber said SEND_NO_BATCH: TupleBatch
\* saves the tuple and calls back at once, in the processor thread.
DoProcessNoBatch(p, t, T) ==
  /\ CellOf[t] \in NoBatch /\ TakeTuple(p, t)
  /\ T # {}
  /\ stored' = stored \cup {t}
  /\ SaveCallback({t}, T)
  /\ UNCHANGED <<chainVars, batch, batchTo, flushVars, infoVars, processLen, flushLen,
                 lockVars, assigned, askedVars, called>>

\* The last line of do_process; batcherLock is released.
ReportDelete(p) ==
  /\ procPc[p] = "report"
  /\ procPc' = [procPc EXCEPT ![p] = "loop"]
  /\ processLen' = processLen - 1
  /\ UNCHANGED <<chainVars, tasks, batch, batchTo, flushVars, infoVars, execq, flushLen,
                 lockVars, assigned, stored, askedVars, called>>

\* Mutant: the barrier overtakes the handlers already posted.
PassBarrierFirst(p) ==
  /\ procPc[p] = "loop" /\ tasks[p] # <<>> /\ Head(tasks[p]) \in Flushes
  /\ tasks' = [tasks EXCEPT ![p] = Tail(@)]
  /\ flushq' = [flushq EXCEPT ![p] = <<Head(tasks[p])>> \o @]
  /\ UNCHANGED <<chainVars, procPc, batch, batchTo, flushPc, saving, savingTo, saved,
                 answering, infoVars, execq, processLen, flushLen, lockVars, assigned,
                 stored, askedVars, called>>

\* barrier_to_flushqueue.
PassBarrier(p) ==
  /\ procPc[p] = "loop" /\ tasks[p] # <<>> /\ Head(tasks[p]) \in Flushes
  /\ tasks' = [tasks EXCEPT ![p] = Tail(@)]
  /\ flushq' = [flushq EXCEPT ![p] = Append(@, Head(tasks[p]))]
  /\ UNCHANGED <<chainVars, procPc, batch, batchTo, flushPc, saving, savingTo, saved,
                 answering, infoVars, execq, processLen, flushLen, lockVars, assigned,
                 stored, askedVars, called>>

Drained(p) ==
  /\ procPc[p] = "loop" /\ tasks[p] = <<>>
  /\ procPc' = [procPc EXCEPT ![p] = "idle"]
  /\ UNCHANGED <<chainVars, tasks, batch, batchTo, flushVars, infoVars, execq, processLen,
                 flushLen, lockVars, assigned, stored, askedVars, called>>

-----------------------------------------------------------------------------
(* The flush thread: handlers of service_flush, in the order posted.       *)

StartCheck(p) ==
  /\ flushPc[p] = "idle" /\ flushq[p] # <<>> /\ Head(flushq[p]) = Check
  /\ flushq' = [flushq EXCEPT ![p] = Tail(@)]
  /\ flushPc' = [flushPc EXCEPT ![p] = "check"]
  /\ UNCHANGED <<chainVars, procVars, saving, savingTo, saved, answering, infoVars, execq,
                 processLen, flushLen, lockVars, assigned, stored, askedVars, called>>

\* No do_process of p is under way.
BatcherFree(p) == procPc[p] \in {"idle", "loop"}

\* Mutant: tupleBatcher.reset is forgotten.
BatchFlushKeeps(p) ==
  /\ flushPc[p] = "check" /\ batch[p] # {} /\ BatcherFree(p)
  /\ saving' = [saving EXCEPT ![p] = batch[p]]
  /\ savingTo' = [savingTo EXCEPT ![p] = batchTo[p]]
  /\ saved' = [saved EXCEPT ![p] = CellsOf(batch[p])]
  /\ flushPc' = [flushPc EXCEPT ![p] = "save"]
  /\ UNCHANGED <<chainVars, procVars, flushq, answering, infoVars, execq, processLen,
                 flushLen, lockVars, assigned, stored, askedVars, called>>

\* batcher_ready, then batch_flush swaps in an empty batch under batcherLock.
\* Only this thread empties the batch, so it is still ready when swapped.
BatchFlush(p) ==
  /\ flushPc[p] = "check" /\ batch[p] # {} /\ BatcherFree(p)
  /\ saving' = [saving EXCEPT ![p] = batch[p]]
  /\ savingTo' = [savingTo EXCEPT ![p] = batchTo[p]]
  /\ saved' = [saved EXCEPT ![p] = CellsOf(batch[p])]
  /\ batch' = [batch EXCEPT ![p] = {}]
  /\ batchTo' = [batchTo EXCEPT ![p] = [k \in Cells |-> {}]]
  /\ flushPc' = [flushPc EXCEPT ![p] = "save"]
  /\ UNCHANGED <<chainVars, tasks, procPc, flushq, answering, infoVars, execq, processLen,
                 flushLen, lockVars, assigned, stored, askedVars, called>>

CheckDone(p) ==
  /\ flushPc[p] = "check" /\ batch[p] = {}
  /\ flushPc' = [flushPc EXCEPT ![p] = "idle"]
  /\ UNCHANGED <<chainVars, procVars, flushq, saving, savingTo, saved, answering, infoVars,
                 execq, processLen, flushLen, lockVars, assigned, stored, askedVars, called>>

\* TupleBatch::flush: save_tuple_batch writes every entry ...
SaveBatch(p) ==
  /\ flushPc[p] = "save"
  /\ stored' = stored \cup saving[p]
  /\ flushPc' = [flushPc EXCEPT ![p] = "notify"]
  /\ UNCHANGED <<chainVars, procVars, flushq, saving, savingTo, saved, answering, infoVars,
                 execq, processLen, flushLen, lockVars, assigned, askedVars, called>>

\* ... then save_callback is called entry by entry, in key order.
Notify(p, k) ==
  LET S == {t \in saving[p] : CellOf[t] = k} IN
  /\ flushPc[p] = "notify" /\ S # {}
  /\ \A t \in saving[p] : k <= CellOf[t]
  /\ CanRead
  /\ SaveCallback(S, savingTo[p][k])
  /\ saving' = [saving EXCEPT ![p] = @ \ S]
  /\ UNCHANGED <<chainVars, procVars, flushq, flushPc, savingTo, saved, answering, infoVars,
                 processLen, flushLen, lockVars, assigned, stored, askedVars, called>>

\* flushCongestMon->report_delete(batch_size), then batcher_ready again.
ReportFlushed(p) ==
  /\ flushPc[p] = "notify" /\ saving[p] = {}
  /\ flushLen' = flushLen - Cardinality(saved[p])
  /\ saved' = [saved EXCEPT ![p] = {}]
  /\ flushPc' = [flushPc EXCEPT ![p] = "check"]
  /\ UNCHANGED <<chainVars, procVars, flushq, saving, savingTo, answering, infoVars, execq,
                 processLen, lockVars, assigned, stored, askedVars, called>>

\* Mutant: every flush thread that still finds a count answers.
DoBarrierEarly(p) ==
  LET f == Head(flushq[p]) IN
  /\ flushPc[p] = "idle" /\ flushq[p] # <<>> /\ f \in Flushes
  /\ flushq' = [flushq EXCEPT ![p] = Tail(@)]
  /\ count' = [count EXCEPT ![f] = @ - 1]
  /\ flushPc' = [flushPc EXCEPT ![p] = "answer"]
  /\ answering' = [answering EXCEPT ![p] = f]
  /\ UNCHANGED <<chainVars, procVars, saving, savingTo, saved, pushed, subsc, execq,
                 processLen, flushLen, lockVars, assigned, stored, askedVars, called>>

\* do_barrier: the thread that decrements 1 to 0 will answer.
DoBarrier(p) ==
  LET f == Head(flushq[p]) IN
  /\ flushPc[p] = "idle" /\ flushq[p] # <<>> /\ f \in Flushes
  /\ flushq' = [flushq EXCEPT ![p] = Tail(@)]
  /\ count' = [count EXCEPT ![f] = @ - 1]
  /\ IF count[f] = 1
       THEN /\ flushPc' = [flushPc EXCEPT ![p] = "answer"]
            /\ answering' = [answering EXCEPT ![p] = f]
       ELSE UNCHANGED <<flushPc, answering>>
  /\ UNCHANGED <<chainVars, procVars, saving, savingTo, saved, pushed, subsc, execq,
                 processLen, flushLen, lockVars, assigned, stored, askedVars, called>>

\* Subscriber::flush_callback submits post_flush to the executor of subsc.
FlushCallback(p) ==
  LET f == answering[p] IN
  /\ flushPc[p] = "answer"
  /\ execq' = [execq EXCEPT ![subsc[f]] = Append(@, <<"flush", f>>)]
  /\ called' = called \cup {f}
  /\ flushPc' = [flushPc EXCEPT ![p] = "idle"]
  /\ answering' = [answering EXCEPT ![p] = None]
  /\ UNCHANGED <<chainVars, procVars, flushq, saving, savingTo, saved, infoVars, processLen,
                 flushLen, lockVars, assigned, stored, askedVars>>

-----------------------------------------------------------------------------
(* Subscribers: the executor thread, and add_ and remove_subscriber.       *)

\* The executor runs post_insert, post_update or post_flush.
RunCallback(s) ==
  /\ execq[s] # <<>>
  /\ execq' = [execq EXCEPT ![s] = Tail(@)]
  /\ UNCHANGED <<chainVars, procVars, flushVars, infoVars, processLen, flushLen, lockVars,
                 assigned, stored, askedVars, called>>

\* A new subscriber's add_subscriber, or remove_subscriber at the end of the
\* emit_wrapper of a subscriber that finished, is called.
CallWriter(s) ==
  /\ s \in Movers \ wants
  /\ (s \in attached => s \in subscribers /\ inFlush[s] = None)
  /\ wants' = wants \cup {s}
  /\ UNCHANGED <<chainVars, procVars, flushVars, infoVars, execq, processLen, flushLen,
                 subscribers, attached, writerWaits, assigned, stored, askedVars, called>>

\* It meets a reader: it waits, and no new reader gets in.
WriterBlocks(s) ==
  /\ s \in wants /\ Readers # {} /\ ~writerWaits
  /\ writerWaits' = TRUE
  /\ UNCHANGED <<chainVars, procVars, flushVars, infoVars, execq, processLen, flushLen,
                 subscribers, attached, wants, assigned, stored, askedVars, called>>

\* It has the lock exclusively.
WriterRuns(s) ==
  /\ s \in wants /\ Readers = {}
  /\ subscribers' = IF s \in attached THEN subscribers \ {s} ELSE subscribers \cup {s}
  /\ attached' = attached \cup {s}
  /\ wants' = wants \ {s}
  /\ UNCHANGED <<chainVars, procVars, flushVars, infoVars, execq, processLen, flushLen,
                 writerWaits, assigned, stored, askedVars, called>>

-----------------------------------------------------------------------------
Chain(c) ==
  \/ Assign(c) \/ EndMeta(c) \/ Barrier(c)
  \/ \E s \in Subs : VisitQuietly(c, s)

Processor(p) ==
  \/ Wake(p) \/ LockBatch(p) \/ ReportDelete(p) \/ PassBarrier(p) \/ Drained(p)
  \/ \E t \in Tuples, T \in SUBSET subscribers :
       DoProcess(p, t, T) \/ DoProcessNoBatch(p, t, T)

Flusher(p) ==
  \/ StartCheck(p) \/ BatchFlush(p) \/ CheckDone(p) \/ SaveBatch(p)
  \/ ReportFlushed(p) \/ DoBarrier(p) \/ FlushCallback(p)
  \/ \E k \in Cells : Notify(p, k)

Writer(s) == CallWriter(s) \/ WriterBlocks(s) \/ WriterRuns(s)

\* What only an input decides: a tuple or a meta message arrives, a subscriber
\* asks for a flush, comes or goes.
Arrival ==
  \/ \E c \in Chains : BeginMeta(c)
  \/ \E c \in Chains, t \in Tuples : ReportInsert(c, t)
  \/ \E c \in Chains, s \in Subs, f \in Flushes : VisitFlush(c, s, f)
  \/ \E s \in Subs, f \in Flushes : EmitBatch(s, f)
  \/ \E s \in Subs : Writer(s)

\* What the cube's and the chains' threads do by themselves.
Work ==
  \/ \E c \in Chains : Chain(c)
  \/ \E s \in Subs : Barrier(s) \/ RunCallback(s)
  \/ \E p \in Procs : Processor(p) \/ Flusher(p)

Next == Arrival \/ Work

Spec == Init /\ [][Next]_vars

\* Every thread of the cube and of a chain that can go on does; the executors of
\* the subscribers need not.  process_lock is a plain mutex: with finitely many
\* tuples its holder runs out of work, so weak fairness is enough.
Fairness ==
  /\ \A c \in Chains : WF_vars(Chain(c))
  /\ \A s \in Subs : WF_vars(Barrier(s))
  /\ \A p \in Procs : WF_vars(Processor(p)) /\ WF_vars(Flusher(p))

-----------------------------------------------------------------------------
Calls == ({"saved"} \X SUBSET Tuples) \cup ({"flush"} \X Flushes)

TypeOK ==
  /\ chainPc \in [Chains -> {"idle", "assign", "meta"}]
  /\ hand \in [Chains -> Tuples \cup {None}]
  /\ metaLeft \in [Chains -> SUBSET Subs]
  /\ inFlush \in [Callers -> Flushes \cup {None}]
  /\ tasks \in [Procs -> Seq(Tuples \cup Flushes)]
  /\ procPc \in [Procs -> {"idle", "loop", "locked", "report"}]
  /\ batch \in [Procs -> SUBSET Tuples]
  /\ batchTo \in [Procs -> [Cells -> SUBSET Subs]]
  /\ flushq \in [Procs -> Seq(Flushes \cup {Check})]
  /\ flushPc \in [Procs -> {"idle", "check", "save", "notify", "answer"}]
  /\ saving \in [Procs -> SUBSET Tuples]
  /\ savingTo \in [Procs -> [Cells -> SUBSET Subs]]
  /\ saved \in [Procs -> SUBSET Cells]
  /\ answering \in [Procs -> Flushes \cup {None}]
  /\ count \in [Flushes -> 0 .. NumProcs] /\ pushed \in [Flushes -> 0 .. NumProcs]
  /\ subsc \in [Flushes -> Subs \cup {None}]
  /\ execq \in [Subs -> Seq(Calls)]
  /\ processLen \in Int /\ flushLen \in Int
  /\ subscribers \subseteq Subs /\ attached \subseteq Subs /\ wants \subseteq Subs
  /\ writerWaits \in BOOLEAN
  /\ assigned \subseteq Tuples /\ stored \subseteq Tuples
  /\ started \subseteq Flushes /\ issued \subseteq Flushes /\ called \subseteq Flushes
  /\ before \in [Flushes -> SUBSET Tuples] /\ earlier \in [Flushes -> SUBSET Flushes]

\* When flush_callback is submitted, every tuple that DataCube::process had
\* handed over before the flush was requested is saved, whichever of the
\* processors took it: what a subscriber's post_flush query relies on.
FlushBarrier == \A f \in called : before[f] \subseteq stored

\* No insert or update callback for a tuple of before[f] comes to f's
\* subscriber after post_flush(f): neither is one queued behind it, nor is a
\* flush thread still going to submit one.
CallbacksBeforeFlush ==
  \A f \in called :
    /\ \A p \in Procs : saving[p] \cap before[f] = {}
    /\ \A i, j \in DOMAIN execq[subsc[f]] :
         LET q == execq[subsc[f]] IN
         i < j /\ q[i] = <<"flush", f>> /\ q[j][1] = "saved" => q[j][2] \cap before[f] = {}

\* A tuple handed over is in exactly one place (queue, batch, a batch being
\* saved) or saved: none is lost or saved twice by the swap of batch_flush.
Unsaved(p) == batch[p] \cup (IF flushPc[p] = "save" THEN saving[p] ELSE {})
TupleConservation ==
  /\ \A p \in Procs :
       /\ Elems(tasks[p]) \cap (Unsaved(p) \cup stored) = {}
       /\ batch[p] \cap saving[p] = {} /\ Unsaved(p) \cap stored = {}
       /\ Once(Tuples, tasks[p])
  /\ assigned = stored \cup UNION {Unsaved(p) \cup (Elems(tasks[p]) \ Flushes) : p \in Procs}

\* The tuples between report_insert and their processor's queue, or in it; the
\* processors that have a tuple still to report; and the entries being batched
\* and being saved.
Waiting == InHands \cup ((UNION {Elems(tasks[p]) : p \in Procs}) \ Flushes)
Reporting == {p \in Procs : procPc[p] = "report"}
BatchedCells == CellsOf(UNION {batch[p] : p \in Procs})
SavedCells == UNION {saved[p] : p \in Procs}

\* The two queue lengths that wait_for_commits and the congestion monitors read
\* are exact: processLen counts the tuples between report_insert and the end of
\* do_process, flushLen the entries between insert_tuple and the end of flush.
QueueLengthsExact ==
  /\ processLen = Cardinality(Waiting) + Cardinality(Reporting)
  /\ flushLen = Cardinality(BatchedCells) + Cardinality(SavedCells)

\* What is still to be done, and what the actions of Work test: a thread with something
\* to do goes on unless it waits for a process_lock, a batcherLock or subscriberLock.
WorkLeft ==
  \/ InHands # {} \/ Readers # {} \/ \E x \in Callers : inFlush[x] # None
  \/ \E p \in Procs : tasks[p] # <<>> \/ batch[p] # {} \/ flushq[p] # <<>> \/ flushPc[p] # "idle"
CallerCanGo(x) == inFlush[x] # None /\ procPc[pushed[inFlush[x]] + 1] = "idle"
ChainCanGo(c) ==
  \/ chainPc[c] = "assign" /\ procPc[ProcOf[CellOf[hand[c]]]] = "idle"
  \/ chainPc[c] = "meta" /\ inFlush[c] = None
ProcessorCanGo(p) ==
  \/ procPc[p] \in {"loop", "report"}
  \/ procPc[p] = "idle" /\ tasks[p] # <<>>
  \/ procPc[p] = "locked" /\ CanRead
FlusherCanGo(p) ==
  \/ flushPc[p] \in {"save", "answer"}
  \/ flushPc[p] = "check" /\ (batch[p] = {} \/ BatcherFree(p))
  \/ flushPc[p] = "idle" /\ flushq[p] # <<>>
  \/ flushPc[p] = "notify" /\ (saving[p] = {} \/ CanRead)
CanWork ==
  \/ \E x \in Callers : CallerCanGo(x)
  \/ \E c \in Chains : ChainCanGo(c)
  \/ \E p \in Procs : ProcessorCanGo(p) \/ FlusherCanGo(p)
GuardsEnable == CanWork => ENABLED Work

\* A stall that leaves work undone needs a subscriber coming or going: some
\* chain keeps subscriberLock through DataCube::flush and waits for the
\* process_lock of a processor, which waits in do_process for subscriberLock,
\* behind the writer.
\* Whoever waits for no lock can go on.
StallNeedsWriter ==
  /\ GuardsEnable
  /\ WorkLeft /\ ~ENABLED Work =>
       /\ writerWaits /\ wants # {}
       /\ \E c \in Readers : inFlush[c] # None /\ procPc[pushed[inFlush[c]] + 1] = "locked"

\* The cube keeps CubePromise: every step is one of the abstract specification.
Promise == INSTANCE CubePromise
KeepsPromise == Promise!Spec

\* A tuple that was handed over is saved in the end: the cube always gets to a
\* state where nothing that was handed over is unsaved.
EventuallyStored == []<>(assigned \subseteq stored)
\* A flush that was requested is answered in the end: the count that the flush
\* threads of all processors decrement is collected.
EventuallyAnswered == \A f \in Flushes : f \in started ~> f \in called
=============================================================================
