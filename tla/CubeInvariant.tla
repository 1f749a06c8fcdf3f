--------------------------- MODULE CubeInvariant ---------------------------
(***************************************************************************)
(* The inductive invariant of CubePipeline, from which CubePipelineProofs  *)
(* derives that a cube keeps CubePromise.                                  *)
(***************************************************************************)
EXTENDS CubePipeline

\* A chain between report_insert and assign holds a tuple no one else has.
HandsInv ==
  /\ \A c \in Chains : chainPc[c] = "assign" <=> hand[c] # None
  /\ \A c \in Chains : hand[c] \notin assigned
  /\ \A c, d \in Chains : hand[c] = hand[d] /\ hand[c] # None => c = d

\* Where processor p keeps tuples.
Kept(p) == Elems(tasks[p]) \cup batch[p] \cup saving[p]

\* A tuple is in one place of its processor at a time, and stored once.
PlacesAt(p) ==
  /\ \A t \in Tuples : t \in Kept(p) => t \in assigned /\ ProcOf[CellOf[t]] = p
  /\ Once(Tuples, tasks[p])
  /\ Elems(tasks[p]) \cap (batch[p] \cup saving[p] \cup stored) = {}
  /\ batch[p] \cap (saving[p] \cup stored) = {}
  /\ flushPc[p] = "save" => saving[p] # {} /\ saving[p] \cap stored = {}
  /\ flushPc[p] = "notify" => saving[p] \subseteq stored
  /\ flushPc[p] \notin {"save", "notify"} => saving[p] = {}

\* Every tuple handed over is kept by the processor its cell hashes to until it
\* is stored.
PlacesInv ==
  /\ stored \subseteq assigned
  /\ \A t \in assigned \ stored : \E p \in Procs : t \in Kept(p)
  /\ \A p \in Procs : PlacesAt(p)

\* The processors that flush f has not passed: not given the barrier yet, or
\* the barrier still in one of their two queues.
Left(f) ==
  {p \in Procs : pushed[f] < p \/ f \in Elems(tasks[p]) \/ f \in Elems(flushq[p])}

\* A barrier is in a processor's queues at most once, and only after it was pushed.
TravelAt(p) ==
  /\ Once(Flushes, tasks[p]) /\ Once(Flushes, flushq[p])
  /\ \A f \in Flushes :
       /\ f \in Elems(tasks[p]) \/ f \in Elems(flushq[p]) => f \in started /\ p <= pushed[f]
       /\ ~(f \in Elems(tasks[p]) /\ f \in Elems(flushq[p]))

\* A flush that is issued has been pushed to every processor, and one that is
\* started and not issued is being pushed by one caller.
RequestInv ==
  /\ issued \subseteq started
  /\ \A f \in Flushes \ started : pushed[f] = 0
  /\ \A f \in started : (f \in issued <=> pushed[f] = NumProcs) /\ subsc[f] \in Subs
  /\ \A x \in Callers : inFlush[x] # None => inFlush[x] \in started \ issued
  /\ \A x, y \in Callers : inFlush[x] = inFlush[y] /\ inFlush[x] # None => x = y

TravelInv == \A p \in Procs : TravelAt(p)

\* FlushInfo::count is the number of processors left; when none is, the flush
\* is answered or one flush thread is about to answer it.
CountInv ==
  /\ called \subseteq started
  /\ \A f \in started :
       /\ count[f] = Cardinality(Left(f))
       /\ Left(f) = {} <=> f \in called \/ \E p \in Procs : answering[p] = f
  /\ \A p \in Procs :
       /\ flushPc[p] = "answer" <=> answering[p] # None
       /\ answering[p] # None => answering[p] \in started \ called
       /\ \A r \in Procs : answering[p] = answering[r] /\ answering[p] # None => p = r

\* The flush thread is in do_check_flush's loop and will look at the batch again.
Looping(p) == flushPc[p] \in {"check", "save", "notify"}

\* A batch that is not empty will be flushed.
BatchSeen(p) == batch[p] # {} => Looping(p) \/ Check \in Elems(flushq[p])

\* What was handed over or issued before f is ahead of f in the queues of p, and
\* gone from p once f has passed.
OrderAt(p, f) ==
  /\ AllAhead(before[f] \cup earlier[f], f, tasks[p])
  /\ AllAhead(earlier[f], f, flushq[p])
  /\ p <= pushed[f] /\ f \notin Elems(tasks[p]) =>
       Elems(tasks[p]) \cap (before[f] \cup earlier[f]) = {}
  /\ f \in Elems(flushq[p]) /\ batch[p] \cap before[f] # {} =>
       Looping(p) \/ SomeAhead(Check, f, flushq[p])
  /\ p \notin Left(f) =>
       /\ (batch[p] \cup saving[p]) \cap before[f] = {}
       /\ Elems(flushq[p]) \cap earlier[f] = {}
       /\ answering[p] \notin earlier[f]

OrderInv ==
  /\ \A f \in Flushes :
       before[f] \subseteq assigned /\ earlier[f] \subseteq issued /\ f \notin earlier[f]
  /\ \A p \in Procs : BatchSeen(p) /\ \A f \in started : OrderAt(p, f)

\* The executors hold post_flush(f) only for answered flushes, and behind it no
\* callback for a tuple of before[f].
ExecInv ==
  \A s \in Subs : \A i \in DOMAIN execq[s] : \A f \in Flushes :
    execq[s][i] = <<"flush", f>> =>
      /\ f \in called
      /\ \A j \in DOMAIN execq[s] :
           i < j /\ execq[s][j][1] = "saved" => execq[s][j][2] \cap before[f] = {}

SafeInv ==
  /\ HandsInv /\ PlacesInv /\ RequestInv /\ TravelInv /\ CountInv /\ OrderInv /\ ExecInv

\* processLen and what it counts, which is finite.
ProcessExact == IsFiniteSet(Waiting) /\ processLen = Cardinality(Waiting) + Cardinality(Reporting)

\* flushLen and what it counts: a batch that is being saved has entries of its own
\* processor only, until report_delete.
FlushExact ==
  /\ \A p \in Procs :
       /\ \A k \in saved[p] : ProcOf[k] = p
       /\ flushPc[p] \notin {"save", "notify"} => saved[p] = {}
  /\ flushLen = Cardinality(BatchedCells) + Cardinality(SavedCells)

\* A writer that holds new readers off belongs to a call, and waits for a reader.
LockInv == writerWaits => wants # {} /\ Readers # {}

\* What CubePipelineProofs shows every step preserves; on top of it the queue lengths.
IInv == TypeOK /\ SafeInv
LengthInv == ProcessExact /\ FlushExact
=============================================================================
