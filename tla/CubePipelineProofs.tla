------------------------- MODULE CubePipelineProofs -------------------------
(***************************************************************************)
(* Proofs about CubePipeline, part 2, for any number of processors, tuples, *)
(* chains, subscribers and flushes: IInv (module CubeInvariant) is         *)
(* inductive, and from it the cube keeps CubePromise.                      *)
(***************************************************************************)
EXTENDS CubeStepProofs, CubeWait, FiniteSetTheorems

USE ZenonT(3), SMTT(20), Z3T(20), ZenonT(20) DEF chainVars, procVars, flushVars, infoVars, lockVars, askedVars

-----------------------------------------------------------------------------
(* The theorems.                                                           *)

\* Before the first tuple, nothing is queued, held or requested.
LEMMA InitInv == Init => IInv
<1> SUFFICES ASSUME Init PROVE IInv
  OBVIOUS
<1> USE DEF Init
<1>a. /\ tasks \in [Procs -> Seq(Tuples \cup Flushes)] /\ flushq \in [Procs -> Seq(Flushes \cup {Check})]
      /\ execq \in [Subs -> Seq(Calls)]
  OBVIOUS
<1>b. count \in [Flushes -> 0 .. NumProcs] /\ pushed \in [Flushes -> 0 .. NumProcs]
  BY ProcsAssumption
<1>c. batchTo \in [Procs -> [Cells -> SUBSET Subs]] /\ savingTo \in [Procs -> [Cells -> SUBSET Subs]]
  OBVIOUS
<1>d. /\ chainPc \in [Chains -> {"idle", "assign", "meta"}] /\ hand \in [Chains -> Tuples \cup {None}]
      /\ metaLeft \in [Chains -> SUBSET Subs] /\ inFlush \in [Callers -> Flushes \cup {None}]
      /\ subsc \in [Flushes -> Subs \cup {None}]
  OBVIOUS
<1>e. /\ procPc \in [Procs -> {"idle", "loop", "locked", "report"}] /\ batch \in [Procs -> SUBSET Tuples]
      /\ flushPc \in [Procs -> {"idle", "check", "save", "notify", "answer"}]
      /\ saving \in [Procs -> SUBSET Tuples] /\ saved \in [Procs -> SUBSET Cells]
      /\ answering \in [Procs -> Flushes \cup {None}]
  OBVIOUS
<1>h. processLen \in Int /\ flushLen \in Int
  OBVIOUS
<1>i. writerWaits \in BOOLEAN
  BY ZenonT(20)
<1>f. /\ subscribers \subseteq Subs /\ attached \subseteq Subs /\ wants \subseteq Subs
      /\ assigned \subseteq Tuples /\ stored \subseteq Tuples
      /\ started \subseteq Flushes /\ issued \subseteq Flushes /\ called \subseteq Flushes
  BY SubsAssumption
<1>g. before \in [Flushes -> SUBSET Tuples] /\ earlier \in [Flushes -> SUBSET Flushes]
  OBVIOUS
<1>1. TypeOK
  <2> USE DEF TypeOK
  <2> HIDE DEF Init
  <2> QED BY ZenonT(20), <1>a, <1>b, <1>c, <1>d, <1>e, <1>f, <1>g, <1>h, <1>i
<1>2. \A p \in Procs : Elems(tasks[p]) = {} /\ Elems(flushq[p]) = {}
  BY DEF Elems
<1>3. HandsInv
  BY DEF HandsInv
<1>4. PlacesInv
  BY SMTT(20), Z3T(20), SMTT(30), <1>2 DEF PlacesInv, PlacesAt, Kept, Once
<1>5. RequestInv
  BY DEF RequestInv
<1>6. TravelInv
  BY SMTT(20), Z3T(20), SMTT(30), <1>2 DEF TravelInv, TravelAt, Once
<1>7. CountInv
  BY DEF CountInv
<1>8. OrderInv
  BY DEF OrderInv, BatchSeen
<1>9. ExecInv
  BY DEF ExecInv
<1> QED BY ZenonT(20), <1>1, <1>3, <1>4, <1>5, <1>6, <1>7, <1>8, <1>9 DEF IInv, SafeInv

\* A cube has finitely many processors and cells: the facts about counts the proofs use.
LEMMA CountingHolds == Counting
<1>1. IsFiniteSet(Procs) /\ Cardinality(Procs) = NumProcs
  BY FS_Interval, ProcsAssumption DEF Procs
<1>2. \A S \in SUBSET Cells : Cardinality(S) \in Nat
  BY ZenonT(20), CellsAssumption, FS_Subset, FS_CardinalityType
<1>3. ASSUME NEW S \in SUBSET Procs
      PROVE  /\ Cardinality(S) \in Nat /\ (Cardinality(S) = 0 <=> S = {})
             /\ \A p \in S : Cardinality(S \ {p}) = Cardinality(S) - 1
  <2>1. IsFiniteSet(S)
    BY <1>1, FS_Subset
  <2> QED BY <2>1, FS_CardinalityType, FS_EmptySet, FS_RemoveElement
<1> QED BY <1>1, <1>2, <1>3 DEF Counting

\* Every step of every thread keeps the invariant.
LEMMA InvStep == IInv /\ [Next]_vars => IInv'
<1> SUFFICES ASSUME IInv, [Next]_vars PROVE IInv'
  OBVIOUS
<1>0. TypeOK /\ SafeInv /\ HandsInv
  BY DEF IInv, SafeInv
<1>1. CASE UNCHANGED vars
  <2>1. HandsInv'
    BY <1>0, <1>1, HandsFrame DEF vars
  <2> QED BY ZenonT(20), <1>0, <1>1, <2>1, QuietStep, CountingHolds, TypeStep DEF vars, IInv
<1>2. CASE Next
  <2>1. ASSUME NEW c \in Chains, NEW t \in Tuples, ReportInsert(c, t) PROVE SafeInv'
    <3>1. HandsInv'
      BY SMTT(20), Z3T(20), SMTT(30), <1>0, <2>1, KindsAssumption DEF HandsInv, ReportInsert, TypeOK, InHands
    <3> QED BY <1>0, <2>1, <3>1, QuietStep DEF ReportInsert
  <2>2. ASSUME NEW c \in Chains, Assign(c) PROVE SafeInv'
    BY <2>2, AssignStep
  <2>3. ASSUME NEW c \in Chains, BeginMeta(c) \/ EndMeta(c) PROVE SafeInv'
    <3>1. HandsInv'
      BY ZenonT(20), <1>0, <2>3 DEF HandsInv, BeginMeta, EndMeta, TypeOK
    <3> QED BY <1>0, <2>3, <3>1, QuietStep DEF BeginMeta, EndMeta
  <2>4. ASSUME NEW c \in Chains, NEW s \in Subs, VisitQuietly(c, s) PROVE SafeInv'
    <3>1. HandsInv'
      BY <1>0, <2>4, HandsFrame DEF VisitQuietly
    <3> QED BY <1>0, <2>4, <3>1, QuietStep DEF VisitQuietly
  <2>5. ASSUME NEW c \in Chains, NEW s \in Subs, NEW f \in Flushes, VisitFlush(c, s, f)
        PROVE  SafeInv'
    <3>1. /\ c \in Callers /\ inFlush[c] = None /\ StartFlush(c, f, s)
          /\ UNCHANGED <<chainPc, hand, procVars, flushVars, execq, assigned, stored, called>>
      BY <2>5 DEF VisitFlush, Callers
    <3> QED BY <3>1, CountingHolds, RequestStep
  <2>6. ASSUME NEW s \in Subs, NEW f \in Flushes, EmitBatch(s, f) PROVE SafeInv'
    <3>1. /\ s \in Callers /\ inFlush[s] = None /\ StartFlush(s, f, s)
          /\ UNCHANGED <<chainPc, hand, procVars, flushVars, execq, assigned, stored, called>>
      BY <2>6 DEF EmitBatch, Callers
    <3> QED BY <3>1, CountingHolds, RequestStep
  <2>7. ASSUME NEW x \in Callers, Barrier(x) PROVE SafeInv'
    BY <2>7, BarrierStep
  <2>8. ASSUME NEW p \in Procs, Wake(p) \/ LockBatch(p) \/ ReportDelete(p) \/ Drained(p) PROVE SafeInv'
    <3>1. HandsInv'
      BY <1>0, <2>8, HandsFrame DEF Wake, LockBatch, ReportDelete, Drained
    <3> QED BY <1>0, <2>8, <3>1, QuietStep DEF Wake, LockBatch, ReportDelete, Drained
  <2>9. ASSUME NEW p \in Procs, Processor(p) PROVE SafeInv'
    BY ZenonT(20), <2>8, <2>9, DoProcessStep, DoProcessNoBatchStep, PassBarrierStep DEF Processor
  <2>10. ASSUME NEW p \in Procs, Flusher(p) PROVE SafeInv'
    BY ZenonT(20), <2>10, CountingHolds, StartCheckStep, BatchFlushStep, CheckDoneStep, SaveBatchStep, NotifyStep,
       ReportFlushedStep, DoBarrierStep, FlushCallbackStep DEF Flusher
  <2>11. ASSUME NEW s \in Subs, RunCallback(s) PROVE SafeInv'
    BY <2>11, RunCallbackStep
  <2>12. ASSUME NEW s \in Subs, Writer(s) PROVE SafeInv'
    <3>1. HandsInv'
      BY <1>0, <2>12, HandsFrame DEF Writer, CallWriter, WriterBlocks, WriterRuns
    <3> QED BY ZenonT(20), <1>0, <2>12, <3>1, QuietStep DEF Writer, CallWriter, WriterBlocks, WriterRuns
  <2>13. SafeInv'
    BY ZenonT(20), <1>2, <2>1, <2>2, <2>3, <2>4, <2>5, <2>6, <2>7, <2>9, <2>10, <2>11, <2>12
    DEF Next, Arrival, Work, Chain, Callers
  <2> QED BY <1>2, <2>13, CountingHolds, TypeStep DEF IInv
<1> QED BY <1>1, <1>2

\* In every behaviour of the cube's threads the whole invariant holds: each
\* tuple in one place of the processor its cell hashes to, each barrier behind
\* what it waits for, each FlushInfo::count the number of processors left.
THEOREM Invariance == Spec => []IInv
BY InitInv, InvStep, PTL DEF Spec

\* The types of all the variables, FlushInfo::count between 0 and the number of
\* processors included (do_barrier never decrements a count that is zero).
THEOREM TypeCorrect == Spec => []TypeOK
<1>1. IInv => TypeOK
  BY DEF IInv
<1> QED BY <1>1, Invariance, PTL

\* A flush that is answered, or about to be, finds everything it waits for stored.
LEMMA AnsweredStored ==
  ASSUME IInv, NEW f \in Flushes, f \in called \/ \E p \in Procs : answering[p] = f
  PROVE  before[f] \subseteq stored
<1>1. f \in started /\ Left(f) = {}
  BY AnsweredPassed
<1> SUFFICES ASSUME NEW t \in before[f], t \notin stored PROVE FALSE
  OBVIOUS
<1>2. t \in Tuples /\ t \in assigned
  BY DEF IInv, SafeInv, OrderInv, TypeOK
<1>3. PICK p \in Procs : t \in Kept(p)
  BY <1>2 DEF IInv, SafeInv, PlacesInv
<1>4. OrderAt(p, f) /\ p \notin Left(f) /\ p <= pushed[f] /\ f \notin Elems(tasks[p])
  BY ZenonT(20), <1>1, PassedFacts DEF IInv, SafeInv, OrderInv
<1> QED BY <1>3, <1>4 DEF OrderAt, Kept

\* flush_callback is submitted only when every tuple handed over before the
\* flush was requested is saved, on whichever processor.
THEOREM FlushBarrierHolds == Spec => []FlushBarrier
<1>1. IInv => FlushBarrier
  BY AnsweredStored DEF FlushBarrier, IInv, TypeOK
<1> QED BY <1>1, Invariance, PTL

\* After post_flush(f) no insert or update callback for a tuple of before[f]
\* reaches f's subscriber.
THEOREM CallbacksInOrder == Spec => []CallbacksBeforeFlush
<1>1. ASSUME IInv PROVE CallbacksBeforeFlush
  <2> SUFFICES ASSUME NEW f \in called
               PROVE  /\ \A p \in Procs : saving[p] \cap before[f] = {}
                      /\ \A i, j \in DOMAIN execq[subsc[f]] :
                           i < j /\ execq[subsc[f]][i] = <<"flush", f>> /\ execq[subsc[f]][j][1] = "saved"
                             => execq[subsc[f]][j][2] \cap before[f] = {}
    BY DEF CallbacksBeforeFlush
  <2>1. f \in Flushes /\ f \in started /\ Left(f) = {} /\ subsc[f] \in Subs
    BY ZenonT(20), <1>1, AnsweredPassed DEF IInv, SafeInv, TypeOK, RequestInv
  <2>2. \A p \in Procs : saving[p] \cap before[f] = {}
    BY ZenonT(20), <1>1, <2>1 DEF IInv, SafeInv, OrderInv, OrderAt
  <2> QED BY ZenonT(20), <1>1, <2>1, <2>2 DEF IInv, SafeInv, ExecInv
<1> QED BY <1>1, Invariance, PTL

\* No tuple is lost or kept twice on its way: one that was handed over is
\* saved, or waits in one place of one processor.
THEOREM TuplesConserved == Spec => []TupleConservation
<1>1. ASSUME IInv PROVE TupleConservation
  <2>1. TypeOK /\ PlacesInv
    BY <1>1 DEF IInv, SafeInv
  <2>2. ASSUME NEW p \in Procs
        PROVE  /\ Elems(tasks[p]) \cap (Unsaved(p) \cup stored) = {}
               /\ batch[p] \cap saving[p] = {} /\ Unsaved(p) \cap stored = {}
               /\ Once(Tuples, tasks[p])
    BY SMTT(20), Z3T(20), SMTT(30), <2>1 DEF PlacesInv, PlacesAt, Unsaved, TypeOK
  <2>3. ASSUME NEW p \in Procs
        PROVE  /\ Unsaved(p) \cup (Elems(tasks[p]) \ Flushes) \subseteq assigned
               /\ \A t \in Kept(p) \cap (assigned \ stored) : t \in Unsaved(p) \cup (Elems(tasks[p]) \ Flushes)
    <3>1. PlacesAt(p) /\ batch[p] \subseteq Tuples /\ saving[p] \subseteq Tuples /\ assigned \subseteq Tuples
      BY <2>1 DEF PlacesInv, TypeOK
    <3>2. Elems(tasks[p]) \subseteq Tuples \cup Flushes
      BY SMTT(20), Z3T(20), SMTT(30), <2>1 DEF TypeOK, Elems
    <3>3. Tuples \cap Flushes = {}
      BY KindsAssumption
    <3>4. flushPc[p] = "notify" \/ Unsaved(p) = batch[p] \cup saving[p]
      BY <3>1 DEF PlacesAt, Unsaved
    <3> QED BY <2>1, <3>1, <3>2, <3>3, <3>4 DEF PlacesAt, Kept, Unsaved
  <2>4. assigned = stored \cup UNION {Unsaved(p) \cup (Elems(tasks[p]) \ Flushes) : p \in Procs}
    BY ZenonT(20), <2>1, <2>3 DEF PlacesInv
  <2> QED BY <2>2, <2>4 DEF TupleConservation
<1> QED BY <1>1, Invariance, PTL

-----------------------------------------------------------------------------
(* The refinement.                                                         *)

\* When the last flush thread answers f, every flush issued before f was
\* requested has been answered already.
LEMMA EarlierAnswered ==
  ASSUME IInv, NEW p \in Procs, NEW f \in Flushes, answering[p] = f
  PROVE  earlier[f] \subseteq called
<1>1. f \in started /\ Left(f) = {}
  BY AnsweredPassed
<1> SUFFICES ASSUME NEW g \in earlier[f] PROVE g \in called
  OBVIOUS
<1>2. g \in Flushes /\ g \in issued /\ g \in started /\ pushed[g] = NumProcs
  BY DEF IInv, SafeInv, OrderInv, RequestInv, TypeOK
<1>3. ASSUME NEW r \in Procs PROVE r \notin Left(g) /\ answering[r] # g
  <2>1. /\ OrderAt(r, f) /\ r \notin Left(f) /\ r <= pushed[f]
        /\ f \notin Elems(tasks[r])
    BY <1>1, PassedFacts DEF IInv, SafeInv, OrderInv
  <2>2. g \notin Elems(tasks[r]) /\ g \notin Elems(flushq[r]) /\ answering[r] # g
    BY <2>1 DEF OrderAt
  <2>3. r <= pushed[g]
    BY SMTT(20), Z3T(20), SMTT(30), <1>2, ProcsAssumption DEF Procs
  <2> QED BY ZenonT(20), <1>2, <2>2, <2>3, PassedFacts DEF IInv
<1>4. Left(g) = {}
  BY <1>3 DEF Left
<1> QED BY <1>2, <1>3, <1>4 DEF IInv, SafeInv, CountInv

\* Every step of the cube is a step of the promise or changes nothing it names.
LEMMA PromiseStep == IInv /\ [Next]_vars => [Promise!Next]_(Promise!vars)
<1> SUFFICES ASSUME IInv, Next, ~UNCHANGED <<assigned, stored, issued, before, earlier, started, called>>
             PROVE  Promise!Next
  BY DEF vars, Promise!vars
<1>0. TypeOK /\ HandsInv /\ PlacesInv /\ RequestInv /\ CountInv
  BY DEF IInv, SafeInv
<1>1. ASSUME NEW c \in Chains, Assign(c) PROVE Promise!Next
  <2>1. hand[c] \in Tuples /\ hand[c] \notin assigned
    BY SMTT(20), Z3T(20), SMTT(30), <1>0, <1>1 DEF Assign, HandsInv, TypeOK
  <2>2. Promise!Hand(hand[c])
    BY <1>1, <2>1 DEF Assign, Promise!Hand
  <2> QED BY <2>1, <2>2 DEF Promise!Next
<1>2. ASSUME NEW x, NEW s, NEW f \in Flushes, StartFlush(x, f, s),
              UNCHANGED <<assigned, stored, called>> PROVE Promise!Next
  BY ZenonT(20), <1>2 DEF StartFlush, Promise!Request, Promise!Next
<1>3. ASSUME NEW x \in Callers, Barrier(x) PROVE Promise!Next
  <2>a. PICK f \in Flushes : f = inFlush[x]
    BY ZenonT(20), <1>0, <1>3 DEF Barrier, TypeOK
  <2>1. f \in started \ issued
    BY <1>0, <1>3, <2>a DEF Barrier, RequestInv
  <2>2. /\ issued' = issued \cup {f} \/ issued' = issued
        /\ UNCHANGED <<assigned, stored, before, earlier, started, called>>
    BY <1>3, <2>a DEF Barrier
  <2> QED BY <2>1, <2>2 DEF Promise!Issue, Promise!Next
<1>4. ASSUME NEW p \in Procs, NEW t \in Tuples, NEW T, DoProcessNoBatch(p, t, T)
      PROVE  Promise!Next
  <2>1. t \in assigned /\ t \notin stored
    <3>1. TakeTuple(p, t)
      BY <1>4 DEF DoProcessNoBatch
    <3> QED BY <3>1, TakeTupleFacts DEF Taken
  <2>2. Promise!Commit({t})
    BY <1>4, <2>1 DEF DoProcessNoBatch, Promise!Commit
  <2> QED BY <2>2 DEF Promise!Next
<1>5. ASSUME NEW p \in Procs, SaveBatch(p) PROVE Promise!Next
  <2>1. /\ saving[p] # {} /\ saving[p] \subseteq Tuples
        /\ saving[p] \subseteq assigned \ stored
    BY ZenonT(20), <1>0, <1>5 DEF SaveBatch, PlacesInv, PlacesAt, Kept, TypeOK
  <2>2. Promise!Commit(saving[p])
    BY <1>5, <2>1 DEF SaveBatch, Promise!Commit
  <2> QED BY <2>1, <2>2 DEF Promise!Next
<1>6. ASSUME NEW p \in Procs, FlushCallback(p) PROVE Promise!Next
  <2>a. PICK f \in Flushes : f = answering[p]
    BY <1>0, <1>6 DEF FlushCallback, CountInv, TypeOK
  <2>1. before[f] \subseteq stored /\ earlier[f] \subseteq called
    BY <2>a, AnsweredStored, EarlierAnswered
  <2>2. f \in started /\ f \notin called /\ Left(f) = {}
    BY ZenonT(20), <1>0, <1>6, <2>a, AnsweredPassed DEF FlushCallback, CountInv
  <2>3. f \in issued
    <3>1. NumProcs \in Procs /\ NumProcs \notin Left(f) /\ pushed[f] \in 0 .. NumProcs
      BY SMTT(20), Z3T(20), SMTT(30), <1>0, <2>2, ProcsAssumption DEF Procs, TypeOK
    <3>2. NumProcs <= pushed[f]
      BY <1>0, <3>1, PassedFacts
    <3> QED BY SMTT(20), Z3T(20), SMTT(30), <1>0, <2>2, <3>1, <3>2, ProcsAssumption DEF RequestInv
  <2>4. Promise!Answer(f)
    BY ZenonT(20), <1>6, <2>a, <2>1, <2>2, <2>3 DEF FlushCallback, Promise!Answer
  <2> QED BY <2>4 DEF Promise!Next
<1>7. ASSUME NEW p \in Procs, Processor(p) PROVE Promise!Next
  BY ZenonT(20), <1>4, <1>7 DEF Processor, Wake, LockBatch, ReportDelete, PassBarrier, Drained, DoProcess
<1>8. ASSUME NEW p \in Procs, Flusher(p) PROVE Promise!Next
  BY ZenonT(20), <1>5, <1>6, <1>8
  DEF Flusher, StartCheck, BatchFlush, CheckDone, ReportFlushed, DoBarrier, Notify
<1>9. ASSUME NEW c \in Chains, Chain(c) PROVE Promise!Next
  BY ZenonT(20), <1>1, <1>3, <1>9 DEF Chain, EndMeta, VisitQuietly, Callers
<1>10. ASSUME Arrival PROVE Promise!Next
  BY ZenonT(20), <1>2, <1>10 DEF Arrival, BeginMeta, ReportInsert, VisitFlush, EmitBatch, Writer, CallWriter,
                     WriterBlocks, WriterRuns
<1>11. ASSUME NEW s \in Subs, Barrier(s) \/ RunCallback(s) PROVE Promise!Next
  BY <1>3, <1>11 DEF RunCallback, Callers
<1> QED BY ZenonT(20), <1>7, <1>8, <1>9, <1>10, <1>11 DEF Next, Work

\* The cube implements its promise: tuples handed over become visible once, and
\* a flush is answered once, after every tuple handed over before it is visible
\* and after every flush issued before it.
THEOREM Refinement == Spec => KeepsPromise
<1>1. Init => Promise!Init
  BY DEF Init, Promise!Init
<1> QED BY <1>1, PromiseStep, Invariance, PTL DEF Spec, KeepsPromise, Promise!Spec

-----------------------------------------------------------------------------
(* The queue lengths.                                                      *)

\* The tuples on their way are those in hands and those in the processors' queues.
OnTheWay ==
  /\ Waiting \subseteq Tuples
  /\ \A t \in Tuples : t \in Waiting <=> \/ \E c \in Chains : hand[c] = t
                                         \/ \E p \in Procs : t \in Elems(tasks[p])

\* By their types: what is neither None nor a barrier is a tuple.
LEMMA WaitingIs == TypeOK => OnTheWay
<1> SUFFICES ASSUME TypeOK PROVE OnTheWay
  OBVIOUS
<1>1. \A p \in Procs : Elems(tasks[p]) \subseteq Tuples \cup Flushes
  BY SMTT(20), Z3T(20), SMTT(30) DEF TypeOK, Elems
<1>2. \A t : t \in InHands <=> t # None /\ \E c \in Chains : hand[c] = t
  BY DEF InHands
<1>3. InHands \subseteq Tuples
  BY SMTT(20), Z3T(20), SMTT(30), <1>2 DEF TypeOK
<1>4. \A t : t \in Waiting <=> t \in InHands \/ (t \notin Flushes /\ \E p \in Procs : t \in Elems(tasks[p]))
  BY DEF Waiting
<1>5. \A t \in Tuples : t # None /\ t \notin Flushes
  BY KindsAssumption
<1>6. Waiting \subseteq Tuples
  BY <1>1, <1>3, <1>4
<1> QED
  BY ZenonT(20), <1>2, <1>4, <1>5, <1>6 DEF OnTheWay

\* The same after a step.
LEMMA WaitingWillBe == TypeOK' => OnTheWay'
BY WaitingIs, PTL

\* Only the tuples in hands and in the processors' queues and the processors'
\* reports matter to processLen.
LEMMA ProcessFrame ==
  ASSUME ProcessExact, UNCHANGED processLen,
         Waiting' = Waiting, Reporting' = Reporting
  PROVE  ProcessExact'
BY DEF ProcessExact

\* The two counts are numbers.
LEMMA CountsAreNumbers ==
  ASSUME ProcessExact
  PROVE  Cardinality(Waiting) \in Nat /\ IsFiniteSet(Reporting) /\ Cardinality(Reporting) \in Nat
<1>1. IsFiniteSet(Procs) /\ Reporting \subseteq Procs
  BY SMTT(20), Z3T(20), SMTT(30), FS_Interval, ProcsAssumption DEF Procs, Reporting
<1>2. IsFiniteSet(Reporting)
  BY <1>1, FS_Subset
<1> QED
  BY <1>2, FS_CardinalityType DEF ProcessExact

\* report_insert counts a tuple that is nowhere yet.
LEMMA ReportInsertCounts ==
  ASSUME IInv, ProcessExact, NEW c \in Chains, NEW t \in Tuples, ReportInsert(c, t)
  PROVE  ProcessExact'
<1>0. TypeOK /\ TypeOK' /\ HandsInv /\ PlacesInv
  <2>1. Next
    BY DEF Next, Arrival
  <2> QED
    BY <2>1, InvStep DEF IInv, SafeInv
<1>1. hand' = [hand EXCEPT ![c] = t] /\ tasks' = tasks /\ hand \in [Chains -> Tuples \cup {None}]
  BY <1>0 DEF ReportInsert, TypeOK
<1>2. hand[c] = None /\ None \notin Tuples
  BY <1>0, KindsAssumption DEF ReportInsert, HandsInv
<1>3. t \notin Waiting
  <2>1. \A d \in Chains : hand[d] # t
    BY KindsAssumption DEF ReportInsert, InHands
  <2>2. \A p \in Procs : t \notin Elems(tasks[p])
    BY <1>0 DEF ReportInsert, PlacesInv, PlacesAt, Kept
  <2> QED
    BY ZenonT(20), <1>0, <2>1, <2>2, WaitingIs, WaitingWillBe DEF OnTheWay
<1>4. Waiting' = Waiting \cup {t}
  <2>1. \A u \in Tuples : (\E d \in Chains : hand'[d] = u) <=> u = t \/ \E d \in Chains : hand[d] = u
    BY <1>1, <1>2
  <2>2. \A u \in Tuples : u \in Waiting' <=> u = t \/ u \in Waiting
    BY ZenonT(20), <1>0, <1>1, <2>1, WaitingIs, WaitingWillBe DEF OnTheWay
  <2> QED
    BY ZenonT(20), <1>0, <2>2, WaitingIs, WaitingWillBe DEF OnTheWay
<1>5. IsFiniteSet(Waiting') /\ Cardinality(Waiting') = Cardinality(Waiting) + 1
  BY ZenonT(20), <1>3, <1>4, FS_AddElement DEF ProcessExact
<1>6. Reporting' = Reporting /\ processLen' = processLen + 1
  BY DEF ReportInsert, Reporting
<1>7. processLen' = Cardinality(Waiting') + Cardinality(Reporting')
  BY SMTT(20), Z3T(20), SMTT(30), <1>5, <1>6, CountsAreNumbers DEF ProcessExact
<1> QED
  BY <1>5, <1>7 DEF ProcessExact

\* assign moves the tuple from the chain's hand to the processor's queue.
LEMMA AssignCounts ==
  ASSUME IInv, ProcessExact, NEW c \in Chains, Assign(c)
  PROVE  ProcessExact'
<1>0. TypeOK /\ TypeOK' /\ HandsInv /\ PlacesInv
  <2>1. Next
    BY DEF Next, Work, Chain
  <2> QED
    BY <2>1, InvStep DEF IInv, SafeInv
<1>a. PICK t \in Tuples : t = hand[c]
  BY <1>0 DEF Assign, TypeOK, HandsInv
<1>b. PICK r \in Procs : r = ProcOf[CellOf[t]]
  BY KeyAssumption
<1>1. /\ tasks' = [tasks EXCEPT ![r] = Append(tasks[r], t)] /\ hand' = [hand EXCEPT ![c] = None]
      /\ tasks \in [Procs -> Seq(Tuples \cup Flushes)] /\ hand \in [Chains -> Tuples \cup {None}]
  BY ZenonT(20), <1>0, <1>a, <1>b DEF Assign, TypeOK
<1>2. Elems(tasks'[r]) = Elems(tasks[r]) \cup {t} /\ \A p \in Procs \ {r} : tasks'[p] = tasks[p]
  BY <1>1, ElemsAppend
<1>3. \A u \in Tuples : (\E p \in Procs : u \in Elems(tasks'[p])) <=>
                        u = t \/ \E p \in Procs : u \in Elems(tasks[p])
  BY <1>2
<1>4. \A u \in Tuples : (\E d \in Chains : hand'[d] = u) \/ u = t <=> \E d \in Chains : hand[d] = u
  BY <1>a, <1>1, KindsAssumption
<1>5. Waiting' = Waiting
  <2>1. \A u \in Tuples : u \in Waiting' <=> u \in Waiting
    BY ZenonT(20), <1>0, <1>3, <1>4, WaitingIs, WaitingWillBe DEF OnTheWay
  <2> QED
    BY ZenonT(20), <1>0, <2>1, WaitingIs, WaitingWillBe DEF OnTheWay
<1> QED
  BY <1>5, ProcessFrame DEF Assign, Reporting

\* A barrier is no tuple.
LEMMA BarrierCounts ==
  ASSUME IInv, ProcessExact, NEW x \in Callers, Barrier(x)
  PROVE  ProcessExact'
<1>0. TypeOK /\ TypeOK' /\ RequestInv
  <2>1. Next
    BY DEF Next, Work, Chain, Callers
  <2> QED
    BY <2>1, InvStep DEF IInv, SafeInv
<1>a. PICK f \in Flushes : f = inFlush[x]
  BY SMTT(20), Z3T(20), SMTT(30), <1>0 DEF Barrier, TypeOK
<1>b. PICK r \in Procs : r = pushed[f] + 1
  <2>1. pushed[f] # NumProcs /\ pushed[f] \in 0 .. NumProcs
    BY SMTT(20), Z3T(20), SMTT(30), <1>0, <1>a DEF Barrier, TypeOK, RequestInv
  <2> QED
    BY <2>1, ProcsAssumption DEF Procs
<1>1. /\ tasks' = [tasks EXCEPT ![r] = Append(tasks[r], f)] /\ hand' = hand
      /\ tasks \in [Procs -> Seq(Tuples \cup Flushes)]
  BY ZenonT(20), <1>0, <1>a, <1>b DEF Barrier, TypeOK
<1>2. Elems(tasks'[r]) = Elems(tasks[r]) \cup {f} /\ \A p \in Procs \ {r} : tasks'[p] = tasks[p]
  BY <1>1, ElemsAppend
<1>3. f \notin Tuples
  BY KindsAssumption
<1>4. \A u \in Tuples : \A p \in Procs : u \in Elems(tasks'[p]) <=> u \in Elems(tasks[p])
  BY <1>2, <1>3
<1>5. Waiting' = Waiting
  <2>1. \A u \in Tuples : u \in Waiting' <=> u \in Waiting
    BY ZenonT(20), <1>0, <1>1, <1>4, WaitingIs, WaitingWillBe DEF OnTheWay
  <2> QED
    BY ZenonT(20), <1>0, <2>1, WaitingIs, WaitingWillBe DEF OnTheWay
<1> QED
  BY <1>5, ProcessFrame DEF Barrier, Reporting

\* do_process takes a tuple; it stays counted until report_delete.
LEMMA TakeTupleCounts ==
  ASSUME IInv, TypeOK', ProcessExact, NEW p \in Procs, NEW t \in Tuples, TakeTuple(p, t),
         UNCHANGED <<hand, processLen>>
  PROVE  ProcessExact'
<1>0. TypeOK /\ HandsInv /\ PlacesInv
  BY DEF IInv, SafeInv
<1>1. /\ \A r \in Procs \ {p} : tasks'[r] = tasks[r]
      /\ t \in Elems(tasks[p]) /\ Elems(tasks'[p]) = Elems(tasks[p]) \ {t}
      /\ t \in assigned /\ ProcOf[CellOf[t]] = p
  BY TakeTupleFacts DEF Taken
<1>2. \A r \in Procs : t \in Elems(tasks[r]) => r = p
  BY <1>0, <1>1 DEF PlacesInv, PlacesAt, Kept
<1>3. \A c \in Chains : hand[c] # t
  BY <1>0, <1>1 DEF HandsInv
<1>4. Waiting' = Waiting \ {t}
  <2>1. \A u \in Tuples : (\E r \in Procs : u \in Elems(tasks'[r])) <=>
                          u # t /\ \E r \in Procs : u \in Elems(tasks[r])
    BY ZenonT(20), <1>1, <1>2
  <2>2. \A u \in Tuples : u \in Waiting' <=> u # t /\ u \in Waiting
    BY <1>0, <1>3, <2>1, WaitingIs, WaitingWillBe DEF OnTheWay
  <2> QED
    BY ZenonT(20), <1>0, <2>2, WaitingIs, WaitingWillBe DEF OnTheWay
<1>5. t \in Waiting
  BY ZenonT(20), <1>0, <1>1, WaitingIs, WaitingWillBe DEF OnTheWay
<1>6. Reporting' = Reporting \cup {p} /\ p \notin Reporting
  BY SMTT(20), Z3T(20), SMTT(30), <1>0 DEF TakeTuple, Reporting, TypeOK
<1>7. IsFiniteSet(Waiting') /\ Cardinality(Waiting') = Cardinality(Waiting) - 1
  BY <1>4, <1>5, FS_RemoveElement DEF ProcessExact
<1>8. Cardinality(Reporting') = Cardinality(Reporting) + 1
  BY <1>6, CountsAreNumbers, FS_AddElement
<1>9. processLen' = Cardinality(Waiting') + Cardinality(Reporting')
  BY SMTT(20), Z3T(20), SMTT(30), <1>7, <1>8, CountsAreNumbers DEF ProcessExact
<1> QED
  BY <1>7, <1>9 DEF ProcessExact

\* The last line of do_process.
LEMMA ReportDeleteCounts ==
  ASSUME TypeOK, ProcessExact, NEW p \in Procs, ReportDelete(p)
  PROVE  ProcessExact'
<1>1. Waiting' = Waiting
  BY DEF ReportDelete, Waiting, InHands
<1>2. Reporting' = Reporting \ {p} /\ p \in Reporting
  BY DEF ReportDelete, Reporting, TypeOK
<1>3. Cardinality(Reporting') = Cardinality(Reporting) - 1
  BY ZenonT(20), <1>2, CountsAreNumbers, FS_RemoveElement
<1>4. processLen' = processLen - 1
  BY DEF ReportDelete
<1>5. processLen' = Cardinality(Waiting') + Cardinality(Reporting')
  BY SMTT(20), Z3T(20), SMTT(30), <1>1, <1>3, <1>4, CountsAreNumbers DEF ProcessExact
<1> QED
  BY <1>1, <1>5 DEF ProcessExact

\* barrier_to_flushqueue moves no tuple.
LEMMA PassBarrierCounts ==
  ASSUME IInv, TypeOK', ProcessExact, NEW p \in Procs, PassBarrier(p)
  PROVE  ProcessExact'
<1>0. TypeOK
  BY DEF IInv
<1>1. /\ tasks[p] # <<>> /\ tasks[p] \in Seq(Tuples \cup Flushes) /\ Head(tasks[p]) \in Flushes
      /\ tasks'[p] = Tail(tasks[p]) /\ \A r \in Procs \ {p} : tasks'[r] = tasks[r]
  BY ZenonT(20), <1>0 DEF PassBarrier, TypeOK
<1>2. Elems(tasks[p]) = {Head(tasks[p])} \cup Elems(tasks'[p])
  BY <1>1, ElemsTail
<1>3. Head(tasks[p]) \notin Tuples
  BY <1>1, KindsAssumption
<1>4. \A u \in Tuples : \A r \in Procs : u \in Elems(tasks'[r]) <=> u \in Elems(tasks[r])
  BY ZenonT(20), <1>1, <1>2, <1>3
<1>5. Waiting' = Waiting
  <2>1. \A u \in Tuples : u \in Waiting' <=> u \in Waiting
    BY ZenonT(20), <1>0, <1>4, WaitingIs, WaitingWillBe DEF OnTheWay, PassBarrier
  <2> QED
    BY ZenonT(20), <1>0, <2>1, WaitingIs, WaitingWillBe DEF OnTheWay
<1> QED
  BY <1>5, ProcessFrame DEF PassBarrier, Reporting

\* Only the batches, the ones being saved and whether there is one matter to flushLen.
LEMMA FlushFrame ==
  ASSUME FlushExact, UNCHANGED <<batch, saved, flushLen>>,
         \A p \in Procs : flushPc'[p] \notin {"save", "notify"} => flushPc[p] \notin {"save", "notify"}
  PROVE  FlushExact'
<1>1. BatchedCells' = BatchedCells /\ SavedCells' = SavedCells
  BY DEF BatchedCells, SavedCells, CellsOf
<1> QED
  BY <1>1 DEF FlushExact

\* The entries are cells, finitely many, and those of a batch are of its processor.
LEMMA EntryFacts ==
  ASSUME IInv
  PROVE  /\ IsFiniteSet(BatchedCells) /\ Cardinality(BatchedCells) \in Nat
         /\ IsFiniteSet(SavedCells) /\ Cardinality(SavedCells) \in Nat
         /\ \A k : k \in BatchedCells <=> \E p \in Procs : k \in CellsOf(batch[p])
         /\ \A p \in Procs : \A k \in CellsOf(batch[p]) : k \in Cells /\ ProcOf[k] = p
<1>0. TypeOK /\ PlacesInv
  BY DEF IInv, SafeInv
<1>1. \A k : k \in BatchedCells <=> \E p \in Procs : k \in CellsOf(batch[p])
  BY DEF BatchedCells, CellsOf
<1>2. ASSUME NEW p \in Procs, NEW k \in CellsOf(batch[p]) PROVE k \in Cells /\ ProcOf[k] = p
  <2>1. PICK t \in batch[p] : k = CellOf[t]
    BY <1>2 DEF CellsOf
  <2>2. t \in Tuples /\ t \in Kept(p)
    BY <1>0, <2>1 DEF TypeOK, Kept
  <2> QED
    BY ZenonT(20), <1>0, <2>1, <2>2, KeyAssumption DEF PlacesInv, PlacesAt
<1>3. BatchedCells \subseteq Cells
  BY <1>1, <1>2
<1>4. SavedCells \subseteq Cells
  BY SMTT(20), Z3T(20), SMTT(30), <1>0 DEF SavedCells, TypeOK
<1>5. IsFiniteSet(BatchedCells) /\ IsFiniteSet(SavedCells)
  BY <1>3, <1>4, CellsAssumption, FS_Subset
<1> QED
  BY ZenonT(20), <1>1, <1>2, <1>5, FS_CardinalityType

\* do_process reports a tuple to flushCongestMon only when it begins a new entry.
LEMMA DoProcessEntries ==
  ASSUME IInv, FlushExact, NEW p \in Procs, NEW t \in Tuples, NEW T, DoProcess(p, t, T)
  PROVE  FlushExact'
<1>0. TypeOK
  BY DEF IInv
<1>1. PICK k \in Cells : k = CellOf[t]
  BY KeyAssumption
<1>2. ProcOf[k] = p
  BY <1>1, TakeTupleFacts DEF DoProcess, Taken
<1>3. k \in BatchedCells <=> k \in CellsOf(batch[p])
  BY SMTT(20), Z3T(20), SMTT(30), <1>2, EntryFacts
<1>4. batch' = [batch EXCEPT ![p] = batch[p] \cup {t}] /\ batch \in [Procs -> SUBSET Tuples]
  BY <1>0 DEF DoProcess, TypeOK
<1>5. BatchedCells' = BatchedCells \cup {k}
  <2>1. \A u : (\E r \in Procs : u \in batch'[r]) <=> u = t \/ \E r \in Procs : u \in batch[r]
    BY <1>4
  <2>2. UNION {batch'[r] : r \in Procs} = (UNION {batch[r] : r \in Procs}) \cup {t}
    BY <2>1
  <2> QED
    BY <1>1, <2>2 DEF BatchedCells, CellsOf
<1>6. Cardinality(BatchedCells') =
        IF k \in CellsOf(batch[p]) THEN Cardinality(BatchedCells) ELSE Cardinality(BatchedCells) + 1
  BY ZenonT(20), <1>3, <1>5, EntryFacts, FS_AddElement
<1>7. flushLen' = IF k \in CellsOf(batch[p]) THEN flushLen ELSE flushLen + 1
  BY <1>1 DEF DoProcess
<1>8. SavedCells' = SavedCells
  BY DEF DoProcess, SavedCells
<1>9. flushLen' = Cardinality(BatchedCells') + Cardinality(SavedCells')
  BY SMTT(20), Z3T(20), SMTT(30), <1>6, <1>7, <1>8, EntryFacts DEF FlushExact
<1> QED
  BY <1>9 DEF FlushExact, DoProcess

\* batch_flush moves the entries of the batch, which stay counted.
LEMMA BatchFlushEntries ==
  ASSUME IInv, FlushExact, NEW p \in Procs, BatchFlush(p)
  PROVE  FlushExact'
<1>0. TypeOK
  BY DEF IInv
<1>1. PICK C : C = CellsOf(batch[p])
  OBVIOUS
<1>2. /\ batch' = [batch EXCEPT ![p] = {}] /\ batch \in [Procs -> SUBSET Tuples]
      /\ saved' = [saved EXCEPT ![p] = C] /\ saved \in [Procs -> SUBSET Cells]
      /\ saved[p] = {} /\ flushPc' = [flushPc EXCEPT ![p] = "save"] /\ flushLen' = flushLen
      /\ flushPc \in [Procs -> {"idle", "check", "save", "notify", "answer"}]
  BY <1>0, <1>1 DEF BatchFlush, TypeOK, FlushExact
<1>3. \A k \in C : k \in BatchedCells /\ ProcOf[k] = p
  BY <1>1, EntryFacts
<1>4. BatchedCells' = BatchedCells \ C
  <2>1. \A k : k \in BatchedCells' <=> \E r \in Procs : k \in CellsOf(batch'[r])
    BY DEF BatchedCells, CellsOf
  <2>2. CellsOf(batch'[p]) = {} /\ \A r \in Procs \ {p} : batch'[r] = batch[r]
    BY <1>2 DEF CellsOf
  <2>3. \A r \in Procs \ {p} : \A k \in CellsOf(batch[r]) : k \notin C
    BY <1>3, EntryFacts
  <2> QED
    BY SMTT(20), Z3T(20), SMTT(30), <1>1, <2>1, <2>2, <2>3, EntryFacts
<1>5. SavedCells' = SavedCells \cup C /\ SavedCells \cap C = {}
  <2>1. \A k : k \in SavedCells <=> \E r \in Procs : k \in saved[r]
    BY DEF SavedCells
  <2>2. \A k : k \in SavedCells' <=> \E r \in Procs : k \in saved'[r]
    BY DEF SavedCells
  <2>3. saved'[p] = C /\ \A r \in Procs \ {p} : saved'[r] = saved[r]
    BY <1>2
  <2>4. SavedCells \cap C = {}
    BY SMTT(20), Z3T(20), SMTT(30), <1>2, <1>3, <2>1 DEF FlushExact
  <2>5. SavedCells' = SavedCells \cup C
    BY <1>2, <2>1, <2>2, <2>3
  <2> QED
    BY <2>4, <2>5
<1>6. C \subseteq BatchedCells /\ BatchedCells \cap C = C
  BY <1>3
<1>7. IsFiniteSet(C) /\ Cardinality(C) \in Nat
  BY <1>6, EntryFacts, FS_Subset, FS_CardinalityType
<1>8. Cardinality(BatchedCells') = Cardinality(BatchedCells) - Cardinality(C)
  BY ZenonT(40), <1>4, <1>6, EntryFacts, FS_Difference
<1>9. Cardinality(SavedCells') = Cardinality(SavedCells) + Cardinality(C)
  <2>1. Cardinality(SavedCells \cup C) = Cardinality(SavedCells) + Cardinality(C) - Cardinality(SavedCells \cap C)
    BY <1>7, EntryFacts, FS_Union
  <2>2. Cardinality(SavedCells \cap C) = 0
    BY <1>5, FS_EmptySet
  <2> QED
    BY <1>5, <1>7, <2>1, <2>2, EntryFacts
<1>10. flushLen' = Cardinality(BatchedCells') + Cardinality(SavedCells')
  BY SMTT(20), Z3T(20), SMTT(30), <1>2, <1>7, <1>8, <1>9, EntryFacts DEF FlushExact
<1>11. \A r \in Procs : /\ \A k \in saved'[r] : ProcOf[k] = r
                        /\ flushPc'[r] \notin {"save", "notify"} => saved'[r] = {}
  BY <1>2, <1>3 DEF FlushExact
<1> QED
  BY <1>10, <1>11 DEF FlushExact

\* report_delete(batch_size) takes off the entries of the batch that was saved.
LEMMA ReportFlushedEntries ==
  ASSUME IInv, FlushExact, NEW p \in Procs, ReportFlushed(p)
  PROVE  FlushExact'
<1>0. TypeOK
  BY DEF IInv
<1>1. PICK C : C = saved[p]
  OBVIOUS
<1>2. /\ saved' = [saved EXCEPT ![p] = {}] /\ saved \in [Procs -> SUBSET Cells]
      /\ flushPc' = [flushPc EXCEPT ![p] = "check"] /\ flushLen' = flushLen - Cardinality(C)
      /\ flushPc \in [Procs -> {"idle", "check", "save", "notify", "answer"}]
  BY <1>0, <1>1 DEF ReportFlushed, TypeOK
<1>3. BatchedCells' = BatchedCells
  BY DEF ReportFlushed, BatchedCells, CellsOf
<1>4. SavedCells' = SavedCells \ C /\ SavedCells \cap C = C
  <2>1. \A k : k \in SavedCells <=> \E r \in Procs : k \in saved[r]
    BY DEF SavedCells
  <2>2. \A k : k \in SavedCells' <=> \E r \in Procs : k \in saved'[r]
    BY DEF SavedCells
  <2>3. saved'[p] = {} /\ \A r \in Procs \ {p} : saved'[r] = saved[r]
    BY <1>2
  <2>4. \A r \in Procs \ {p} : saved[r] \cap C = {}
    BY ZenonT(20), <1>1 DEF FlushExact
  <2> QED
    BY <1>1, <2>1, <2>2, <2>3, <2>4
<1>5. Cardinality(SavedCells') = Cardinality(SavedCells) - Cardinality(C)
  BY ZenonT(40), <1>4, EntryFacts, FS_Difference
<1>6. Cardinality(C) \in Nat
  BY <1>4, EntryFacts, FS_Subset, FS_CardinalityType
<1>7. flushLen' = Cardinality(BatchedCells') + Cardinality(SavedCells')
  BY SMTT(20), Z3T(20), SMTT(30), <1>2, <1>3, <1>5, <1>6, EntryFacts DEF FlushExact
<1>8. \A r \in Procs : /\ \A k \in saved'[r] : ProcOf[k] = r
                       /\ flushPc'[r] \notin {"save", "notify"} => saved'[r] = {}
  BY <1>2 DEF FlushExact
<1> QED
  BY <1>7, <1>8 DEF FlushExact

\* At the start nothing is counted and nothing is there.
LEMMA InitLengths == Init => LengthInv
<1> SUFFICES ASSUME Init PROVE LengthInv
  OBVIOUS
<1>1. \A p \in Procs : Elems(tasks[p]) = {} /\ batch[p] = {} /\ saved[p] = {} /\ procPc[p] # "report"
  BY DEF Init, Elems
<1>2. InHands = {}
  BY DEF Init, InHands
<1>3. Waiting = {} /\ Reporting = {} /\ BatchedCells = {} /\ SavedCells = {}
  BY ZenonT(20), <1>1, <1>2 DEF Waiting, Reporting, BatchedCells, SavedCells, CellsOf
<1>4. processLen = 0 /\ flushLen = 0
  BY DEF Init
<1> QED
  BY SMTT(20), Z3T(20), SMTT(30), <1>1, <1>3, <1>4, FS_EmptySet DEF LengthInv, ProcessExact, FlushExact

\* Every step keeps processLen exact.
LEMMA ProcessStep == IInv /\ ProcessExact /\ [Next]_vars => ProcessExact'
<1> SUFFICES ASSUME IInv, ProcessExact, [Next]_vars PROVE ProcessExact'
  OBVIOUS
<1>0. TypeOK /\ TypeOK'
  BY InvStep DEF IInv
<1>1. ASSUME UNCHANGED <<hand, tasks, procPc, processLen>> PROVE ProcessExact'
  <2>1. Waiting' = Waiting /\ Reporting' = Reporting
    BY <1>1 DEF Waiting, Reporting, InHands
  <2> QED
    BY <1>1, <2>1, ProcessFrame
<1>2. ASSUME NEW p \in Procs, Wake(p) \/ LockBatch(p) \/ Drained(p) PROVE ProcessExact'
  <2>1. Waiting' = Waiting /\ processLen' = processLen
    BY <1>2 DEF Wake, LockBatch, Drained, Waiting, InHands
  <2>2. Reporting' = Reporting
    BY ZenonT(20), <1>0, <1>2 DEF Wake, LockBatch, Drained, Reporting, TypeOK
  <2> QED
    BY ZenonT(20), <2>1, <2>2, ProcessFrame
<1>3. ASSUME NEW p \in Procs, NEW t \in Tuples, NEW T, DoProcess(p, t, T) \/ DoProcessNoBatch(p, t, T)
      PROVE  ProcessExact'
  BY ZenonT(20), <1>0, <1>3, TakeTupleCounts DEF DoProcess, DoProcessNoBatch
<1>4. ASSUME NEW p \in Procs, Processor(p) PROVE ProcessExact'
  BY ZenonT(20), <1>0, <1>2, <1>3, <1>4, ReportDeleteCounts, PassBarrierCounts DEF Processor
<1>5. ASSUME NEW p \in Procs, Flusher(p) PROVE ProcessExact'
  BY ZenonT(20), <1>1, <1>5 DEF Flusher, StartCheck, BatchFlush, CheckDone, SaveBatch, ReportFlushed, DoBarrier,
                    FlushCallback, Notify
<1>6. ASSUME NEW c \in Chains, Chain(c) PROVE ProcessExact'
  BY ZenonT(20), <1>1, <1>6, AssignCounts, BarrierCounts DEF Chain, EndMeta, VisitQuietly, Callers
<1>7. ASSUME NEW s \in Subs, Barrier(s) \/ RunCallback(s) PROVE ProcessExact'
  BY ZenonT(20), <1>1, <1>7, BarrierCounts DEF RunCallback, Callers
<1>8. ASSUME Arrival PROVE ProcessExact'
  BY ZenonT(20), <1>1, <1>8, ReportInsertCounts
  DEF Arrival, BeginMeta, VisitFlush, EmitBatch, Writer, CallWriter, WriterBlocks, WriterRuns
<1>9. CASE UNCHANGED vars
  BY ZenonT(20), <1>1, <1>9 DEF vars
<1> QED
  BY <1>4, <1>5, <1>6, <1>7, <1>8, <1>9 DEF Next, Work

\* Every step keeps flushLen exact.
LEMMA FlushStep == IInv /\ FlushExact /\ [Next]_vars => FlushExact'
<1> SUFFICES ASSUME IInv, FlushExact, [Next]_vars PROVE FlushExact'
  OBVIOUS
<1>0. TypeOK
  BY DEF IInv
<1>1. ASSUME UNCHANGED <<batch, saved, flushLen, flushPc>> PROVE FlushExact'
  BY <1>1, FlushFrame
<1>2. ASSUME NEW p \in Procs, StartCheck(p) \/ CheckDone(p) \/ SaveBatch(p) \/ DoBarrier(p) \/ FlushCallback(p)
      PROVE  FlushExact'
  <2>1. UNCHANGED <<batch, saved, flushLen>>
    BY <1>2 DEF StartCheck, CheckDone, SaveBatch, DoBarrier, FlushCallback
  <2>2. /\ \A r \in Procs \ {p} : flushPc'[r] = flushPc[r]
        /\ flushPc'[p] \in {"save", "notify"} \/ flushPc[p] \notin {"save", "notify"}
    BY ZenonT(20), <1>0, <1>2 DEF StartCheck, CheckDone, SaveBatch, DoBarrier, FlushCallback, TypeOK
  <2>3. \A r \in Procs : flushPc'[r] \notin {"save", "notify"} => flushPc[r] \notin {"save", "notify"}
    BY <2>2
  <2> QED
    BY ZenonT(20), <2>1, <2>3, FlushFrame
<1>3. ASSUME NEW p \in Procs, Flusher(p) PROVE FlushExact'
  BY <1>1, <1>2, <1>3, BatchFlushEntries, ReportFlushedEntries DEF Flusher, Notify
<1>4. ASSUME NEW p \in Procs, Processor(p) PROVE FlushExact'
  BY ZenonT(20), <1>1, <1>4, DoProcessEntries DEF Processor, Wake, LockBatch, ReportDelete, PassBarrier, Drained, DoProcessNoBatch, TakeTuple
<1>5. ASSUME NEW c \in Chains, Chain(c) PROVE FlushExact'
  BY ZenonT(20), <1>1, <1>5 DEF Chain, Assign, EndMeta, VisitQuietly, Barrier
<1>6. ASSUME NEW s \in Subs, Barrier(s) \/ RunCallback(s) PROVE FlushExact'
  BY ZenonT(20), <1>1, <1>6 DEF RunCallback, Barrier
<1>7. ASSUME Arrival PROVE FlushExact'
  BY ZenonT(20), <1>1, <1>7 DEF Arrival, ReportInsert, BeginMeta, VisitFlush, EmitBatch, Writer, CallWriter,
                    WriterBlocks, WriterRuns
<1>8. CASE UNCHANGED vars
  BY <1>1, <1>8 DEF vars
<1> QED
  BY <1>3, <1>4, <1>5, <1>6, <1>7, <1>8 DEF Next, Work

\* The lengths that wait_for_commits and the congestion monitors read are exact.
THEOREM LengthsExact == Spec => []QueueLengthsExact
<1>1. Init => IInv /\ LengthInv
  BY InitInv, InitLengths
<1>2. IInv /\ LengthInv /\ [Next]_vars => IInv' /\ LengthInv'
  BY ZenonT(20), InvStep, ProcessStep, FlushStep DEF LengthInv
<1>3. LengthInv => QueueLengthsExact
  BY DEF LengthInv, ProcessExact, FlushExact, QueueLengthsExact
<1> QED
  BY <1>1, <1>2, <1>3, PTL DEF Spec

-----------------------------------------------------------------------------
(* Where the cube may come to a stand.                                     *)

\* Every step keeps LockInv: the last reader to leave lets the writer in.
LEMMA LockStep == TypeOK /\ LockInv /\ [Next]_vars => LockInv'
<1> SUFFICES ASSUME TypeOK, LockInv, [Next]_vars PROVE LockInv'
  OBVIOUS
<1>1. ASSUME UNCHANGED <<chainPc, wants, writerWaits>> PROVE LockInv'
  BY <1>1 DEF LockInv, Readers
<1>2. ASSUME NEW c \in Chains, NEW new \in {"idle", "assign", "meta"}, chainPc[c] # "meta",
             chainPc' = [chainPc EXCEPT ![c] = new], UNCHANGED <<wants, writerWaits>>
      PROVE  LockInv'
  <2>1. Readers \subseteq Readers'
    BY <1>2 DEF Readers, TypeOK
  <2> QED BY <1>2, <2>1 DEF LockInv
<1>3. ASSUME NEW c \in Chains, EndMeta(c) PROVE LockInv'
  <2>1. Readers' = Readers \ {c}
    BY <1>3 DEF EndMeta, Readers, TypeOK
  <2> QED BY <1>3, <2>1 DEF LockInv, EndMeta
<1>4. ASSUME NEW s \in Subs, Writer(s) PROVE LockInv'
  <2>1. Readers' = Readers
    BY <1>4 DEF Writer, CallWriter, WriterBlocks, WriterRuns, Readers
  <2> QED BY <1>4, <2>1 DEF LockInv, Writer, CallWriter, WriterBlocks, WriterRuns
<1>5. ASSUME NEW c \in Chains, Chain(c) PROVE LockInv'
  BY <1>1, <1>2, <1>3, <1>5 DEF Chain, Assign, Barrier, VisitQuietly
<1>6. ASSUME Arrival PROVE LockInv'
  BY <1>1, <1>2, <1>4, <1>6 DEF Arrival, ReportInsert, BeginMeta, VisitFlush, EmitBatch
<1>7. ASSUME NEW p \in Procs, Processor(p) \/ Flusher(p) PROVE LockInv'
  BY <1>1, <1>7 DEF Processor, Flusher, Wake, LockBatch, ReportDelete, PassBarrier, Drained, DoProcess,
     DoProcessNoBatch, TakeTuple, StartCheck, BatchFlush, CheckDone, SaveBatch, Notify, ReportFlushed,
     DoBarrier, FlushCallback
<1>8. ASSUME NEW s \in Subs, Barrier(s) \/ RunCallback(s) PROVE LockInv'
  BY <1>1, <1>8 DEF Barrier, RunCallback
<1>9. CASE UNCHANGED vars
  BY <1>1, <1>9 DEF vars
<1> QED BY <1>5, <1>6, <1>7, <1>8, <1>9 DEF Next, Work

\* A processor that holds process_lock and cannot go on waits for subscriberLock.
LEMMA StuckProcessor ==
  ASSUME TypeOK, ~CanWork, NEW p \in Procs, procPc[p] # "idle"
  PROVE  procPc[p] = "locked" /\ writerWaits
BY DEF CanWork, ProcessorCanGo, CanRead, TypeOK

\* The flush that DataCube::flush is executing has a processor still to be given the barrier.
LEMMA NextProcessor ==
  ASSUME IInv, NEW x \in Callers, inFlush[x] # None
  PROVE  pushed[inFlush[x]] + 1 \in Procs
<1>1. inFlush[x] \in Flushes /\ inFlush[x] \in started /\ inFlush[x] \notin issued
  BY DEF IInv, SafeInv, RequestInv, TypeOK
<1>2. pushed[inFlush[x]] \in 0 .. NumProcs /\ pushed[inFlush[x]] # NumProcs
  BY <1>1 DEF IInv, SafeInv, RequestInv, TypeOK
<1> QED BY <1>2, ProcsAssumption DEF Procs

\* Work that is left and cannot go on waits, directly or behind a processor, for a
\* writer of subscriberLock.
LEMMA StuckBehindWriter ==
  ASSUME IInv, WorkLeft, ~CanWork PROVE writerWaits
<1>0. TypeOK /\ HandsInv
  BY DEF IInv, SafeInv
<1>1. CASE InHands # {}
  <2>1. PICK c \in Chains : hand[c] # None
    BY <1>1 DEF InHands
  <2>2. chainPc[c] = "assign" /\ hand[c] \in Tuples
    BY <1>0, <2>1 DEF HandsInv, TypeOK
  <2>3. ProcOf[CellOf[hand[c]]] \in Procs
    BY <2>2, KeyAssumption
  <2>4. procPc[ProcOf[CellOf[hand[c]]]] # "idle"
    BY <2>2 DEF CanWork, ChainCanGo
  <2> QED BY <1>0, <2>3, <2>4, StuckProcessor
<1>2. ASSUME NEW x \in Callers, inFlush[x] # None PROVE writerWaits
  <2>1. procPc[pushed[inFlush[x]] + 1] # "idle"
    BY <1>2 DEF CanWork, CallerCanGo
  <2> QED BY <1>0, <1>2, <2>1, NextProcessor, StuckProcessor
<1>3. CASE Readers # {}
  <2>1. PICK c \in Chains : chainPc[c] = "meta"
    BY <1>3 DEF Readers
  <2>2. inFlush[c] # None
    BY <2>1 DEF CanWork, ChainCanGo
  <2> QED BY <1>2, <2>2 DEF Callers
<1>4. ASSUME NEW p \in Procs, tasks[p] # <<>> PROVE writerWaits
  <2>1. procPc[p] # "idle"
    BY <1>4 DEF CanWork, ProcessorCanGo
  <2> QED BY <1>0, <2>1, StuckProcessor
<1>5. ASSUME NEW p \in Procs, flushPc[p] # "idle" PROVE writerWaits
  <2>1. CASE BatcherFree(p)
    BY <1>0, <1>5, <2>1 DEF CanWork, FlusherCanGo, CanRead, TypeOK
  <2>2. CASE ~BatcherFree(p)
    BY <1>0, <2>2, StuckProcessor DEF BatcherFree
  <2> QED BY <2>1, <2>2
<1>6. ASSUME NEW p \in Procs, flushq[p] # <<>> PROVE writerWaits
  <2>1. flushPc[p] # "idle"
    BY <1>6 DEF CanWork, FlusherCanGo
  <2> QED BY <1>5, <2>1
<1>7. ASSUME NEW p \in Procs, batch[p] # {} PROVE writerWaits
  <2>1. BatchSeen(p)
    BY DEF IInv, SafeInv, OrderInv
  <2>2. flushPc[p] # "idle" \/ flushq[p] # <<>>
    BY <1>7, <2>1 DEF BatchSeen, Looping, Elems
  <2> QED BY <1>5, <1>6, <2>2
<1> QED BY <1>1, <1>2, <1>3, <1>4, <1>5, <1>6, <1>7 DEF WorkLeft

\* Whatever the number of processors, chains and subscribers: work is left undone for
\* ever only where a chain keeps subscriberLock and waits for a processor that waits
\* behind the writer.  What Work's actions test is taken from the model checker.
THEOREM StallsNeedWriter == Spec => [](GuardsEnable => StallNeedsWriter)
<1>1. Init => LockInv
  BY DEF Init, LockInv
<1>2. ASSUME IInv, LockInv, WorkLeft, ~CanWork
      PROVE  /\ writerWaits /\ wants # {}
             /\ \E c \in Readers : inFlush[c] # None /\ procPc[pushed[inFlush[c]] + 1] = "locked"
  <2>1. writerWaits /\ wants # {} /\ Readers # {}
    BY <1>2, StuckBehindWriter DEF LockInv
  <2>2. PICK c \in Chains : c \in Readers /\ chainPc[c] = "meta"
    BY <2>1 DEF Readers
  <2>3. c \in Callers /\ inFlush[c] # None
    BY <1>2, <2>2 DEF CanWork, ChainCanGo, Callers
  <2>4. procPc[pushed[inFlush[c]] + 1] # "idle"
    BY <1>2, <2>3 DEF CanWork, CallerCanGo
  <2>5. procPc[pushed[inFlush[c]] + 1] = "locked"
    BY <1>2, <2>3, <2>4, NextProcessor, StuckProcessor DEF IInv
  <2> QED BY <2>1, <2>2, <2>3, <2>5
<1>3. IInv /\ LockInv => (GuardsEnable => StallNeedsWriter)
  BY Zenon, <1>2 DEF GuardsEnable, StallNeedsWriter
<1>4. IInv /\ LockInv /\ [Next]_vars => IInv' /\ LockInv'
  BY InvStep, LockStep DEF IInv
<1> QED BY InitInv, <1>1, <1>3, <1>4, PTL DEF Spec

-----------------------------------------------------------------------------
(* wait_for_commits.                                                       *)

\* A process queue length of zero means that no processor's queue holds a tuple.
LEMMA ZeroIsEmpty ==
  ASSUME IInv, LengthInv, ~(processLen > 0), NEW p \in Procs
  PROVE  Elems(tasks[p]) \cap Tuples = {}
<1>1. Cardinality(Waiting) = 0
  BY CountsAreNumbers DEF LengthInv, ProcessExact
<1>2. Waiting = {}
  BY <1>1, FS_EmptySet DEF LengthInv, ProcessExact
<1> QED
  BY <1>2, WaitingIs DEF IInv, OnTheWay

\* What the poller knows: what it still waits for is in a queue.
WaitInv == IInv /\ LengthInv /\ mustSee \subseteq Queued /\ WaitDrains

\* Every step of the cube's threads and of the poller keeps it.
LEMMA WaitStep == WaitInv /\ [WaitNext]_<<vars, waitVars>> => WaitInv'
<1> SUFFICES ASSUME WaitInv, [WaitNext]_<<vars, waitVars>> PROVE WaitInv'
  OBVIOUS
<1>1. [Next]_vars
  BY DEF WaitNext, CallWait, ReadFlush, ReadProcess
<1>2. IInv' /\ LengthInv'
  BY ZenonT(20), <1>1, InvStep, ProcessStep, FlushStep DEF WaitInv, LengthInv
<1>3. ASSUME UNCHANGED vars PROVE Queued' = Queued
  BY <1>3 DEF Queued, vars
<1>4. CASE UNCHANGED <<vars, waitVars>>
  BY ZenonT(20), <1>2, <1>3, <1>4 DEF WaitInv, WaitDrains, waitVars
<1>5. CASE Next /\ UNCHANGED waitPc /\ mustSee' = mustSee \cap Queued'
  BY ZenonT(20), <1>2, <1>5 DEF WaitInv, WaitDrains
<1>6. CASE CallWait
  <2>1. waitPc' # "out"
    BY <1>6 DEF CallWait
  <2> QED
    BY ZenonT(20), <1>2, <1>3, <1>6, <2>1 DEF WaitInv, WaitDrains, CallWait
<1>7. CASE ReadFlush
  <2>1. waitPc' # "out"
    BY <1>7 DEF ReadFlush
  <2> QED
    BY ZenonT(20), <1>2, <1>3, <1>7, <2>1 DEF WaitInv, WaitDrains, ReadFlush
<1>8. CASE ReadProcess
  <2>1. UNCHANGED vars /\ UNCHANGED mustSee
    BY ZenonT(20), <1>8 DEF ReadProcess
  <2>2. CASE processLen > 0
    <3>1. waitPc' # "out"
      BY <1>8, <2>2 DEF ReadProcess
    <3> QED
      BY ZenonT(20), <1>2, <1>3, <2>1, <3>1 DEF WaitInv, WaitDrains
  <2>3. CASE ~(processLen > 0)
    <3>1. Queued = {}
      BY <2>3, ZeroIsEmpty DEF WaitInv, Queued
    <3> QED
      BY ZenonT(20), <1>2, <1>3, <2>1, <3>1 DEF WaitInv, WaitDrains
  <2> QED
    BY <2>2, <2>3
<1> QED
  BY ZenonT(20), <1>4, <1>5, <1>6, <1>7, <1>8 DEF WaitNext

\* When wait_for_commits returns, every tuple that waited in a processor's
\* queue at the call has left it, however many threads push and process meanwhile.
THEOREM WaitSeesAll == WaitSpec => []WaitDrains
<1>1. WaitInit => WaitInv
  BY InitInv, InitLengths DEF WaitInit, WaitInv, WaitDrains
<1>2. WaitInv => WaitDrains
  BY DEF WaitInv
<1> QED
  BY <1>1, <1>2, WaitStep, PTL DEF WaitSpec
=============================================================================
