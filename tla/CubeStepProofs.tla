--------------------------- MODULE CubeStepProofs ---------------------------
(***************************************************************************)
(* Proofs about CubePipeline, part 1: what Append and Tail do to a queue,  *)
(* that every step keeps the types, what a step that leaves a part of the  *)
(* state alone preserves, and that every step keeps SafeInv.               *)
(***************************************************************************)
EXTENDS CubeInvariant, TLAPS

USE ZenonT(3), SMTT(20), Z3T(20), ZenonT(20) DEF chainVars, procVars, flushVars, infoVars, lockVars, askedVars

-----------------------------------------------------------------------------
(* How Append and Tail change what the operators of Queues say of a queue. *)

\* Pushing a task leaves the others where they are.
LEMMA AppendFacts ==
  ASSUME NEW A, NEW q \in Seq(A), NEW x
  PROVE  /\ Len(q) \in Nat /\ DOMAIN q = 1 .. Len(q) /\ DOMAIN Append(q, x) = 1 .. Len(q) + 1
         /\ \A j \in 1 .. Len(q) : Append(q, x)[j] = q[j]
         /\ Append(q, x)[Len(q) + 1] = x
  OBVIOUS

\* Pushing a task adds it to the tasks in the queue.
LEMMA ElemsAppend ==
  ASSUME NEW A, NEW q \in Seq(A), NEW x
  PROVE  Elems(Append(q, x)) = Elems(q) \cup {x}
<1>1. DOMAIN Append(q, x) = 1 .. Len(q) + 1 /\ DOMAIN q = 1 .. Len(q) /\ Len(q) \in Nat
  OBVIOUS
<1>2. \A i \in 1 .. Len(q) + 1 : Append(q, x)[i] = IF i = Len(q) + 1 THEN x ELSE q[i]
  OBVIOUS
<1> QED BY SMTT(20), Z3T(20), SMTT(30), <1>1, <1>2 DEF Elems

\* Popping a task leaves the others.
LEMMA ElemsTail ==
  ASSUME NEW A, NEW q \in Seq(A), q # <<>>
  PROVE  /\ Tail(q) \in Seq(A) /\ Head(q) \in A
         /\ Elems(q) = {Head(q)} \cup Elems(Tail(q))
<1>1. /\ Tail(q) \in Seq(A) /\ Head(q) = q[1] /\ Len(q) \in Nat /\ Len(q) >= 1
      /\ DOMAIN q = 1 .. Len(q) /\ DOMAIN Tail(q) = 1 .. Len(q) - 1
      /\ \A i \in 1 .. Len(q) - 1 : Tail(q)[i] = q[i + 1]
  OBVIOUS
<1>2. Elems(q) \subseteq {Head(q)} \cup Elems(Tail(q))
  <2> SUFFICES ASSUME NEW i \in 1 .. Len(q), i # 1 PROVE q[i] \in Elems(Tail(q))
    BY ZenonT(20), <1>1 DEF Elems
  <2>1. i - 1 \in 1 .. Len(q) - 1 /\ q[i] = Tail(q)[i - 1]
    BY SMTT(20), Z3T(20), SMTT(30), <1>1
  <2> QED BY <1>1, <2>1 DEF Elems
<1>3. Elems(Tail(q)) \subseteq Elems(q)
  <2> SUFFICES ASSUME NEW i \in 1 .. Len(q) - 1 PROVE Tail(q)[i] \in Elems(q)
    BY <1>1 DEF Elems
  <2>1. i + 1 \in 1 .. Len(q) /\ Tail(q)[i] = q[i + 1]
    BY <1>1
  <2> QED BY <1>1, <2>1 DEF Elems
<1>4. Head(q) \in Elems(q)
  BY SMTT(20), Z3T(20), SMTT(30), <1>1 DEF Elems
<1> QED BY <1>1, <1>2, <1>3, <1>4

\* A task that is not in the queue can be pushed without repeating it.
LEMMA OnceAppend ==
  ASSUME NEW A, NEW q \in Seq(A), NEW x, NEW S, Once(S, q), x \in S => x \notin Elems(q)
  PROVE  Once(S, Append(q, x))
<1>1. DOMAIN Append(q, x) = 1 .. Len(q) + 1 /\ DOMAIN q = 1 .. Len(q) /\ Len(q) \in Nat
  OBVIOUS
<1>2. \A i \in 1 .. Len(q) + 1 : Append(q, x)[i] = IF i = Len(q) + 1 THEN x ELSE q[i]
  OBVIOUS
<1>3. \A i \in 1 .. Len(q) : x \in S => q[i] # x
  BY <1>1 DEF Elems
<1>4. \A i, j \in 1 .. Len(q) : q[i] \in S /\ q[i] = q[j] => i = j
  BY <1>1 DEF Once
<1> QED BY SMTT(20), Z3T(20), SMTT(30), <1>1, <1>2, <1>3, <1>4 DEF Once

\* A task popped is no longer in a queue that held it once.
LEMMA OnceTail ==
  ASSUME NEW A, NEW q \in Seq(A), q # <<>>, NEW S, Once(S, q)
  PROVE  Once(S, Tail(q)) /\ (Head(q) \in S => Head(q) \notin Elems(Tail(q)))
<1>1. /\ Head(q) = q[1] /\ Len(q) \in Nat /\ Len(q) >= 1
      /\ DOMAIN q = 1 .. Len(q) /\ DOMAIN Tail(q) = 1 .. Len(q) - 1
      /\ \A i \in 1 .. Len(q) - 1 : i + 1 \in 1 .. Len(q) /\ Tail(q)[i] = q[i + 1]
  OBVIOUS
<1>2. \A i, j \in 1 .. Len(q) : q[i] \in S /\ q[i] = q[j] => i = j
  BY <1>1 DEF Once
<1>3. Once(S, Tail(q))
  <2> SUFFICES ASSUME NEW i \in 1 .. Len(q) - 1, NEW j \in 1 .. Len(q) - 1,
                      Tail(q)[i] \in S, Tail(q)[i] = Tail(q)[j]
               PROVE  i = j
    BY <1>1 DEF Once
  <2> QED BY SMTT(20), Z3T(20), SMTT(30), <1>1, <1>2
<1>4. ASSUME Head(q) \in S, NEW i \in 1 .. Len(q) - 1, Tail(q)[i] = Head(q) PROVE FALSE
  BY SMTT(20), Z3T(20), SMTT(30), <1>1, <1>2, <1>4
<1> QED BY <1>1, <1>3, <1>4 DEF Elems

\* A task pushed behind x, if x is queued, is not one that must be ahead of x.
LEMMA AllAheadAppend ==
  ASSUME NEW A, NEW q \in Seq(A), NEW y, NEW S, NEW x, AllAhead(S, x, q),
         x \notin S, y \in S => x \notin Elems(q)
  PROVE  AllAhead(S, x, Append(q, y))
<1>1. DOMAIN Append(q, y) = 1 .. Len(q) + 1 /\ DOMAIN q = 1 .. Len(q) /\ Len(q) \in Nat
  OBVIOUS
<1>2. \A i \in 1 .. Len(q) + 1 : Append(q, y)[i] = IF i = Len(q) + 1 THEN y ELSE q[i]
  OBVIOUS
<1>3. \A i \in 1 .. Len(q) : y \in S => q[i] # x
  BY <1>1 DEF Elems
<1>4. \A i, j \in 1 .. Len(q) : q[i] = x /\ q[j] \in S => j < i
  BY <1>1 DEF AllAhead
<1> QED BY SMTT(20), Z3T(20), SMTT(30), <1>1, <1>2, <1>3, <1>4 DEF AllAhead

\* Popping keeps the order; when x itself is popped, nothing of S is left.
LEMMA AllAheadTail ==
  ASSUME NEW A, NEW q \in Seq(A), q # <<>>, NEW S, NEW x, AllAhead(S, x, q)
  PROVE  AllAhead(S, x, Tail(q)) /\ (Head(q) = x => Elems(q) \cap S = {})
<1>1. /\ Head(q) = q[1] /\ Len(q) \in Nat /\ Len(q) >= 1
      /\ DOMAIN q = 1 .. Len(q) /\ DOMAIN Tail(q) = 1 .. Len(q) - 1
      /\ \A i \in 1 .. Len(q) - 1 : i + 1 \in 1 .. Len(q) /\ Tail(q)[i] = q[i + 1]
  OBVIOUS
<1>2. \A i, j \in 1 .. Len(q) : q[i] = x /\ q[j] \in S => j < i
  BY <1>1 DEF AllAhead
<1>3. AllAhead(S, x, Tail(q))
  <2> SUFFICES ASSUME NEW i \in 1 .. Len(q) - 1, NEW j \in 1 .. Len(q) - 1,
                      Tail(q)[i] = x, Tail(q)[j] \in S
               PROVE  j < i
    BY <1>1 DEF AllAhead
  <2> QED BY <1>1, <1>2
<1>4. ASSUME Head(q) = x, NEW j \in 1 .. Len(q), q[j] \in S PROVE FALSE
  BY SMTT(20), Z3T(20), SMTT(30), <1>1, <1>2, <1>4
<1> QED BY <1>1, <1>3, <1>4 DEF Elems

\* A task pushed behind a y has a y ahead of it.
LEMMA SomeAheadAppend ==
  ASSUME NEW A, NEW q \in Seq(A), NEW z, NEW y, NEW x, SomeAhead(y, x, q),
         z = x => y \in Elems(q)
  PROVE  SomeAhead(y, x, Append(q, z))
<1>1. DOMAIN Append(q, z) = 1 .. Len(q) + 1 /\ DOMAIN q = 1 .. Len(q) /\ Len(q) \in Nat
  OBVIOUS
<1>2. \A i \in 1 .. Len(q) + 1 : Append(q, z)[i] = IF i = Len(q) + 1 THEN z ELSE q[i]
  OBVIOUS
<1>3. z = x => \E j \in 1 .. Len(q) : q[j] = y
  BY <1>1 DEF Elems
<1>4. \A i \in 1 .. Len(q) : q[i] = x => \E j \in 1 .. Len(q) : j < i /\ q[j] = y
  BY <1>1 DEF SomeAhead
<1>5. ASSUME NEW i \in 1 .. Len(q) + 1, Append(q, z)[i] = x
      PROVE  \E j \in 1 .. Len(q) + 1 : j < i /\ Append(q, z)[j] = y
  <2>1. CASE i = Len(q) + 1
    <3>1. PICK j \in 1 .. Len(q) : q[j] = y
      BY <1>1, <1>2, <1>3, <1>5, <2>1
    <3> QED BY <1>1, <1>2, <2>1, <3>1
  <2>2. CASE i \in 1 .. Len(q)
    <3>1. PICK j \in 1 .. Len(q) : j < i /\ q[j] = y
      BY <1>1, <1>2, <1>4, <1>5, <2>2
    <3> QED BY <1>1, <1>2, <2>2, <3>1
  <2> QED BY <1>1, <2>1, <2>2
<1> QED BY <1>1, <1>5 DEF SomeAhead

\* Popping something else than y keeps the y ahead; and then x is not first.
LEMMA SomeAheadTail ==
  ASSUME NEW A, NEW q \in Seq(A), q # <<>>, NEW y, NEW x, SomeAhead(y, x, q)
  PROVE  /\ Head(q) # y => SomeAhead(y, x, Tail(q))
         /\ Head(q) # x
<1>1. /\ Head(q) = q[1] /\ Len(q) \in Nat /\ Len(q) >= 1
      /\ DOMAIN q = 1 .. Len(q) /\ DOMAIN Tail(q) = 1 .. Len(q) - 1
      /\ \A i \in 1 .. Len(q) - 1 : i + 1 \in 1 .. Len(q) /\ Tail(q)[i] = q[i + 1]
  OBVIOUS
<1>2. \A i \in 1 .. Len(q) : q[i] = x => \E j \in 1 .. Len(q) : j < i /\ q[j] = y
  BY <1>1 DEF SomeAhead
<1>3. ASSUME Head(q) # y, NEW i \in 1 .. Len(q) - 1, Tail(q)[i] = x
      PROVE  \E j \in 1 .. Len(q) - 1 : j < i /\ Tail(q)[j] = y
  <2>1. PICK j \in 1 .. Len(q) : j < i + 1 /\ q[j] = y
    BY <1>1, <1>2, <1>3
  <2>2. j # 1
    BY <1>1, <1>3, <2>1
  <2>3. j - 1 \in 1 .. Len(q) - 1 /\ j - 1 < i /\ Tail(q)[j - 1] = y
    BY SMTT(20), Z3T(20), SMTT(30), <1>1, <2>1, <2>2
  <2> QED BY <2>3
<1>4. Head(q) # x
  BY <1>1, <1>2
<1> QED BY <1>1, <1>3, <1>4 DEF SomeAhead

\* What the proofs use of Cardinality: sets of processors and of cells are finite.
\* CubePipelineProofs derives it from the assumptions on the constants.
Counting ==
  /\ \A S \in SUBSET Cells : Cardinality(S) \in Nat
  /\ Cardinality(Procs) = NumProcs
  /\ \A S \in SUBSET Procs :
       /\ Cardinality(S) \in Nat /\ (Cardinality(S) = 0 <=> S = {})
       /\ \A p \in S : Cardinality(S \ {p}) = Cardinality(S) - 1

-----------------------------------------------------------------------------
(* Types.                                                                  *)

\* Every step of the chains, the cube's threads and the subscribers keeps the
\* variables in their sets; the count of a flush never drops below zero.
LEMMA TypeStep == Counting /\ IInv /\ [Next]_vars => TypeOK'
<1> SUFFICES ASSUME Counting, IInv, Next PROVE TypeOK'
  BY ZenonT(20) DEF IInv, TypeOK, vars
<1>0. TypeOK /\ HandsInv /\ PlacesInv /\ RequestInv /\ TravelInv /\ CountInv
  BY DEF IInv, SafeInv
<1>1. ASSUME NEW c \in Chains, NEW t \in Tuples, ReportInsert(c, t) PROVE TypeOK'
  BY SMTT(20), Z3T(20), SMTT(30), <1>0, <1>1 DEF ReportInsert, TypeOK
<1>2. ASSUME NEW c \in Chains, Assign(c) PROVE TypeOK'
  <2>1. hand[c] \in Tuples /\ ProcOf[CellOf[hand[c]]] \in Procs
    BY SMTT(20), Z3T(20), SMTT(30), <1>0, <1>2, KeyAssumption DEF Assign, TypeOK, HandsInv
  <2>2. tasks' \in [Procs -> Seq(Tuples \cup Flushes)]
    BY SMTT(20), Z3T(20), SMTT(30), <1>0, <1>2, <2>1 DEF Assign, TypeOK
  <2> QED BY <1>0, <1>2, <2>1, <2>2 DEF Assign, TypeOK
<1>3. ASSUME NEW c \in Chains, BeginMeta(c) PROVE TypeOK'
  BY <1>0, <1>3 DEF BeginMeta, TypeOK
<1>4. ASSUME NEW c \in Chains, NEW s \in Subs, VisitQuietly(c, s) PROVE TypeOK'
  BY <1>0, <1>4 DEF VisitQuietly, TypeOK
<1>5. ASSUME NEW c \in Chains, NEW s \in Subs, NEW f \in Flushes,
              VisitFlush(c, s, f) PROVE TypeOK'
  BY SMTT(20), Z3T(20), SMTT(30), <1>0, <1>5, ProcsAssumption DEF VisitFlush, StartFlush, TypeOK, Callers
<1>6. ASSUME NEW c \in Chains, EndMeta(c) PROVE TypeOK'
  BY <1>0, <1>6 DEF EndMeta, TypeOK
<1>7. ASSUME NEW s \in Subs, NEW f \in Flushes, EmitBatch(s, f) PROVE TypeOK'
  <2>1. count' \in [Flushes -> 0 .. NumProcs]
    BY SMTT(20), Z3T(20), SMTT(30), <1>0, <1>7, ProcsAssumption DEF EmitBatch, StartFlush, TypeOK
  <2>3. inFlush' \in [Callers -> Flushes \cup {None}]
    BY ZenonT(20), <1>0, <1>7 DEF EmitBatch, StartFlush, TypeOK
  <2>4. before' \in [Flushes -> SUBSET Tuples] /\ earlier' \in [Flushes -> SUBSET Flushes]
    BY <1>0, <1>7 DEF EmitBatch, StartFlush, TypeOK
  <2>2. subsc' \in [Flushes -> Subs \cup {None}]
    BY <1>0, <1>7 DEF EmitBatch, StartFlush, TypeOK
  <2> QED BY ZenonT(20), <1>0, <1>7, <2>1, <2>2, <2>3, <2>4 DEF EmitBatch, StartFlush, TypeOK
<1>8. ASSUME NEW x \in Callers, Barrier(x) PROVE TypeOK'
  <2> DEFINE f == inFlush[x]
  <2>0. f # None /\ f \in started \ issued /\ f \in Flushes
    BY <1>0, <1>8 DEF Barrier, TypeOK, RequestInv
  <2>1. f \in Flushes /\ pushed[f] + 1 \in Procs
    <3>1. pushed[f] # NumProcs /\ pushed[f] \in 0 .. NumProcs
      BY <1>0, <2>0 DEF TypeOK, RequestInv
    <3> QED BY <2>0, <3>1, ProcsAssumption DEF Procs
  <2>2. tasks' \in [Procs -> Seq(Tuples \cup Flushes)]
    BY SMTT(20), Z3T(20), SMTT(30), <1>0, <1>8, <2>1 DEF Barrier, TypeOK
  <2>4. pushed' \in [Flushes -> 0 .. NumProcs]
    BY SMTT(20), Z3T(20), SMTT(30), <1>0, <1>8, <2>1, ProcsAssumption DEF Barrier, TypeOK, Procs
  <2>3. inFlush' \in [Callers -> Flushes \cup {None}] /\ issued' \subseteq Flushes
    BY ZenonT(20), <1>0, <1>8, <2>1 DEF Barrier, TypeOK
  <2> QED BY <1>0, <1>8, <2>2, <2>3, <2>4 DEF Barrier, TypeOK
<1>9. ASSUME NEW p \in Procs, Wake(p) \/ LockBatch(p) PROVE TypeOK'
  BY <1>0, <1>9 DEF Wake, LockBatch, TypeOK
<1>10. ASSUME NEW p \in Procs, NEW t \in Tuples, NEW T \in SUBSET subscribers,
              DoProcess(p, t, T) PROVE TypeOK'
  <2>1. tasks' \in [Procs -> Seq(Tuples \cup Flushes)]
    BY SMTT(20), Z3T(20), SMTT(30), <1>0, <1>10 DEF DoProcess, TakeTuple, TypeOK
  <2>2. flushq' \in [Procs -> Seq(Flushes \cup {Check})]
    BY SMTT(20), Z3T(20), SMTT(30), <1>0, <1>10 DEF DoProcess, TypeOK
  <2>3. batchTo' \in [Procs -> [Cells -> SUBSET Subs]]
    BY <1>0, <1>10, KeyAssumption DEF DoProcess, TypeOK
  <2>4. flushLen' \in Int /\ batch' \in [Procs -> SUBSET Tuples]
    BY SMTT(20), Z3T(20), SMTT(30), <1>0, <1>10 DEF DoProcess, TypeOK
  <2> QED BY <1>0, <1>10, <2>1, <2>2, <2>3, <2>4 DEF DoProcess, TakeTuple, TypeOK
<1>11. ASSUME NEW p \in Procs, NEW t \in Tuples, NEW T \in SUBSET subscribers,
              DoProcessNoBatch(p, t, T) PROVE TypeOK'
  <2>1. tasks' \in [Procs -> Seq(Tuples \cup Flushes)]
    BY SMTT(20), Z3T(20), SMTT(30), <1>0, <1>11 DEF DoProcessNoBatch, TakeTuple, TypeOK
  <2>2. execq' \in [Subs -> Seq(Calls)]
    <3>1. <<"saved", {t}>> \in Calls
      BY DEF Calls
    <3> QED BY SMTT(20), Z3T(20), SMTT(30), <1>0, <1>11, <3>1 DEF DoProcessNoBatch, SaveCallback, TypeOK
  <2> QED BY <1>0, <1>11, <2>1, <2>2 DEF DoProcessNoBatch, TakeTuple, TypeOK
<1>12. ASSUME NEW p \in Procs, ReportDelete(p) PROVE TypeOK'
  BY SMTT(20), Z3T(20), SMTT(30), <1>0, <1>12 DEF ReportDelete, TypeOK
<1>c. ASSUME NEW p \in Procs, PassBarrier(p) PROVE TypeOK'
  BY SMTT(20), Z3T(20), SMTT(30), <1>0, <1>c DEF PassBarrier, TypeOK
<1>14. ASSUME NEW p \in Procs, Drained(p) PROVE TypeOK'
  BY ZenonT(20), <1>0, <1>14 DEF Drained, TypeOK
<1>15. ASSUME NEW p \in Procs, StartCheck(p) PROVE TypeOK'
  BY SMTT(20), Z3T(20), SMTT(30), <1>0, <1>15 DEF StartCheck, TypeOK
<1>16. ASSUME NEW p \in Procs, BatchFlush(p) PROVE TypeOK'
  <2>1. CellsOf(batch[p]) \in SUBSET Cells
    BY SMTT(20), Z3T(20), SMTT(30), <1>0, KeyAssumption DEF CellsOf, TypeOK
  <2> QED BY <1>0, <1>16, <2>1 DEF BatchFlush, TypeOK
<1>17. ASSUME NEW p \in Procs, CheckDone(p) PROVE TypeOK'
  BY <1>0, <1>17 DEF CheckDone, TypeOK
<1>18. ASSUME NEW p \in Procs, SaveBatch(p) PROVE TypeOK'
  BY <1>0, <1>18 DEF SaveBatch, TypeOK
<1>19. ASSUME NEW p \in Procs, NEW k \in Cells, Notify(p, k) PROVE TypeOK'
  <2> DEFINE S == {t \in saving[p] : CellOf[t] = k}
  <2>1. <<"saved", S>> \in Calls
    BY <1>0 DEF Calls, TypeOK
  <2>2. execq' \in [Subs -> Seq(Calls)]
    <3>1. SaveCallback(S, savingTo[p][k])
      BY <1>19 DEF Notify
    <3> HIDE DEF S
    <3> QED BY SMTT(20), Z3T(20), SMTT(30), <1>0, <2>1, <3>1 DEF SaveCallback, TypeOK
  <2> QED BY <1>0, <1>19, <2>2 DEF Notify, TypeOK
<1>20. ASSUME NEW p \in Procs, ReportFlushed(p) PROVE TypeOK'
  <2>1. Cardinality(saved[p]) \in Int
    BY SMTT(20), Z3T(20), SMTT(30), <1>0 DEF Counting, TypeOK
  <2> QED BY SMTT(20), Z3T(20), SMTT(30), <1>0, <1>20, <2>1 DEF ReportFlushed, TypeOK
<1>21. ASSUME NEW p \in Procs, DoBarrier(p) PROVE TypeOK'
  <2> DEFINE f == Head(flushq[p])
  <2>1. f \in Elems(flushq[p]) /\ Tail(flushq[p]) \in Seq(Flushes \cup {Check})
    BY SMTT(20), Z3T(20), SMTT(30), <1>0, <1>21, ElemsTail DEF DoBarrier, TypeOK
  <2>2. f \in started /\ Left(f) # {}
    BY <1>0, <1>21, <2>1 DEF DoBarrier, TravelInv, TravelAt, Left
  <2>3. count[f] \in 1 .. NumProcs
    <3>1. Cardinality(Left(f)) \in Nat /\ Cardinality(Left(f)) # 0
      BY <2>2 DEF Counting, Left
    <3>2. count[f] = Cardinality(Left(f)) /\ count[f] \in 0 .. NumProcs
      BY <1>0, <2>2 DEF CountInv, TypeOK
    <3> QED BY <3>1, <3>2, ProcsAssumption
  <2>4. count' \in [Flushes -> 0 .. NumProcs]
    BY SMTT(20), Z3T(20), SMTT(30), <1>0, <1>21, <2>3, ProcsAssumption DEF DoBarrier, TypeOK
  <2>5. flushq' \in [Procs -> Seq(Flushes \cup {Check})]
    BY <1>0, <1>21, <2>1 DEF DoBarrier, TypeOK
  <2>6. /\ flushPc' \in [Procs -> {"idle", "check", "save", "notify", "answer"}]
        /\ answering' \in [Procs -> Flushes \cup {None}]
    BY ZenonT(20), <1>0, <1>21 DEF DoBarrier, TypeOK
  <2> QED BY <1>0, <1>21, <2>4, <2>5, <2>6 DEF DoBarrier, TypeOK
<1>22. ASSUME NEW p \in Procs, FlushCallback(p) PROVE TypeOK'
  <2> DEFINE f == answering[p]
  <2>1. f \in Flushes /\ subsc[f] \in Subs
    BY <1>0, <1>22 DEF FlushCallback, CountInv, RequestInv, TypeOK
  <2>2. <<"flush", f>> \in Calls
    BY <2>1 DEF Calls
  <2>3. execq' \in [Subs -> Seq(Calls)]
    BY SMTT(20), Z3T(20), SMTT(30), <1>0, <1>22, <2>1, <2>2 DEF FlushCallback, TypeOK
  <2> QED BY <1>0, <1>22, <2>1, <2>3 DEF FlushCallback, TypeOK
<1>23. ASSUME NEW s \in Subs, RunCallback(s) PROVE TypeOK'
  BY SMTT(20), Z3T(20), SMTT(30), <1>0, <1>23 DEF RunCallback, TypeOK
<1>24. ASSUME NEW s \in Subs, CallWriter(s) PROVE TypeOK'
  BY <1>0, <1>24 DEF CallWriter, TypeOK
<1>25. ASSUME NEW s \in Subs, WriterBlocks(s) PROVE TypeOK'
  BY <1>0, <1>25 DEF WriterBlocks, TypeOK
<1>26. ASSUME NEW s \in Subs, WriterRuns(s) PROVE TypeOK'
  BY <1>0, <1>26 DEF WriterRuns, TypeOK
<1> QED
  BY <1>1, <1>2, <1>3, <1>4, <1>5, <1>6, <1>7, <1>8, <1>9, <1>10, <1>11, <1>12, <1>c, <1>14,
     <1>15, <1>16, <1>17, <1>18, <1>19, <1>20, <1>21, <1>22, <1>23, <1>24, <1>25, <1>26
  DEF Next, Arrival, Work, Chain, Processor, Flusher, Writer, Callers

-----------------------------------------------------------------------------
(* What a part of the invariant depends on: it survives a step that leaves *)
(* those variables alone.                                                  *)

\* HandsInv reads only what chains hold and what was handed over.
LEMMA HandsFrame == HandsInv /\ UNCHANGED <<chainPc, hand, assigned>> => HandsInv'
BY DEF HandsInv

\* PlacesAt(p) reads p's containers and the sets of tuples.
LEMMA PlacesAtFrame ==
  ASSUME NEW p, PlacesAt(p), tasks'[p] = tasks[p], batch'[p] = batch[p],
         saving'[p] = saving[p], flushPc'[p] = flushPc[p], UNCHANGED <<assigned, stored>>
  PROVE  PlacesAt(p)'
BY DEF PlacesAt, Kept

\* PlacesInv reads the containers of all processors.
LEMMA PlacesFrame ==
  PlacesInv /\ UNCHANGED <<tasks, batch, saving, flushPc, assigned, stored>> => PlacesInv'
BY ZenonT(20) DEF PlacesInv, PlacesAt, Kept

\* RequestInv reads the requests of flushes.
LEMMA RequestFrame ==
  RequestInv /\ UNCHANGED <<inFlush, pushed, subsc, started, issued>> => RequestInv'
BY DEF RequestInv

\* TravelAt(p) reads the two queues of p.
LEMMA TravelAtFrame ==
  ASSUME NEW p, TravelAt(p), tasks'[p] = tasks[p], flushq'[p] = flushq[p],
         UNCHANGED <<started, pushed>>
  PROVE  TravelAt(p)'
BY DEF TravelAt

\* TravelInv reads the queues of all processors.
LEMMA TravelFrame == TravelInv /\ UNCHANGED <<tasks, flushq, started, pushed>> => TravelInv'
BY DEF TravelInv, TravelAt

\* The processors a flush has not passed depend on where its barriers are.
LEMMA LeftFrame ==
  ASSUME NEW f, pushed'[f] = pushed[f],
         \A p \in Procs : f \in Elems(tasks'[p]) \/ f \in Elems(flushq'[p])
                          <=> f \in Elems(tasks[p]) \/ f \in Elems(flushq[p])
  PROVE  Left(f)' = Left(f)
BY DEF Left

\* CountInv reads the counts, who is answering, and the processors left.
LEMMA CountFrame ==
  ASSUME CountInv, UNCHANGED <<called, started, count, answering>>,
         \A f \in started : Left(f)' = Left(f),
         \A p \in Procs : flushPc'[p] = "answer" <=> flushPc[p] = "answer"
  PROVE  CountInv'
<1> USE DEF CountInv
<1>1. called' \subseteq started'
  OBVIOUS
<1>2. ASSUME NEW f \in started PROVE count'[f] = Cardinality(Left(f)')
  BY ZenonT(20), <1>2
<1>3. ASSUME NEW f \in started
      PROVE  Left(f)' = {} <=> f \in called' \/ \E p \in Procs : answering'[p] = f
  BY <1>3
<1> QED BY <1>1, <1>2, <1>3

\* OrderAt(p, f) reads the containers of p and what was recorded for f.
LEMMA OrderAtFrame ==
  ASSUME NEW p \in Procs, NEW f, OrderAt(p, f), tasks'[p] = tasks[p], flushq'[p] = flushq[p],
         batch'[p] = batch[p], saving'[p] = saving[p], answering'[p] = answering[p],
         Looping(p)' = Looping(p), pushed'[f] = pushed[f], before'[f] = before[f],
         earlier'[f] = earlier[f]
  PROVE  OrderAt(p, f)'
<1>1. p \notin Left(f) <=> p \notin Left(f)'
  BY DEF Left
<1> QED BY <1>1 DEF OrderAt

\* OrderInv reads all of that.
LEMMA OrderFrame ==
  OrderInv /\ UNCHANGED <<tasks, flushq, batch, saving, answering, flushPc, pushed, before,
                         earlier, started, assigned, issued>> => OrderInv'
<1> SUFFICES ASSUME OrderInv,
                    UNCHANGED <<tasks, flushq, batch, saving, answering, flushPc, pushed,
                                before, earlier, started, assigned, issued>>
             PROVE  OrderInv'
  OBVIOUS
<1>1. ASSUME NEW p \in Procs, NEW f \in started PROVE OrderAt(p, f)'
  BY <1>1, OrderAtFrame DEF OrderInv, Looping
<1>2. ASSUME NEW p \in Procs PROVE BatchSeen(p)'
  BY <1>2 DEF OrderInv, BatchSeen, Looping
<1> QED BY <1>1, <1>2 DEF OrderInv

\* ExecInv reads the executors' queues, the answered flushes and their tuples.
LEMMA ExecFrame == ExecInv /\ UNCHANGED <<execq, called, before>> => ExecInv'
BY DEF ExecInv

\* A step that leaves alone what the flushes and tuples depend on.
LEMMA QuietStep ==
  ASSUME SafeInv,
         UNCHANGED <<inFlush, tasks, batch, flushq, flushPc, saving, answering, infoVars,
                     execq, assigned, stored, askedVars, called>>,
         HandsInv'
  PROVE  SafeInv'
<1>1. CountInv'
  <2>1. \A f \in started : Left(f)' = Left(f)
    BY DEF Left
  <2> QED BY <2>1, CountFrame DEF SafeInv
<1> QED
  BY <1>1, PlacesFrame, RequestFrame, TravelFrame, OrderFrame, ExecFrame DEF SafeInv
-----------------------------------------------------------------------------
(* Facts about barriers and callbacks that several steps use.              *)

\* A flush has passed p when it is pushed there and in neither queue.
LEMMA PassedFacts ==
  ASSUME TypeOK, NEW p \in Procs, NEW f \in Flushes
  PROVE  p \notin Left(f) <=> p <= pushed[f] /\ f \notin Elems(tasks[p]) /\ f \notin Elems(flushq[p])
<1>1. pushed[f] \in Nat
  BY SMTT(20), Z3T(20), SMTT(30), ProcsAssumption DEF TypeOK
<1> QED BY <1>1 DEF Left, Procs

\* save_callback submits an entry that no answered flush waited for.
LEMMA SaveCallbackExec ==
  ASSUME TypeOK, ExecInv, NEW S, NEW T, SaveCallback(S, T), UNCHANGED <<called, before>>,
         \A f \in called : S \cap before[f] = {}
  PROVE  ExecInv'
<1> SUFFICES ASSUME NEW s \in Subs, NEW i \in DOMAIN execq'[s], NEW f \in Flushes,
                    execq'[s][i] = <<"flush", f>>
             PROVE  /\ f \in called
                    /\ \A j \in DOMAIN execq'[s] :
                         i < j /\ execq'[s][j][1] = "saved" => execq'[s][j][2] \cap before[f] = {}
  BY DEF ExecInv
<1> DEFINE e == <<"saved", S>>
<1>1. execq'[s] = execq[s] \/ execq'[s] = Append(execq[s], e)
  BY DEF SaveCallback
<1>2. CASE execq'[s] = execq[s]
  BY <1>2 DEF ExecInv
<1>3. CASE execq'[s] = Append(execq[s], e)
  <2>0. execq[s] \in Seq(Calls)
    BY DEF TypeOK
  <2> HIDE DEF e
  <2>a. /\ Len(execq[s]) \in Nat /\ DOMAIN execq[s] = 1 .. Len(execq[s])
        /\ DOMAIN Append(execq[s], e) = 1 .. Len(execq[s]) + 1
        /\ \A j \in 1 .. Len(execq[s]) : Append(execq[s], e)[j] = execq[s][j]
        /\ Append(execq[s], e)[Len(execq[s]) + 1] = e
    BY ONLY <2>0, AppendFacts, SMTT(20), ZenonT(20), Z3T(20)
  <2>1. /\ Len(execq[s]) \in Nat /\ DOMAIN execq[s] = 1 .. Len(execq[s])
        /\ DOMAIN execq'[s] = 1 .. Len(execq[s]) + 1
        /\ \A j \in 1 .. Len(execq[s]) : execq'[s][j] = execq[s][j]
        /\ execq'[s][Len(execq[s]) + 1] = e
    BY <1>3, <2>a, Zenon
  <2> USE DEF e
  <2>2. i \in 1 .. Len(execq[s])
    BY SMTT(20), Z3T(20), SMTT(30), <2>1
  <2>3. f \in called /\ \A j \in 1 .. Len(execq[s]) :
           i < j /\ execq[s][j][1] = "saved" => execq[s][j][2] \cap before[f] = {}
    BY ZenonT(20), <2>1, <2>2 DEF ExecInv
  <2>4. e[2] \cap before[f] = {}
    BY <2>3
  <2> HIDE DEF e
  <2> QED BY SMTT(40), Z3T(20), SMTT(30), <2>1, <2>3, <2>4
<1> QED BY <1>1, <1>2, <1>3

\* A flush that is answered, or about to be, has passed every processor.
LEMMA AnsweredPassed ==
  ASSUME IInv, NEW f \in Flushes, f \in called \/ \E p \in Procs : answering[p] = f
  PROVE  f \in started /\ Left(f) = {}
<1>1. f \in started
  BY ZenonT(20), KindsAssumption DEF IInv, SafeInv, CountInv
<1> QED BY <1>1 DEF IInv, SafeInv, CountInv

-----------------------------------------------------------------------------
(* The threads that call the cube: pushing a tuple, asking for a flush, pushing a barrier. *)

\* ProcessCallable::assign: a tuple nobody has yet goes to the end of a queue,
\* behind every barrier there, and no pending flush waits for it.
LEMMA AssignStep ==
  ASSUME IInv, NEW c \in Chains, Assign(c)
  PROVE  SafeInv'
<1>0. TypeOK /\ HandsInv /\ PlacesInv /\ RequestInv /\ TravelInv /\ CountInv /\ OrderInv /\ ExecInv
  BY DEF IInv, SafeInv
<1>a. PICK t \in Tuples : t = hand[c]
  BY SMTT(20), Z3T(20), SMTT(30), <1>0 DEF Assign, TypeOK, HandsInv
<1>b. PICK r \in Procs : r = ProcOf[CellOf[t]]
  BY KeyAssumption
<1>1. t \notin assigned /\ t \notin Flushes
  BY <1>0, <1>a, KindsAssumption DEF HandsInv
<1>2. /\ assigned' = assigned \cup {t}
      /\ tasks' = [tasks EXCEPT ![r] = Append(@, t)]
      /\ tasks \in [Procs -> Seq(Tuples \cup Flushes)]
  BY <1>0, <1>a, <1>b DEF Assign, TypeOK
<1>u. UNCHANGED <<inFlush, batch, flushVars, infoVars, execq, stored, askedVars, called>>
  BY DEF Assign
<1>3. \A p \in Procs : p # r => tasks'[p] = tasks[p]
  BY <1>1, <1>2
<1>4. tasks'[r] = Append(tasks[r], t) /\ tasks[r] \in Seq(Tuples \cup Flushes)
  BY <1>1, <1>2
<1>5. Elems(tasks'[r]) = Elems(tasks[r]) \cup {t}
  BY <1>4, ElemsAppend
<1>6. \A p \in Procs : t \notin Kept(p)
  BY <1>0, <1>1 DEF PlacesInv, PlacesAt
<1>7. HandsInv'
  BY SMTT(20), Z3T(20), SMTT(30), <1>0, <1>a, <1>1, <1>2, KindsAssumption DEF Assign, HandsInv, TypeOK
<1>8. PlacesInv'
  <2>1. ASSUME NEW p \in Procs, p # r PROVE PlacesAt(p)'
    <3>1. Kept(p)' = Kept(p)
      BY <1>3, <1>u, <2>1 DEF Kept
    <3>2. PlacesAt(p)
      BY <1>0 DEF PlacesInv
    <3> QED BY <1>2, <1>3, <1>u, <2>1, <3>1, <3>2 DEF PlacesAt
  <2>2. PlacesAt(r)'
    <3>1. Once(Tuples, tasks'[r])
      BY SMTT(20), Z3T(20), SMTT(30), <1>0, <1>1, <1>4, <1>6, OnceAppend DEF PlacesInv, PlacesAt, Kept
    <3>2. Kept(r)' = Kept(r) \cup {t}
      BY <1>5, <1>u DEF Kept
    <3>3. t \notin stored /\ t \notin batch[r] /\ t \notin saving[r]
      BY <1>0, <1>1, <1>6 DEF PlacesInv, Kept
    <3>4. PlacesAt(r)
      BY <1>0, <1>1 DEF PlacesInv
    <3>5. \A u \in Tuples : u \in Kept(r)' => u \in assigned' /\ ProcOf[CellOf[u]] = r
      BY <1>b, <1>2, <3>2, <3>4 DEF PlacesAt
    <3>6. Elems(tasks'[r]) \cap (batch[r] \cup saving[r] \cup stored) = {}
      BY <1>5, <3>3, <3>4 DEF PlacesAt
    <3> QED BY <1>u, <3>1, <3>4, <3>5, <3>6 DEF PlacesAt
  <2>3. \A u \in (assigned \ stored)' : \E p \in Procs : u \in Kept(p)'
    <3>1. \A p \in Procs : Kept(p) \subseteq Kept(p)'
      BY <1>3, <1>5, <1>u DEF Kept
    <3>2. t \in Kept(r)'
      BY <1>5 DEF Kept
    <3> QED BY ZenonT(20), <1>0, <1>1, <1>2, <1>u, <3>1, <3>2 DEF PlacesInv
  <2> QED BY <1>0, <1>2, <1>u, <2>1, <2>2, <2>3 DEF PlacesInv
<1>9. TravelInv'
  <2>1. ASSUME NEW p \in Procs, p # r PROVE TravelAt(p)'
    BY <1>0, <1>3, <1>u, <2>1, TravelAtFrame DEF TravelInv
  <2>2. TravelAt(r)'
    <3>1. TravelAt(r) /\ Once(Flushes, tasks'[r])
      BY <1>0, <1>1, <1>4, OnceAppend DEF TravelInv, TravelAt
    <3> QED BY <1>1, <1>5, <1>u, <3>1 DEF TravelAt
  <2> QED BY <2>1, <2>2 DEF TravelInv
<1>10. \A f \in Flushes : Left(f)' = Left(f)
  BY <1>1, <1>3, <1>5, <1>u, LeftFrame
<1>11. CountInv'
  BY <1>0, <1>10, <1>u, CountFrame DEF TypeOK
<1>12. OrderInv'
  <2>1. ASSUME NEW p \in Procs, p # r, NEW f \in started PROVE OrderAt(p, f)'
    BY <1>0, <1>3, <1>u, <2>1, OrderAtFrame DEF OrderInv, Looping
  <2>2. ASSUME NEW f \in started PROVE OrderAt(r, f)'
    <3>1. OrderAt(r, f) /\ f \in Flushes /\ t \notin before[f] \cup earlier[f] /\ f \notin before[f] \cup earlier[f]
      BY <1>0, <1>1, <2>2, KindsAssumption DEF OrderInv, TypeOK
    <3>2. AllAhead(before[f] \cup earlier[f], f, tasks'[r])
      BY <1>4, <3>1, AllAheadAppend DEF OrderAt
    <3> QED BY <1>1, <1>5, <1>10, <1>u, <3>1, <3>2 DEF OrderAt, Looping
  <2>3. ASSUME NEW p \in Procs PROVE BatchSeen(p)'
    BY <1>0, <1>u, <2>3 DEF OrderInv, BatchSeen, Looping
  <2> QED BY <1>0, <1>2, <1>u, <2>1, <2>2, <2>3 DEF OrderInv
<1> QED BY <1>0, <1>7, <1>8, <1>9, <1>11, <1>12, <1>u, RequestFrame, ExecFrame DEF SafeInv

\* DataCube::flush starts: a new flush has every processor left to pass and is
\* in no queue.
LEMMA RequestStep ==
  ASSUME Counting, IInv, NEW x \in Callers, NEW f \in Flushes, NEW s \in Subs, inFlush[x] = None,
         StartFlush(x, f, s),
         UNCHANGED <<chainPc, hand, procVars, flushVars, execq, assigned, stored, called>>
  PROVE  SafeInv'
<1>0. TypeOK /\ HandsInv /\ PlacesInv /\ RequestInv /\ TravelInv /\ CountInv /\ OrderInv /\ ExecInv
  BY DEF IInv, SafeInv
<1>1. /\ f \notin started /\ f \notin issued /\ f \notin called /\ pushed[f] = 0
      /\ \A p \in Procs : f \notin Elems(tasks[p]) /\ f \notin Elems(flushq[p]) /\ answering[p] # f
  BY SMTT(20), Z3T(20), SMTT(30), <1>0, KindsAssumption DEF StartFlush, RequestInv, CountInv, TravelInv, TravelAt, TypeOK
<1>2. /\ started' = started \cup {f} /\ UNCHANGED <<issued, pushed>>
      /\ \A g \in Flushes \ {f} : before'[g] = before[g] /\ earlier'[g] = earlier[g]
                                  /\ count'[g] = count[g] /\ subsc'[g] = subsc[g]
      /\ before'[f] = assigned /\ earlier'[f] = issued /\ count'[f] = NumProcs /\ subsc'[f] = s
      /\ inFlush'[x] = f /\ \A y \in Callers \ {x} : inFlush'[y] = inFlush[y]
  BY <1>0 DEF StartFlush, TypeOK
<1>3. RequestInv'
  <2>1. pushed[f] # NumProcs
    BY <1>1, ProcsAssumption
  <2>2. \A y \in Callers : inFlush[y] # f
    BY SMTT(20), Z3T(20), SMTT(30), <1>0, <1>1, KindsAssumption DEF RequestInv, TypeOK
  <2>3. issued' \subseteq started' /\ \A g \in Flushes \ started' : pushed'[g] = 0
    BY <1>0, <1>2 DEF RequestInv
  <2>4. ASSUME NEW g \in started' PROVE (g \in issued' <=> pushed'[g] = NumProcs) /\ subsc'[g] \in Subs
    <3>1. CASE g = f
      BY <1>1, <1>2, <2>1, <3>1
    <3>2. CASE g # f
      <4>1. g \in started /\ g \in Flushes
        BY <1>0, <1>2, <2>4, <3>2 DEF TypeOK
      <4> QED BY <1>0, <1>2, <3>2, <4>1 DEF RequestInv
    <3> QED BY <3>1, <3>2
  <2>5. ASSUME NEW y \in Callers, inFlush'[y] # None PROVE inFlush'[y] \in started' \ issued'
    BY <1>0, <1>1, <1>2, <2>5 DEF RequestInv
  <2>6. ASSUME NEW y \in Callers, NEW z \in Callers, inFlush'[y] = inFlush'[z], inFlush'[y] # None
        PROVE  y = z
    <3>1. \A u, v \in Callers : inFlush[u] = inFlush[v] /\ inFlush[u] # None => u = v
      BY <1>0 DEF RequestInv
    <3>2. \A u \in Callers : u # x => inFlush'[u] # inFlush'[x]
      BY Zenon, <1>2, <2>2
    <3>3. CASE y = x \/ z = x
      BY Zenon, <2>6, <3>2, <3>3
    <3>4. CASE y # x /\ z # x
      BY Zenon, <1>2, <2>6, <3>1, <3>4
    <3> QED BY <3>3, <3>4
  <2> QED BY <2>3, <2>4, <2>5, <2>6 DEF RequestInv
<1>4. TravelInv'
  BY <1>0, <1>2 DEF TravelInv, TravelAt
<1>5. \A g \in Flushes : Left(g)' = Left(g)
  BY <1>2 DEF Left
<1>6. CountInv'
  <2>1. Left(f) = Procs /\ Procs # {} /\ Cardinality(Procs) = NumProcs
    <3>1. \A p \in Procs : pushed[f] < p
      BY SMTT(20), Z3T(20), SMTT(30), <1>1, ProcsAssumption DEF Procs
    <3>2. 1 \in Procs
      BY SMTT(20), Z3T(20), SMTT(30), ProcsAssumption DEF Procs
    <3> QED BY ZenonT(40), <3>1, <3>2 DEF Counting, Left
  <2>2. ASSUME NEW g \in started'
        PROVE  /\ count'[g] = Cardinality(Left(g)')
               /\ Left(g)' = {} <=> g \in called' \/ \E p \in Procs : answering'[p] = g
    <3>1. CASE g = f
      BY <1>1, <1>2, <1>5, <2>1, <3>1
    <3>2. CASE g # f
      <4>1. g \in started /\ g \in Flushes
        BY <1>0, <1>2, <2>2, <3>2 DEF TypeOK
      <4> QED BY SMTT(20), Z3T(20), SMTT(30), <1>0, <1>2, <1>5, <3>2, <4>1 DEF CountInv
    <3> QED BY <3>1, <3>2
  <2>3. ASSUME NEW p \in Procs
        PROVE  /\ (flushPc[p] = "answer" <=> answering[p] # None)'
               /\ (answering[p] # None => answering[p] \in started \ called)'
               /\ \A r \in Procs : (answering[p] = answering[r] /\ answering[p] # None => p = r)'
    BY <1>0, <1>2, <2>3 DEF CountInv
  <2> QED BY <1>0, <1>2, <2>2, <2>3 DEF CountInv
<1>7. OrderInv'
  <2>1. ASSUME NEW p \in Procs, NEW g \in started PROVE OrderAt(p, g)'
    <3>1. g # f /\ g \in Flushes /\ OrderAt(p, g)
      BY <1>0, <1>1, <2>1 DEF OrderInv, TypeOK
    <3> QED BY <1>2, <2>1, <3>1, OrderAtFrame DEF Looping
  <2>2. ASSUME NEW p \in Procs PROVE OrderAt(p, f)'
    <3>1. AllAhead((before[f] \cup earlier[f])', f, tasks[p]) /\ AllAhead(earlier'[f], f, flushq[p])
      BY <1>1, <2>2 DEF AllAhead, Elems
    <3>2. ~(p <= pushed[f]) /\ p \in Left(f)'
      BY SMTT(20), Z3T(20), SMTT(30), <1>1, <1>2, <2>2 DEF Procs, Left
    <3> QED BY <1>1, <1>2, <3>1, <3>2 DEF OrderAt
  <2>3. ASSUME NEW p \in Procs PROVE BatchSeen(p)'
    BY <1>0, <2>3 DEF OrderInv, BatchSeen, Looping
  <2>4. ASSUME NEW g \in Flushes
        PROVE  before'[g] \subseteq assigned /\ earlier'[g] \subseteq issued /\ g \notin earlier'[g]
    BY <1>0, <1>1, <1>2, <2>4 DEF OrderInv
  <2> QED BY SMTT(20), Z3T(20), SMTT(30), <1>2, <2>1, <2>2, <2>3, <2>4 DEF OrderInv
<1>8. ExecInv'
  <2> SUFFICES ASSUME NEW u \in Subs, NEW i \in DOMAIN execq[u], NEW g \in Flushes,
                      execq[u][i] = <<"flush", g>>
               PROVE  /\ g \in called
                      /\ \A j \in DOMAIN execq[u] :
                           i < j /\ execq[u][j][1] = "saved" => execq[u][j][2] \cap before'[g] = {}
    BY ZenonT(20) DEF ExecInv
  <2>1. g \in called
    BY <1>0 DEF ExecInv
  <2>2. before'[g] = before[g]
    BY <1>1, <1>2, <2>1
  <2> QED BY <1>0, <2>1, <2>2 DEF ExecInv
<1> QED BY <1>0, <1>3, <1>4, <1>6, <1>7, <1>8, HandsFrame, PlacesFrame DEF SafeInv

\* One turn of DataCube::flush: the barrier joins the queue of the next processor.
LEMMA BarrierStep ==
  ASSUME IInv, NEW x \in Callers, Barrier(x)
  PROVE  SafeInv'
<1>0. TypeOK /\ HandsInv /\ PlacesInv /\ RequestInv /\ TravelInv /\ CountInv /\ OrderInv /\ ExecInv
  BY DEF IInv, SafeInv
<1>a. PICK f \in Flushes : f = inFlush[x]
  BY <1>0 DEF Barrier, TypeOK
<1>1. f \in started /\ f \notin issued /\ pushed[f] \in 0 .. NumProcs /\ pushed[f] # NumProcs /\ f # None
  BY <1>0, <1>a DEF Barrier, RequestInv, TypeOK
<1>b. PICK r \in Procs : r = pushed[f] + 1
  BY <1>1, ProcsAssumption DEF Procs
<1>2. /\ tasks'[r] = Append(tasks[r], f) /\ \A p \in Procs \ {r} : tasks'[p] = tasks[p]
      /\ pushed'[f] = r /\ \A g \in Flushes \ {f} : pushed'[g] = pushed[g]
      /\ tasks[r] \in Seq(Tuples \cup Flushes)
  BY <1>0, <1>a, <1>b DEF Barrier, TypeOK
<1>u. /\ UNCHANGED <<chainPc, hand, batch, flushVars, count, subsc, execq, assigned, stored, started,
                     before, earlier, called>>
      /\ issued \subseteq issued'
  BY DEF Barrier
<1>3. Elems(tasks'[r]) = Elems(tasks[r]) \cup {f}
  BY <1>2, ElemsAppend
<1>4. f \notin Tuples
  BY KindsAssumption
<1>5. \A p \in Procs : ~(p <= pushed[f]) <=> r <= p
  BY <1>1, <1>b DEF Procs
<1>6. f \notin Elems(tasks[r]) /\ f \notin Elems(flushq[r])
  BY SMTT(20), Z3T(20), SMTT(30), <1>0, <1>5, ProcsAssumption DEF TravelInv, TravelAt, Procs
<1>c. ASSUME NEW p \in Procs, p # r, NEW g \in Flushes PROVE p <= pushed'[g] <=> p <= pushed[g]
  <2>1. CASE g # f
    BY <1>2, <2>1
  <2>2. CASE g = f
    BY SMTT(20), Z3T(20), SMTT(30), <1>b, <1>1, <1>2, <1>c, <2>2 DEF Procs
  <2> QED BY <2>1, <2>2
<1>7. PlacesInv'
  <2>1. \A p \in Procs : Kept(p)' \cap Tuples = Kept(p) \cap Tuples
    BY ZenonT(40), <1>2, <1>3, <1>4, <1>u DEF Kept
  <2>2. ASSUME NEW p \in Procs, p # r PROVE PlacesAt(p)'
    BY <1>0, <1>2, <1>u, <2>2, PlacesAtFrame DEF PlacesInv
  <2>3. PlacesAt(r)'
    <3>1. PlacesAt(r)
      BY <1>0 DEF PlacesInv
    <3>2. Once(Tuples, tasks'[r])
      <4>1. Once(Tuples, tasks[r])
        BY <3>1 DEF PlacesAt
      <4> QED BY SMTT(20), Z3T(20), SMTT(30), <1>2, <1>4, <4>1, OnceAppend
    <3>3. f \notin batch[r] \cup saving[r] \cup stored
      BY <1>0, <1>4 DEF TypeOK
    <3> QED BY SMTT(20), Z3T(20), SMTT(30), <1>3, <1>u, <2>1, <3>1, <3>2, <3>3 DEF PlacesAt
  <2> QED BY ZenonT(20), <1>0, <1>u, <2>1, <2>2, <2>3 DEF PlacesInv, TypeOK
<1>8. RequestInv'
  <2>1. CASE r = NumProcs
    <3>1. /\ inFlush' = [inFlush EXCEPT ![x] = None] /\ issued' = issued \cup {f}
          /\ UNCHANGED <<started, subsc>>
      BY <1>a, <1>b, <2>1 DEF Barrier
    <3> QED BY SMTT(20), Z3T(20), SMTT(30), <1>0, <1>a, <1>1, <1>2, <2>1, <3>1 DEF RequestInv, TypeOK
  <2>2. CASE r # NumProcs
    <3>1. UNCHANGED <<inFlush, issued, started, subsc>>
      BY <1>a, <1>b, <2>2 DEF Barrier
    <3> QED BY SMTT(20), Z3T(20), SMTT(30), <1>0, <1>1, <1>2, <2>2, <3>1 DEF RequestInv, TypeOK
  <2> QED BY <2>1, <2>2
<1>9. TravelInv'
  <2>1. ASSUME NEW p \in Procs, p # r PROVE TravelAt(p)'
    <3>1. TravelAt(p)
      BY <1>0 DEF TravelInv
    <3>2. \A g \in Flushes : p <= pushed[g] => p <= pushed'[g]
      BY <1>c, <2>1
    <3> QED BY <1>2, <1>u, <2>1, <3>1, <3>2 DEF TravelAt
  <2>2. TravelAt(r)'
    <3>1. TravelAt(r)
      BY <1>0 DEF TravelInv
    <3>2. Once(Flushes, tasks'[r])
      <4>1. Once(Flushes, tasks[r])
        BY <3>1 DEF TravelAt
      <4> QED BY SMTT(20), Z3T(20), SMTT(30), <1>2, <1>6, <4>1, OnceAppend
    <3>3. r <= r
      BY DEF Procs
    <3> QED BY <1>1, <1>2, <1>3, <1>6, <1>u, <3>1, <3>2, <3>3 DEF TravelAt
  <2> QED BY <2>1, <2>2 DEF TravelInv
<1>10. \A g \in Flushes : Left(g)' = Left(g)
  <2>1. ASSUME NEW g \in Flushes, g # f PROVE Left(g)' = Left(g)
    BY ZenonT(20), <1>2, <1>3, <1>u, <2>1, LeftFrame
  <2>2. ASSUME NEW p \in Procs PROVE p \in Left(f)' <=> p \in Left(f)
    <3>1. pushed[f] < p <=> pushed'[f] < p \/ p = r
      BY SMTT(20), Z3T(20), SMTT(30), <1>b, <1>1, <1>2 DEF Procs
    <3> QED BY ZenonT(20), <1>2, <1>3, <1>u, <3>1 DEF Left
  <2>3. Left(f)' = Left(f)
    BY <2>2 DEF Left
  <2> QED BY <2>1, <2>3
<1>11. CountInv'
  BY <1>0, <1>10, <1>u, CountFrame DEF TypeOK
<1>12. OrderInv'
  <2>1. ASSUME NEW p \in Procs, p # r, NEW g \in started PROVE OrderAt(p, g)'
    <3>1. OrderAt(p, g) /\ g \in Flushes
      BY <1>0, <2>1 DEF OrderInv, TypeOK
    <3>2. p <= pushed'[g] <=> p <= pushed[g]
      BY <1>c, <2>1, <3>1
    <3> QED BY <1>2, <1>10, <1>u, <2>1, <3>1, <3>2 DEF OrderAt, Looping
  <2>2. ASSUME NEW g \in started PROVE OrderAt(r, g)'
    <3>1. OrderAt(r, g) /\ g \in Flushes /\ g \notin before[g] \cup earlier[g]
      BY <1>0, <2>2, KindsAssumption DEF OrderInv, TypeOK
    <3>2. f \notin before[g] \cup earlier[g]
      BY <1>0, <1>1, <1>4, <3>1 DEF OrderInv, TypeOK
    <3>3. AllAhead(before[g] \cup earlier[g], g, tasks'[r])
      BY SMTT(20), Z3T(20), SMTT(30), <1>2, <3>1, <3>2, AllAheadAppend DEF OrderAt
    <3>4. g # f => pushed'[g] = pushed[g]
      BY <1>2, <3>1
    <3> QED BY <1>3, <1>10, <1>u, <3>1, <3>2, <3>3, <3>4 DEF OrderAt, Looping
  <2>3. ASSUME NEW p \in Procs PROVE BatchSeen(p)'
    BY <1>0, <1>u, <2>3 DEF OrderInv, BatchSeen, Looping
  <2>4. issued \subseteq issued'
    BY <1>u
  <2> QED BY <1>0, <1>u, <2>1, <2>2, <2>3, <2>4 DEF OrderInv
<1> QED BY <1>0, <1>7, <1>8, <1>9, <1>11, <1>12, <1>u, HandsFrame, ExecFrame DEF SafeInv

-----------------------------------------------------------------------------
(* The processor threads. *)

\* The processor took t off its queue: t has a place nowhere else, and every
\* barrier that went by the processor is one that does not wait for it.
Taken(p, t) ==
  /\ tasks'[p] = Tail(tasks[p]) /\ \A r \in Procs \ {p} : tasks'[r] = tasks[r]
  /\ t \in Elems(tasks[p]) /\ Elems(tasks'[p]) = Elems(tasks[p]) \ {t}
  /\ Once(Tuples, tasks'[p]) /\ Once(Flushes, tasks'[p])
  /\ t \in assigned /\ t \notin stored \cup batch[p] \cup saving[p]
  /\ ProcOf[CellOf[t]] = p /\ t \notin Flushes
  /\ \A f \in started :
       /\ AllAhead(before[f] \cup earlier[f], f, tasks'[p])
       /\ p <= pushed[f] /\ f \notin Elems(tasks[p]) => t \notin before[f]

\* do_process finds the tuple it takes in the place the invariant gives it.
LEMMA TakeTupleFacts ==
  ASSUME IInv, NEW p \in Procs, NEW t \in Tuples, TakeTuple(p, t)
  PROVE  Taken(p, t)
<1>0. TypeOK /\ PlacesAt(p) /\ TravelAt(p) /\ \A f \in started : OrderAt(p, f)
  BY DEF IInv, SafeInv, PlacesInv, TravelInv, OrderInv
<1>1. /\ tasks[p] # <<>> /\ t = Head(tasks[p]) /\ tasks[p] \in Seq(Tuples \cup Flushes)
      /\ tasks'[p] = Tail(tasks[p]) /\ \A r \in Procs \ {p} : tasks'[r] = tasks[r]
  BY ZenonT(20), <1>0 DEF TakeTuple, TypeOK
<1>2. Elems(tasks[p]) = {t} \cup Elems(tasks'[p])
  BY <1>1, ElemsTail
<1>a. Once(Tuples, tasks[p]) /\ Once(Flushes, tasks[p])
  BY <1>0 DEF PlacesAt, TravelAt
<1>3. Once(Tuples, tasks'[p]) /\ t \notin Elems(tasks'[p])
  BY <1>a, <1>1, OnceTail
<1>4. Once(Flushes, tasks'[p])
  BY <1>a, <1>1, OnceTail
<1>5. ASSUME NEW f \in started
      PROVE  /\ AllAhead(before[f] \cup earlier[f], f, tasks'[p])
             /\ p <= pushed[f] /\ f \notin Elems(tasks[p]) => t \notin before[f]
  <2>1. OrderAt(p, f)
    BY <1>0, <1>5
  <2>2. AllAhead(before[f] \cup earlier[f], f, tasks[p])
    BY <2>1 DEF OrderAt
  <2>3. AllAhead(before[f] \cup earlier[f], f, tasks'[p])
    BY SMTT(20), Z3T(20), SMTT(30), <1>1, <2>2, AllAheadTail
  <2> QED BY <1>2, <2>1, <2>3 DEF OrderAt
<1>6. t \in assigned /\ t \notin stored \cup batch[p] \cup saving[p] /\ ProcOf[CellOf[t]] = p
  BY <1>0, <1>2 DEF PlacesAt, Kept
<1>7. t \notin Flushes
  BY KindsAssumption
<1> QED BY <1>1, <1>2, <1>3, <1>4, <1>5, <1>6, <1>7 DEF Taken

\* Taking a tuple moves no barrier.
LEMMA TakeTupleLeft ==
  ASSUME IInv, NEW p \in Procs, NEW t \in Tuples, TakeTuple(p, t), UNCHANGED pushed,
         \A r \in Procs : \A f \in Flushes : f \in Elems(flushq'[r]) <=> f \in Elems(flushq[r])
  PROVE  \A f \in Flushes : Left(f)' = Left(f)
<1> SUFFICES ASSUME NEW f \in Flushes PROVE Left(f)' = Left(f)
  OBVIOUS
<1>1. \A r \in Procs : f \in Elems(tasks'[r]) <=> f \in Elems(tasks[r])
  BY SMTT(20), Z3T(20), SMTT(30), TakeTupleFacts DEF Taken
<1> QED BY <1>1, LeftFrame

\* do_process puts the tuple in the batch; a batch that was empty gets its check.
LEMMA DoProcessStep ==
  ASSUME IInv, NEW p \in Procs, NEW t \in Tuples, NEW T \in SUBSET subscribers,
         DoProcess(p, t, T)
  PROVE  SafeInv'
<1>0. TypeOK /\ HandsInv /\ PlacesInv /\ RequestInv /\ TravelInv /\ CountInv /\ OrderInv /\ ExecInv
  BY DEF IInv, SafeInv
<1>1. TakeTuple(p, t)
  BY DEF DoProcess
<1>t. Taken(p, t)
  BY <1>1, TakeTupleFacts
<1>2. /\ batch'[p] = batch[p] \cup {t} /\ \A r \in Procs \ {p} : batch'[r] = batch[r]
      /\ \A r \in Procs \ {p} : flushq'[r] = flushq[r]
      /\ batch[p] # {} => flushq'[p] = flushq[p]
      /\ batch[p] = {} => flushq'[p] = Append(flushq[p], Check)
      /\ flushq[p] \in Seq(Flushes \cup {Check})
  BY <1>0 DEF DoProcess, TypeOK
<1>3. /\ Check \notin Flushes
      /\ batch[p] # {} => Elems(flushq'[p]) = Elems(flushq[p])
      /\ batch[p] = {} => Elems(flushq'[p]) = Elems(flushq[p]) \cup {Check}
  BY ZenonT(20), <1>2, ElemsAppend, KindsAssumption
<1>4. UNCHANGED <<chainVars, flushPc, saving, answering, infoVars, execq, assigned, stored,
                  askedVars, called>>
  BY DEF DoProcess
<1>5. PlacesInv'
  <2>1. \A r \in Procs : Kept(r)' = Kept(r)
    BY SMTT(20), Z3T(20), SMTT(30), <1>2, <1>4, <1>t DEF Taken, Kept
  <2>2. ASSUME NEW r \in Procs, r # p PROVE PlacesAt(r)'
    BY <1>0, <1>2, <1>4, <1>t, <2>2, PlacesAtFrame DEF Taken, PlacesInv
  <2>3. PlacesAt(p)'
    <3>1. PlacesAt(p)
      BY <1>0 DEF PlacesInv
    <3> QED BY SMTT(20), Z3T(20), SMTT(30), <1>2, <1>4, <1>t, <2>1, <3>1 DEF Taken, PlacesAt
  <2> QED BY <1>0, <1>4, <2>1, <2>2, <2>3 DEF PlacesInv
<1>6. TravelInv'
  <2>1. ASSUME NEW r \in Procs, r # p PROVE TravelAt(r)'
    BY <1>0, <1>2, <1>4, <1>t, <2>1, TravelAtFrame DEF Taken, TravelInv
  <2>2. TravelAt(p)'
    <3>1. TravelAt(p)
      BY <1>0 DEF TravelInv
    <3>2. Once(Flushes, flushq'[p])
      <4>1. CASE batch[p] # {}
        BY <1>2, <3>1, <4>1 DEF TravelAt
      <4>2. CASE batch[p] = {}
        <5>1. Once(Flushes, flushq[p]) /\ (Check \in Flushes => Check \notin Elems(flushq[p]))
          BY <1>3, <3>1 DEF TravelAt
        <5>2. Once(Flushes, Append(flushq[p], Check))
          BY <1>2, <5>1, OnceAppend
        <5> QED BY ZenonT(20), <1>2, <4>2, <5>2
      <4> QED BY <4>1, <4>2
    <3>3. \A f \in Flushes : f \in Elems(flushq'[p]) <=> f \in Elems(flushq[p])
      BY <1>3
    <3> QED BY <1>4, <1>t, <3>1, <3>2, <3>3 DEF Taken, TravelAt
  <2> QED BY <2>1, <2>2 DEF TravelInv
<1>7. \A f \in Flushes : Left(f)' = Left(f)
  BY <1>1, <1>2, <1>3, <1>4, TakeTupleLeft
<1>8. CountInv'
  BY <1>0, <1>4, <1>7, CountFrame DEF TypeOK
<1>9. OrderInv'
  <2>1. ASSUME NEW r \in Procs, r # p, NEW f \in started PROVE OrderAt(r, f)'
    <3>1. /\ tasks'[r] = tasks[r] /\ batch'[r] = batch[r] /\ flushq'[r] = flushq[r] /\ saving'[r] = saving[r]
          /\ answering'[r] = answering[r] /\ flushPc'[r] = flushPc[r]
      BY <1>2, <1>4, <1>t, <2>1 DEF Taken
    <3>2. f \in Flushes /\ OrderAt(r, f)
      BY <1>0 DEF OrderInv, TypeOK
    <3> QED BY <1>4, <3>1, <3>2, OrderAtFrame DEF Looping
  <2>2. ASSUME NEW f \in started PROVE OrderAt(p, f)'
    <3>1. OrderAt(p, f) /\ f \in Flushes /\ earlier[f] \subseteq Flushes /\ f \notin earlier[f]
      BY <1>0, <2>2 DEF OrderInv, TypeOK
    <3>2. f \in Elems(flushq[p]) => p <= pushed[f] /\ f \notin Elems(tasks[p])
      BY <1>0, <3>1 DEF TravelInv, TravelAt
    <3>3. AllAhead(earlier[f], f, flushq'[p])
      <4>1. AllAhead(earlier[f], f, flushq[p]) /\ Check \notin earlier[f]
        BY <1>3, <3>1 DEF OrderAt
      <4>2. AllAhead(earlier[f], f, Append(flushq[p], Check))
        BY <1>2, <3>1, <4>1, AllAheadAppend
      <4> QED BY ZenonT(40), <1>2, <4>1, <4>2
    <3>4. f \in Elems(flushq'[p]) /\ batch'[p] \cap before[f] # {} => flushq'[p] = flushq[p]
                                                                    /\ batch[p] \cap before[f] # {}
      <4>1. f \in Elems(flushq'[p]) <=> f \in Elems(flushq[p])
        BY <1>3, <3>1
      <4>2. f \in Elems(flushq[p]) => t \notin before[f]
        BY ZenonT(20), <1>t, <2>2, <3>2 DEF Taken
      <4> QED BY <1>2, <4>1, <4>2
    <3>5. p \notin Left(f) => t \notin before[f]
      BY ZenonT(20), <1>0, <1>t, <2>2, <3>1, PassedFacts DEF Taken
    <3>6. Elems(flushq'[p]) \cap earlier[f] = Elems(flushq[p]) \cap earlier[f]
      BY <1>3, <3>1
    <3>7. /\ AllAhead(before[f] \cup earlier[f], f, tasks'[p])
          /\ Elems(tasks'[p]) \subseteq Elems(tasks[p])
          /\ f \in Elems(tasks[p]) <=> f \in Elems(tasks'[p])
      BY <1>t, <2>2, <3>1 DEF Taken
    <3> QED BY <1>2, <1>4, <1>7, <3>1, <3>3, <3>4, <3>5, <3>6, <3>7 DEF OrderAt, Looping
  <2>3. ASSUME NEW r \in Procs PROVE BatchSeen(r)'
    BY <1>0, <1>2, <1>3, <1>4, <2>3 DEF OrderInv, BatchSeen, Looping
  <2> QED BY <1>0, <1>4, <2>1, <2>2, <2>3 DEF OrderInv
<1> QED
  BY <1>0, <1>4, <1>5, <1>6, <1>8, <1>9, HandsFrame, RequestFrame, ExecFrame DEF SafeInv

\* do_process with SEND_NO_BATCH stores the tuple and calls back at once.
LEMMA DoProcessNoBatchStep ==
  ASSUME IInv, NEW p \in Procs, NEW t \in Tuples, NEW T \in SUBSET subscribers,
         DoProcessNoBatch(p, t, T)
  PROVE  SafeInv'
<1>0. TypeOK /\ HandsInv /\ PlacesInv /\ RequestInv /\ TravelInv /\ CountInv /\ OrderInv /\ ExecInv
  BY DEF IInv, SafeInv
<1>1. TakeTuple(p, t)
  BY DEF DoProcessNoBatch
<1>t. Taken(p, t)
  BY <1>1, TakeTupleFacts
<1>2. /\ stored' = stored \cup {t}
      /\ UNCHANGED <<chainVars, batch, flushVars, infoVars, assigned, askedVars, called>>
  BY DEF DoProcessNoBatch
<1>3. PlacesInv'
  <2>1. ASSUME NEW r \in Procs, r # p PROVE PlacesAt(r)' /\ Kept(r)' = Kept(r)
    <3>1. PlacesAt(r) /\ t \notin Kept(r)
      BY <1>0, <1>t, <2>1 DEF Taken, PlacesInv, PlacesAt
    <3>2. tasks'[r] = tasks[r]
      BY <1>t, <2>1 DEF Taken
    <3> QED BY ZenonT(20), <1>2, <3>1, <3>2 DEF PlacesAt, Kept
  <2>2. PlacesAt(p)' /\ Kept(p) \subseteq Kept(p)' \cup {t}
    <3>1. PlacesAt(p)
      BY <1>0 DEF PlacesInv
    <3>2. Kept(p)' \subseteq Kept(p) /\ Kept(p) \subseteq Kept(p)' \cup {t}
      BY <1>2, <1>t DEF Taken, Kept
    <3> QED BY SMTT(20), Z3T(20), SMTT(30), <1>2, <1>t, <3>1, <3>2 DEF Taken, PlacesAt
  <2>3. stored' \subseteq assigned'
    BY <1>0, <1>2, <1>t DEF Taken, PlacesInv
  <2> QED BY SMTT(20), Z3T(20), SMTT(30), <1>0, <1>2, <2>1, <2>2, <2>3 DEF PlacesInv
<1>4. TravelInv'
  <2>1. ASSUME NEW r \in Procs, r # p PROVE TravelAt(r)'
    BY <1>0, <1>2, <1>t, <2>1, TravelAtFrame DEF Taken, TravelInv
  <2>2. TravelAt(p)'
    BY <1>0, <1>2, <1>t DEF Taken, TravelInv, TravelAt
  <2> QED BY <2>1, <2>2 DEF TravelInv
<1>5. \A f \in Flushes : Left(f)' = Left(f)
  BY <1>1, <1>2, TakeTupleLeft
<1>6. CountInv'
  BY ZenonT(40), <1>0, <1>2, <1>5, CountFrame DEF TypeOK
<1>7. OrderInv'
  <2>1. ASSUME NEW r \in Procs, r # p, NEW f \in started PROVE OrderAt(r, f)'
    BY <1>0, <1>2, <1>t, <2>1, OrderAtFrame DEF Taken, OrderInv, Looping
  <2>2. ASSUME NEW f \in started PROVE OrderAt(p, f)'
    <3>1. OrderAt(p, f) /\ f \in Flushes
      BY <1>0, <2>2 DEF OrderInv, TypeOK
    <3>2. /\ AllAhead(before[f] \cup earlier[f], f, tasks'[p])
          /\ Elems(tasks'[p]) \subseteq Elems(tasks[p])
          /\ f \in Elems(tasks[p]) <=> f \in Elems(tasks'[p])
      BY <1>t, <2>2, <3>1 DEF Taken
    <3> QED BY <1>2, <1>5, <3>1, <3>2 DEF OrderAt, Looping
  <2>3. ASSUME NEW r \in Procs PROVE BatchSeen(r)'
    BY <1>0, <1>2, <2>3 DEF OrderInv, BatchSeen, Looping
  <2> QED BY <1>0, <1>2, <2>1, <2>2, <2>3 DEF OrderInv
<1>8. ExecInv'
  <2>1. ASSUME NEW f \in called PROVE t \notin before[f]
    <3>1. f \in Flushes /\ f \in started /\ p \notin Left(f)
      BY <1>0, <2>1, AnsweredPassed DEF TypeOK
    <3> QED BY ZenonT(20), <1>0, <1>t, <3>1, PassedFacts DEF Taken
  <2>2. SaveCallback({t}, T) /\ UNCHANGED <<called, before>>
    BY DEF DoProcessNoBatch
  <2> QED BY SMTT(20), Z3T(20), SMTT(30), <1>0, <2>1, <2>2, SaveCallbackExec
<1> QED BY <1>0, <1>2, <1>3, <1>4, <1>6, <1>7, <1>8, HandsFrame, RequestFrame DEF SafeInv

\* barrier_to_flushqueue: what had to be ahead of f in process_tasks is gone
\* from there, and a batch that is not empty has its check ahead of f.
LEMMA PassBarrierStep ==
  ASSUME IInv, NEW p \in Procs, PassBarrier(p)
  PROVE  SafeInv'
<1>0. TypeOK /\ HandsInv /\ PlacesInv /\ RequestInv /\ TravelInv /\ CountInv /\ OrderInv /\ ExecInv
  BY DEF IInv, SafeInv
<1>a. PICK f \in Flushes : f = Head(tasks[p])
  BY DEF PassBarrier
<1>1. /\ tasks[p] # <<>> /\ tasks[p] \in Seq(Tuples \cup Flushes)
      /\ tasks'[p] = Tail(tasks[p]) /\ \A r \in Procs \ {p} : tasks'[r] = tasks[r]
      /\ flushq'[p] = Append(flushq[p], f) /\ \A r \in Procs \ {p} : flushq'[r] = flushq[r]
      /\ flushq[p] \in Seq(Flushes \cup {Check})
      /\ UNCHANGED <<chainVars, batch, flushPc, saving, answering, infoVars, execq, assigned,
                     stored, askedVars, called>>
  BY <1>0, <1>a DEF PassBarrier, TypeOK
<1>q. /\ tasks[p] # <<>> /\ tasks[p] \in Seq(Tuples \cup Flushes) /\ tasks'[p] = Tail(tasks[p])
      /\ flushq'[p] = Append(flushq[p], f) /\ flushq[p] \in Seq(Flushes \cup {Check})
  BY <1>1
<1>2. Elems(tasks[p]) = {f} \cup Elems(tasks'[p])
  BY <1>a, <1>q, ElemsTail
<1>3. Elems(flushq'[p]) = Elems(flushq[p]) \cup {f}
  BY ZenonT(20), <1>q, ElemsAppend
<1>4. f \notin Elems(tasks'[p]) /\ Once(Flushes, tasks'[p]) /\ Once(Tuples, tasks'[p])
  <2>1. Once(Flushes, tasks[p]) /\ Once(Tuples, tasks[p])
    BY <1>0 DEF TravelInv, TravelAt, PlacesInv, PlacesAt
  <2> QED BY <1>a, <1>q, <2>1, OnceTail
<1>5. f \notin Tuples /\ f # Check /\ f \in started /\ p <= pushed[f] /\ f \notin Elems(flushq[p])
  BY <1>0, <1>2, KindsAssumption DEF TravelInv, TravelAt
<1>6. PlacesInv'
  <2>1. \A r \in Procs : Kept(r)' \cap Tuples = Kept(r) \cap Tuples
    BY <1>1, <1>2, <1>5 DEF Kept
  <2>2. ASSUME NEW r \in Procs, r # p PROVE PlacesAt(r)'
    BY <1>0, <1>1, <2>2, PlacesAtFrame DEF PlacesInv
  <2>3. PlacesAt(p)'
    <3>1. PlacesAt(p)
      BY <1>0 DEF PlacesInv
    <3> QED BY ZenonT(40), <1>1, <1>2, <1>4, <2>1, <3>1 DEF PlacesAt
  <2> QED BY ZenonT(40), <1>0, <1>1, <2>1, <2>2, <2>3 DEF PlacesInv, TypeOK
<1>7. TravelInv'
  <2>1. ASSUME NEW r \in Procs, r # p PROVE TravelAt(r)'
    BY <1>0, <1>1, <2>1, TravelAtFrame DEF TravelInv
  <2>2. TravelAt(p)'
    <3>1. TravelAt(p)
      BY <1>0 DEF TravelInv
    <3>2. Once(Flushes, flushq'[p])
      <4>1. Once(Flushes, flushq[p])
        BY <3>1 DEF TravelAt
      <4> QED BY <1>q, <1>5, <4>1, OnceAppend
    <3> QED BY <1>1, <1>2, <1>3, <1>4, <1>5, <3>1, <3>2 DEF TravelAt
  <2> QED BY <2>1, <2>2 DEF TravelInv
<1>8. \A g \in Flushes : Left(g)' = Left(g)
  BY ZenonT(20), <1>1, <1>2, <1>3, LeftFrame
<1>9. CountInv'
  BY <1>0, <1>1, <1>8, CountFrame DEF TypeOK
<1>10. OrderInv'
  <2>1. ASSUME NEW r \in Procs, r # p, NEW g \in started PROVE OrderAt(r, g)'
    BY <1>0, <1>1, <2>1, OrderAtFrame DEF OrderInv, Looping
  <2>2. ASSUME NEW g \in started PROVE OrderAt(p, g)'
    <3>1. OrderAt(p, g) /\ g \in Flushes /\ g \notin earlier[g]
      BY <1>0, <2>2 DEF OrderInv, TypeOK
    <3>a. AllAhead(before[g] \cup earlier[g], g, tasks[p]) /\ AllAhead(earlier[g], g, flushq[p])
      BY <3>1 DEF OrderAt
    <3>2. AllAhead(before[g] \cup earlier[g], g, tasks'[p])
      BY SMTT(20), Z3T(20), SMTT(30), <1>q, <3>a, AllAheadTail
    <3>3. g = f => Elems(tasks[p]) \cap (before[g] \cup earlier[g]) = {}
      BY ZenonT(20), <1>a, <1>q, <3>a, AllAheadTail
    <3>4. g \notin Elems(tasks'[p]) /\ p <= pushed[g] =>
            Elems(tasks'[p]) \cap (before[g] \cup earlier[g]) = {}
      BY <1>2, <3>1, <3>3 DEF OrderAt
    <3>5. f \in earlier[g] => g \notin Elems(flushq[p]) /\ p \in Left(g)
      <4>1. ASSUME f \in earlier[g], g \in Elems(flushq[p]) PROVE FALSE
        BY <1>0, <1>2, <3>1, <4>1 DEF TravelInv, TravelAt, OrderAt
      <4>2. ASSUME f \in earlier[g], p \notin Left(g) PROVE FALSE
        BY <1>0, <1>2, <3>1, <4>2, PassedFacts DEF OrderAt
      <4> QED BY <4>1, <4>2
    <3>6. AllAhead(earlier[g], g, flushq'[p])
      BY <1>q, <3>1, <3>a, <3>5, AllAheadAppend
    <3>7. g \in Elems(flushq'[p]) /\ batch[p] \cap before[g] # {} =>
            Looping(p) \/ SomeAhead(Check, g, flushq'[p])
      <4> SUFFICES ASSUME batch[p] \cap before[g] # {}, ~Looping(p), g \in Elems(flushq'[p])
                   PROVE  SomeAhead(Check, g, flushq'[p])
        OBVIOUS
      <4>1. Check \in Elems(flushq[p])
        BY <1>0 DEF OrderInv, BatchSeen
      <4>2. SomeAhead(Check, g, flushq[p])
        BY <3>1 DEF OrderAt, SomeAhead, Elems
      <4> QED BY <1>q, <4>1, <4>2, SomeAheadAppend
    <3>8. p \notin Left(g) => Elems(flushq'[p]) \cap earlier[g] = {}
      BY <1>3, <3>1, <3>5 DEF OrderAt
    <3> QED BY ZenonT(20), <1>1, <1>8, <3>1, <3>2, <3>4, <3>6, <3>7, <3>8 DEF OrderAt, Looping
  <2>3. ASSUME NEW r \in Procs PROVE BatchSeen(r)'
    BY ZenonT(20), <1>0, <1>1, <1>3, <2>3 DEF OrderInv, BatchSeen, Looping
  <2> QED BY <1>0, <1>1, <2>1, <2>2, <2>3 DEF OrderInv
<1> QED
  BY <1>0, <1>1, <1>6, <1>7, <1>9, <1>10, HandsFrame, RequestFrame, ExecFrame DEF SafeInv

-----------------------------------------------------------------------------
(* The flush threads saving a batch. *)

\* do_check_flush begins: the check leaves the queue and the loop is entered.
LEMMA StartCheckStep ==
  ASSUME IInv, NEW p \in Procs, StartCheck(p)
  PROVE  SafeInv'
<1>0. TypeOK /\ HandsInv /\ PlacesInv /\ RequestInv /\ TravelInv /\ CountInv /\ OrderInv /\ ExecInv
  BY DEF IInv, SafeInv
<1>1. /\ flushq[p] # <<>> /\ Head(flushq[p]) = Check /\ flushq[p] \in Seq(Flushes \cup {Check})
      /\ flushq'[p] = Tail(flushq[p]) /\ \A r \in Procs \ {p} : flushq'[r] = flushq[r]
      /\ flushPc[p] = "idle" /\ flushPc'[p] = "check"
      /\ \A r \in Procs \ {p} : flushPc'[r] = flushPc[r]
      /\ UNCHANGED <<chainVars, procVars, saving, answering, infoVars, execq, assigned, stored,
                     askedVars, called>>
  BY <1>0 DEF StartCheck, TypeOK
<1>2. Elems(flushq[p]) = {Check} \cup Elems(flushq'[p]) /\ Check \notin Flushes
  BY Z3T(20), SMTT(20), Z3T(30), <1>1, ElemsTail, KindsAssumption
<1>3. PlacesInv'
  <2>1. ASSUME NEW r \in Procs, r # p PROVE PlacesAt(r)'
    BY <1>0, <1>1, <2>1, PlacesAtFrame DEF PlacesInv
  <2>2. PlacesAt(p)' /\ \A r \in Procs : Kept(r)' = Kept(r)
    BY ZenonT(20), <1>0, <1>1 DEF PlacesInv, PlacesAt, Kept
  <2> QED BY ZenonT(40), <1>0, <1>1, <2>1, <2>2 DEF PlacesInv
<1>4. TravelInv'
  <2>1. ASSUME NEW r \in Procs, r # p PROVE TravelAt(r)'
    BY <1>0, <1>1, <2>1, TravelAtFrame DEF TravelInv
  <2>2. TravelAt(p)'
    <3>1. TravelAt(p) /\ Once(Flushes, flushq'[p])
      BY ZenonT(20), <1>0, <1>1, OnceTail DEF TravelInv, TravelAt
    <3> QED BY <1>1, <1>2, <3>1 DEF TravelAt
  <2> QED BY <2>1, <2>2 DEF TravelInv
<1>5. \A f \in Flushes : Left(f)' = Left(f)
  BY <1>1, <1>2, LeftFrame
<1>6. CountInv'
  BY <1>0, <1>1, <1>5, CountFrame DEF TypeOK
<1>7. OrderInv'
  <2>1. ASSUME NEW r \in Procs, r # p, NEW f \in started PROVE OrderAt(r, f)'
    BY <1>0, <1>1, <2>1, OrderAtFrame DEF OrderInv, Looping
  <2>2. ASSUME NEW f \in started PROVE OrderAt(p, f)'
    <3>1. OrderAt(p, f) /\ f \in Flushes
      BY <1>0, <2>2 DEF OrderInv, TypeOK
    <3>2. AllAhead(earlier[f], f, flushq'[p])
      BY SMTT(20), Z3T(20), SMTT(30), <1>1, <3>1, AllAheadTail DEF OrderAt
    <3> QED BY <1>1, <1>2, <1>5, <3>1, <3>2 DEF OrderAt, Looping
  <2>3. ASSUME NEW r \in Procs PROVE BatchSeen(r)'
    BY <1>0, <1>1, <2>3 DEF OrderInv, BatchSeen, Looping
  <2> QED BY <1>0, <1>1, <2>1, <2>2, <2>3 DEF OrderInv
<1> QED
  BY ZenonT(20), <1>0, <1>1, <1>3, <1>4, <1>6, <1>7, HandsFrame, RequestFrame, ExecFrame DEF SafeInv

\* batch_flush moves the batch to tb, which keeps it in the same processor.
LEMMA BatchFlushStep ==
  ASSUME IInv, NEW p \in Procs, BatchFlush(p)
  PROVE  SafeInv'
<1>0. TypeOK /\ HandsInv /\ PlacesInv /\ RequestInv /\ TravelInv /\ CountInv /\ OrderInv /\ ExecInv
  BY DEF IInv, SafeInv
<1>1. /\ flushPc[p] = "check" /\ flushPc'[p] = "save" /\ batch[p] # {}
      /\ saving'[p] = batch[p] /\ batch'[p] = {}
      /\ \A r \in Procs \ {p} : flushPc'[r] = flushPc[r] /\ saving'[r] = saving[r]
                                /\ batch'[r] = batch[r]
      /\ UNCHANGED <<chainVars, tasks, flushq, answering, infoVars, execq, assigned, stored,
                     askedVars, called>>
  BY ZenonT(20), <1>0 DEF BatchFlush, TypeOK
<1>2. PlacesInv'
  <2>1. ASSUME NEW r \in Procs, r # p PROVE PlacesAt(r)' /\ Kept(r)' = Kept(r)
    BY <1>0, <1>1, <2>1, PlacesAtFrame DEF PlacesInv, Kept
  <2>2. PlacesAt(p) /\ saving[p] = {}
    BY <1>0, <1>1 DEF PlacesInv, PlacesAt
  <2>3. Kept(p)' = Kept(p)
    BY <1>1, <2>2 DEF Kept
  <2>4. PlacesAt(p)'
    BY <1>1, <2>2, <2>3 DEF PlacesAt
  <2> QED BY <1>0, <1>1, <2>1, <2>3, <2>4 DEF PlacesInv
<1>3. \A f \in Flushes : Left(f)' = Left(f)
  BY <1>1 DEF Left
<1>4. CountInv'
  BY <1>0, <1>1, <1>3, CountFrame DEF TypeOK
<1>5. OrderInv'
  <2>1. ASSUME NEW r \in Procs, r # p, NEW f \in started PROVE OrderAt(r, f)'
    BY <1>0, <1>1, <2>1, OrderAtFrame DEF OrderInv, Looping
  <2>2. ASSUME NEW f \in started PROVE OrderAt(p, f)'
    <3>1. OrderAt(p, f) /\ f \in Flushes
      BY <1>0, <2>2 DEF OrderInv, TypeOK
    <3> QED BY <1>1, <1>3, <3>1 DEF OrderAt, Looping
  <2>3. ASSUME NEW r \in Procs PROVE BatchSeen(r)'
    BY <1>0, <1>1, <2>3 DEF OrderInv, BatchSeen, Looping
  <2> QED BY <1>0, <1>1, <2>1, <2>2, <2>3 DEF OrderInv
<1> QED
  BY <1>0, <1>1, <1>2, <1>4, <1>5, HandsFrame, RequestFrame, TravelFrame, ExecFrame DEF SafeInv

\* do_check_flush leaves its loop with an empty batch.
LEMMA CheckDoneStep ==
  ASSUME IInv, NEW p \in Procs, CheckDone(p)
  PROVE  SafeInv'
<1>0. TypeOK /\ HandsInv /\ PlacesInv /\ RequestInv /\ TravelInv /\ CountInv /\ OrderInv /\ ExecInv
  BY DEF IInv, SafeInv
<1>1. /\ flushPc[p] = "check" /\ flushPc'[p] = "idle" /\ batch[p] = {}
      /\ \A r \in Procs \ {p} : flushPc'[r] = flushPc[r]
      /\ UNCHANGED <<chainVars, procVars, flushq, saving, answering, infoVars, execq, assigned,
                     stored, askedVars, called>>
  BY <1>0 DEF CheckDone, TypeOK
<1>2. PlacesInv'
  BY ZenonT(20), <1>0, <1>1 DEF PlacesInv, PlacesAt, Kept
<1>3. \A f \in Flushes : Left(f)' = Left(f)
  BY <1>1 DEF Left
<1>4. CountInv'
  BY <1>0, <1>1, <1>3, CountFrame DEF TypeOK
<1>5. OrderInv'
  <2>1. ASSUME NEW r \in Procs, r # p, NEW f \in started PROVE OrderAt(r, f)'
    BY <1>0, <1>1, <2>1, OrderAtFrame DEF OrderInv, Looping
  <2>2. ASSUME NEW f \in started PROVE OrderAt(p, f)'
    <3>1. OrderAt(p, f) /\ f \in Flushes
      BY <1>0, <2>2 DEF OrderInv, TypeOK
    <3> QED BY <1>1, <1>3, <3>1 DEF OrderAt
  <2>3. ASSUME NEW r \in Procs PROVE BatchSeen(r)'
    BY <1>0, <1>1, <2>3 DEF OrderInv, BatchSeen, Looping
  <2> QED BY <1>0, <1>1, <2>1, <2>2, <2>3 DEF OrderInv
<1> QED
  BY ZenonT(20), <1>0, <1>1, <1>2, <1>4, <1>5, HandsFrame, RequestFrame, TravelFrame, ExecFrame DEF SafeInv

\* save_tuple_batch stores tuples that no other processor has.
LEMMA SaveBatchStep ==
  ASSUME IInv, NEW p \in Procs, SaveBatch(p)
  PROVE  SafeInv'
<1>0. TypeOK /\ HandsInv /\ PlacesInv /\ RequestInv /\ TravelInv /\ CountInv /\ OrderInv /\ ExecInv
  BY DEF IInv, SafeInv
<1>1. /\ flushPc[p] = "save" /\ flushPc'[p] = "notify" /\ stored' = stored \cup saving[p]
      /\ \A r \in Procs \ {p} : flushPc'[r] = flushPc[r]
      /\ UNCHANGED <<chainVars, procVars, flushq, saving, answering, infoVars, execq, assigned,
                     askedVars, called>>
  BY <1>0 DEF SaveBatch, TypeOK
<1>2. PlacesInv'
  <2>1. saving[p] \subseteq Tuples /\ saving[p] \subseteq Kept(p)
    BY <1>0 DEF Kept, TypeOK
  <2>2. ASSUME NEW r \in Procs, r # p PROVE PlacesAt(r)'
    <3>1. PlacesAt(r) /\ Kept(r) \cap saving[p] = {}
      BY SMTT(20), Z3T(20), SMTT(30), <1>0, <2>1, <2>2 DEF PlacesInv, PlacesAt
    <3> QED BY <1>1, <2>2, <3>1 DEF PlacesAt, Kept
  <2>3. PlacesAt(p)'
    <3>1. PlacesAt(p)
      BY <1>0 DEF PlacesInv
    <3> QED BY <1>1, <3>1 DEF PlacesAt, Kept
  <2>4. \A r \in Procs : Kept(r)' = Kept(r)
    BY <1>1 DEF Kept
  <2>5. saving[p] \subseteq assigned
    BY <1>0, <2>1 DEF PlacesInv, PlacesAt
  <2>6. \A r \in Procs : PlacesAt(r)'
    BY <2>2, <2>3
  <2> QED BY SMTT(20), Z3T(20), SMTT(30), <1>0, <1>1, <2>4, <2>5, <2>6 DEF PlacesInv
<1>3. \A f \in Flushes : Left(f)' = Left(f)
  BY <1>1 DEF Left
<1>4. CountInv'
  BY <1>0, <1>1, <1>3, CountFrame DEF TypeOK
<1>5. OrderInv'
  <2>1. ASSUME NEW r \in Procs, NEW f \in started PROVE OrderAt(r, f)'
    BY SMTT(20), Z3T(20), SMTT(30), <1>0, <1>1, <2>1, OrderAtFrame DEF OrderInv, Looping
  <2>2. ASSUME NEW r \in Procs PROVE BatchSeen(r)'
    BY <1>0, <1>1, <2>2 DEF OrderInv, BatchSeen, Looping
  <2> QED BY <1>0, <1>1, <2>1, <2>2 DEF OrderInv
<1> QED
  BY ZenonT(20), <1>0, <1>1, <1>2, <1>4, <1>5, HandsFrame, RequestFrame, TravelFrame, ExecFrame DEF SafeInv

\* save_callback for one entry of tb: its tuples are stored, and a flush that
\* waited for them has not been answered.
LEMMA NotifyStep ==
  ASSUME IInv, NEW p \in Procs, NEW k \in Cells, Notify(p, k)
  PROVE  SafeInv'
<1>0. TypeOK /\ HandsInv /\ PlacesInv /\ RequestInv /\ TravelInv /\ CountInv /\ OrderInv /\ ExecInv
  BY DEF IInv, SafeInv
<1>a. PICK S : S = {t \in saving[p] : CellOf[t] = k}
  BY ZenonT(20)
<1>1. /\ flushPc[p] = "notify" /\ SaveCallback(S, savingTo[p][k])
      /\ saving'[p] = saving[p] \ S /\ \A r \in Procs \ {p} : saving'[r] = saving[r]
      /\ UNCHANGED <<chainVars, procVars, flushq, flushPc, answering, infoVars, assigned,
                     stored, askedVars, called>>
  BY ZenonT(20), <1>0, <1>a DEF Notify, TypeOK
<1>2. PlacesInv'
  <2>1. ASSUME NEW r \in Procs, r # p PROVE PlacesAt(r)' /\ Kept(r)' = Kept(r)
    BY <1>0, <1>1, <2>1, PlacesAtFrame DEF PlacesInv, Kept
  <2>2. PlacesAt(p) /\ S \subseteq stored
    BY <1>0, <1>a, <1>1 DEF PlacesInv, PlacesAt
  <2>3. Kept(p)' \subseteq Kept(p) /\ Kept(p) \subseteq Kept(p)' \cup stored
    BY <1>1, <2>2 DEF Kept
  <2>4. PlacesAt(p)'
    BY <1>1, <2>2, <2>3 DEF PlacesAt
  <2> QED BY <1>0, <1>1, <2>1, <2>3, <2>4 DEF PlacesInv
<1>3. \A f \in Flushes : Left(f)' = Left(f)
  BY <1>1 DEF Left
<1>4. CountInv'
  BY <1>0, <1>1, <1>3, CountFrame DEF TypeOK
<1>5. OrderInv'
  <2>1. ASSUME NEW r \in Procs, r # p, NEW f \in started PROVE OrderAt(r, f)'
    BY <1>0, <1>1, <2>1, OrderAtFrame DEF OrderInv, Looping
  <2>2. ASSUME NEW f \in started PROVE OrderAt(p, f)'
    <3>1. OrderAt(p, f) /\ f \in Flushes
      BY <1>0, <2>2 DEF OrderInv, TypeOK
    <3> QED BY <1>1, <1>3, <3>1 DEF OrderAt, Looping
  <2>3. ASSUME NEW r \in Procs PROVE BatchSeen(r)'
    BY <1>0, <1>1, <2>3 DEF OrderInv, BatchSeen, Looping
  <2> QED BY <1>0, <1>1, <2>1, <2>2, <2>3 DEF OrderInv
<1>6. ExecInv'
  <2>1. ASSUME NEW f \in called PROVE S \cap before[f] = {}
    <3>1. f \in Flushes /\ f \in started /\ p \notin Left(f)
      BY <1>0, <2>1, AnsweredPassed DEF TypeOK
    <3> QED BY ZenonT(20), <1>0, <1>a, <3>1 DEF OrderInv, OrderAt
  <2> QED BY <1>0, <1>1, <2>1, SaveCallbackExec
<1> QED
  BY <1>0, <1>1, <1>2, <1>4, <1>5, <1>6, HandsFrame, RequestFrame, TravelFrame DEF SafeInv

\* The end of batch_flush goes back to batcher_ready.
LEMMA ReportFlushedStep ==
  ASSUME IInv, NEW p \in Procs, ReportFlushed(p)
  PROVE  SafeInv'
<1>0. TypeOK /\ HandsInv /\ PlacesInv /\ RequestInv /\ TravelInv /\ CountInv /\ OrderInv /\ ExecInv
  BY DEF IInv, SafeInv
<1>1. /\ flushPc[p] = "notify" /\ flushPc'[p] = "check" /\ saving[p] = {}
      /\ \A r \in Procs \ {p} : flushPc'[r] = flushPc[r]
      /\ UNCHANGED <<chainVars, procVars, flushq, saving, answering, infoVars, execq, assigned,
                     stored, askedVars, called>>
  BY <1>0 DEF ReportFlushed, TypeOK
<1>2. PlacesInv'
  BY ZenonT(20), <1>0, <1>1 DEF PlacesInv, PlacesAt, Kept
<1>3. \A f \in Flushes : Left(f)' = Left(f)
  BY <1>1 DEF Left
<1>4. CountInv'
  BY <1>0, <1>1, <1>3, CountFrame DEF TypeOK
<1>5. OrderInv'
  <2>1. ASSUME NEW r \in Procs, NEW f \in started PROVE OrderAt(r, f)'
    BY SMTT(20), Z3T(20), SMTT(30), <1>0, <1>1, <2>1, OrderAtFrame DEF OrderInv, Looping
  <2>2. ASSUME NEW r \in Procs PROVE BatchSeen(r)'
    BY <1>0, <1>1, <2>2 DEF OrderInv, BatchSeen, Looping
  <2> QED BY <1>0, <1>1, <2>1, <2>2 DEF OrderInv
<1> QED
  BY <1>0, <1>1, <1>2, <1>4, <1>5, HandsFrame, RequestFrame, TravelFrame, ExecFrame DEF SafeInv

-----------------------------------------------------------------------------
(* Letting a barrier pass, answering the flush, running the callbacks. *)

\* do_barrier: the flush has passed one more processor; the thread that finds
\* the count at one sees every processor passed.
LEMMA DoBarrierStep ==
  ASSUME Counting, IInv, NEW p \in Procs, DoBarrier(p)
  PROVE  SafeInv'
<1>0. TypeOK /\ HandsInv /\ PlacesInv /\ RequestInv /\ TravelInv /\ CountInv /\ OrderInv /\ ExecInv
  BY DEF IInv, SafeInv
<1>a. PICK f \in Flushes : f = Head(flushq[p])
  BY DEF DoBarrier
<1>1. /\ flushq[p] # <<>> /\ flushq[p] \in Seq(Flushes \cup {Check}) /\ flushPc[p] = "idle"
      /\ flushq'[p] = Tail(flushq[p]) /\ \A r \in Procs \ {p} : flushq'[r] = flushq[r]
      /\ count'[f] = count[f] - 1 /\ \A g \in Flushes \ {f} : count'[g] = count[g]
      /\ \A r \in Procs \ {p} : flushPc'[r] = flushPc[r] /\ answering'[r] = answering[r]
      /\ UNCHANGED <<chainVars, procVars, saving, pushed, subsc, execq, assigned, stored,
                     askedVars, called>>
  BY ZenonT(20), <1>0, <1>a DEF DoBarrier, TypeOK
<1>q. flushq[p] # <<>> /\ flushq[p] \in Seq(Flushes \cup {Check}) /\ flushq'[p] = Tail(flushq[p])
  BY <1>1
<1>2. /\ count[f] = 1 => flushPc'[p] = "answer" /\ answering'[p] = f
      /\ count[f] # 1 => flushPc'[p] = "idle" /\ answering'[p] = answering[p]
  BY SMTT(20), Z3T(20), SMTT(30), <1>0, <1>a, <1>1 DEF DoBarrier, TypeOK
<1>3. Elems(flushq[p]) = {f} \cup Elems(flushq'[p]) /\ f \notin Elems(flushq'[p])
  <2>1. Once(Flushes, flushq[p])
    BY <1>0 DEF TravelInv, TravelAt
  <2> QED BY <1>a, <1>q, <2>1, ElemsTail, OnceTail
<1>4. /\ f \in started /\ p <= pushed[f] /\ f \notin Elems(tasks[p]) /\ f # Check /\ f # None
      /\ answering[p] = None /\ saving[p] = {} /\ None \notin Flushes
  BY ZenonT(20), <1>0, <1>1, <1>3, KindsAssumption
     DEF TravelInv, TravelAt, CountInv, PlacesInv, PlacesAt
<1>5. ASSUME NEW g \in Flushes, g # f PROVE Left(g)' = Left(g)
  BY <1>1, <1>3, <1>5, LeftFrame
<1>6. p \in Left(f) /\ Left(f)' = Left(f) \ {p}
  <2>1. pushed[f] \in Nat
    BY SMTT(20), Z3T(20), SMTT(30), <1>0, ProcsAssumption DEF TypeOK
  <2>2. ~(pushed[f] < p)
    BY <1>4, <2>1 DEF Procs
  <2> QED BY <1>1, <1>3, <1>4, <2>2 DEF Left
<1>7. PlacesInv'
  <2>1. ASSUME NEW r \in Procs, r # p PROVE PlacesAt(r)'
    BY <1>0, <1>1, <2>1, PlacesAtFrame DEF PlacesInv
  <2>2. \A r \in Procs : Kept(r)' = Kept(r)
    BY <1>1 DEF Kept
  <2>3. flushPc'[p] \notin {"save", "notify"}
    BY <1>2
  <2>4. PlacesAt(p)'
    <3>1. PlacesAt(p)
      BY <1>0 DEF PlacesInv
    <3> QED BY <1>1, <1>4, <2>2, <2>3, <3>1 DEF PlacesAt
  <2> QED BY <1>0, <1>1, <2>1, <2>2, <2>4 DEF PlacesInv
<1>8. TravelInv'
  <2>1. ASSUME NEW r \in Procs, r # p PROVE TravelAt(r)'
    BY <1>0, <1>1, <2>1, TravelAtFrame DEF TravelInv
  <2>2. TravelAt(p)'
    <3>1. TravelAt(p) /\ Once(Flushes, flushq'[p])
      <4>1. TravelAt(p) /\ Once(Flushes, flushq[p])
        BY <1>0 DEF TravelInv, TravelAt
      <4> QED BY <1>q, <4>1, OnceTail
    <3> QED BY <1>1, <1>3, <3>1 DEF TravelAt
  <2> QED BY <2>1, <2>2 DEF TravelInv
<1>9. CountInv'
  <2>1. /\ Left(f) \in SUBSET Procs /\ Left(f) \ {p} \in SUBSET Procs
        /\ Cardinality(Left(f)) \in Nat
    BY DEF Counting, Left
  <2>2. /\ count[f] = Cardinality(Left(f)) /\ Cardinality(Left(f)) \in Nat
        /\ Left(f) # {} /\ f \notin called /\ \A r \in Procs : answering[r] # f
    BY <1>0, <1>4, <1>6, <2>1 DEF CountInv
  <2>3. /\ Cardinality(Left(f) \ {p}) = Cardinality(Left(f)) - 1
        /\ Cardinality(Left(f) \ {p}) = 0 <=> Left(f) \ {p} = {}
    BY <1>6, <2>1 DEF Counting
  <2>4. count'[f] = Cardinality(Left(f)')
    BY <1>1, <1>6, <2>2, <2>3
  <2>5. Left(f)' = {} <=> count[f] = 1
    BY <1>6, <2>2, <2>3
  <2>6. Left(f)' = {} <=> f \in called' \/ \E r \in Procs : answering'[r] = f
    BY ZenonT(20), <1>1, <1>2, <2>2, <2>5
  <2>7. ASSUME NEW g \in started, g # f
        PROVE  /\ count'[g] = Cardinality(Left(g)')
               /\ Left(g)' = {} <=> g \in called' \/ \E r \in Procs : answering'[r] = g
    <3>1. g \in Flushes /\ Left(g)' = Left(g) /\ count'[g] = count[g] /\ g # None
      BY <1>0, <1>1, <1>4, <1>5, <2>7 DEF TypeOK
    <3>2. \A r \in Procs : answering'[r] = g <=> answering[r] = g
      BY ZenonT(20), <1>1, <1>2, <1>4, <2>7, <3>1
    <3> QED BY SMTT(20), Z3T(20), SMTT(30), <1>0, <1>1, <2>7, <3>1, <3>2 DEF CountInv
  <2>8. ASSUME NEW r \in Procs
        PROVE  /\ flushPc'[r] = "answer" <=> answering'[r] # None
               /\ answering'[r] # None => answering'[r] \in started \ called
    BY SMTT(20), Z3T(20), SMTT(30), <1>0, <1>1, <1>2, <1>4, <2>2, <2>8 DEF CountInv
  <2>9. ASSUME NEW r \in Procs, NEW u \in Procs, answering'[r] = answering'[u], answering'[r] # None
        PROVE  r = u
    BY SMTT(20), Z3T(20), SMTT(30), <1>0, <1>1, <1>2, <1>4, <2>2, <2>9 DEF CountInv
  <2> QED BY ZenonT(20), <1>0, <1>1, <2>4, <2>6, <2>7, <2>8, <2>9 DEF CountInv
<1>10. OrderInv'
  <2>1. ASSUME NEW r \in Procs, r # p, NEW g \in started PROVE OrderAt(r, g)'
    BY <1>0, <1>1, <2>1, OrderAtFrame DEF OrderInv, Looping
  <2>2. ASSUME NEW g \in started PROVE OrderAt(p, g)'
    <3>1. OrderAt(p, g) /\ g \in Flushes /\ g \notin earlier[g] /\ earlier[g] \subseteq Flushes
      BY <1>0, <2>2 DEF OrderInv, TypeOK
    <3>2. /\ AllAhead(earlier[g], g, flushq'[p])
          /\ g = f => Elems(flushq[p]) \cap earlier[g] = {}
      <4>1. AllAhead(earlier[g], g, flushq[p])
        BY <3>1 DEF OrderAt
      <4> QED BY SMTT(20), Z3T(20), SMTT(30), <1>a, <1>q, <4>1, AllAheadTail
    <3>3. SomeAhead(Check, g, flushq[p]) => g # f /\ SomeAhead(Check, g, flushq'[p])
      BY SMTT(20), Z3T(20), SMTT(30), <1>a, <1>q, <1>4, SomeAheadTail
    <3>4. ~Looping(p)
      BY <1>1 DEF Looping
    <3>5. g \in Elems(flushq'[p]) /\ batch[p] \cap before[g] # {} =>
            SomeAhead(Check, g, flushq'[p])
      BY <1>3, <3>1, <3>3, <3>4 DEF OrderAt
    <3>6. ASSUME p \notin Left(g)'
          PROVE  /\ (batch[p] \cup saving[p]) \cap before[g] = {}
                 /\ Elems(flushq'[p]) \cap earlier[g] = {}
                 /\ answering'[p] \notin earlier[g]
      <4>1. CASE g = f
        <5>1. batch[p] \cap before[g] = {}
          BY <1>3, <3>1, <3>3, <3>4, <4>1 DEF OrderAt
        <5>2. answering'[p] \notin earlier[g]
          BY <1>2, <1>4, <3>1, <4>1
        <5> QED BY <1>3, <1>4, <3>2, <4>1, <5>1, <5>2
      <4>2. CASE g # f
        <5>1. p \notin Left(g)
          BY <1>5, <3>1, <3>6, <4>2
        <5>2. f \notin earlier[g]
          BY <1>3, <3>1, <5>1 DEF OrderAt
        <5> QED BY <1>2, <1>3, <1>4, <3>1, <5>1, <5>2 DEF OrderAt
      <4> QED BY <4>1, <4>2
    <3> QED BY <1>1, <3>1, <3>2, <3>5, <3>6 DEF OrderAt
  <2>3. ASSUME NEW r \in Procs PROVE BatchSeen(r)'
    BY <1>0, <1>1, <1>3, <1>4, <2>3 DEF OrderInv, BatchSeen, Looping
  <2> QED BY <1>0, <1>1, <2>1, <2>2, <2>3 DEF OrderInv
<1>11. RequestInv'
  BY <1>0, <1>1, RequestFrame
<1> QED
  BY <1>0, <1>1, <1>7, <1>8, <1>9, <1>10, <1>11, HandsFrame, ExecFrame DEF SafeInv

\* flush_callback goes behind everything already submitted to that executor.
LEMMA FlushCallbackStep ==
  ASSUME IInv, NEW p \in Procs, FlushCallback(p)
  PROVE  SafeInv'
<1>0. TypeOK /\ HandsInv /\ PlacesInv /\ RequestInv /\ TravelInv /\ CountInv /\ OrderInv /\ ExecInv
  BY DEF IInv, SafeInv
<1>a. PICK f \in Flushes : f = answering[p]
  BY <1>0 DEF FlushCallback, CountInv, TypeOK
<1>b. PICK s \in Subs : s = subsc[f]
  BY <1>0, <1>a DEF FlushCallback, CountInv, RequestInv, TypeOK
<1>1. /\ flushPc[p] = "answer" /\ flushPc'[p] = "idle" /\ answering'[p] = None
      /\ \A r \in Procs \ {p} : flushPc'[r] = flushPc[r] /\ answering'[r] = answering[r]
      /\ called' = called \cup {f}
      /\ execq'[s] = Append(execq[s], <<"flush", f>>)
      /\ \A u \in Subs \ {s} : execq'[u] = execq[u]
      /\ execq[s] \in Seq(Calls)
      /\ UNCHANGED <<chainVars, procVars, flushq, saving, infoVars, assigned, stored, askedVars>>
  BY <1>0, <1>a, <1>b DEF FlushCallback, TypeOK
<1>2. f \in started /\ f \notin called /\ f # None
  BY <1>0, <1>a, <1>1, KindsAssumption DEF CountInv
<1>3. PlacesInv'
  BY ZenonT(20), <1>0, <1>1 DEF PlacesInv, PlacesAt, Kept
<1>4. \A g \in Flushes : Left(g)' = Left(g)
  BY <1>1 DEF Left
<1>5. CountInv'
  <2>1. ASSUME NEW g \in started
        PROVE  /\ count'[g] = Cardinality(Left(g)')
               /\ Left(g)' = {} <=> g \in called' \/ \E r \in Procs : answering'[r] = g
    <3>1. g \in Flushes /\ g # None
      BY ZenonT(20), <1>0, <2>1, KindsAssumption DEF TypeOK
    <3>2. g \in called' \/ (\E r \in Procs : answering'[r] = g)
          <=> g \in called \/ (\E r \in Procs : answering[r] = g)
      BY <1>a, <1>1, <3>1
    <3> QED BY SMTT(20), Z3T(20), SMTT(30), <1>0, <1>1, <1>4, <2>1, <3>1, <3>2 DEF CountInv
  <2>2. ASSUME NEW r \in Procs
        PROVE  /\ flushPc'[r] = "answer" <=> answering'[r] # None
               /\ answering'[r] # None => answering'[r] \in started \ called'
               /\ \A u \in Procs : answering'[r] = answering'[u] /\ answering'[r] # None => r = u
    BY SMTT(20), Z3T(20), SMTT(30), <1>0, <1>a, <1>1, <2>2 DEF CountInv
  <2> QED BY ZenonT(40), <1>0, <1>1, <1>2, <2>1, <2>2 DEF CountInv
<1>6. OrderInv'
  <2>1. ASSUME NEW r \in Procs, r # p, NEW g \in started PROVE OrderAt(r, g)'
    BY <1>0, <1>1, <2>1, OrderAtFrame DEF OrderInv, Looping
  <2>2. ASSUME NEW g \in started PROVE OrderAt(p, g)'
    <3>1. OrderAt(p, g) /\ g \in Flushes /\ None \notin earlier[g]
      BY ZenonT(20), <1>0, <2>2, KindsAssumption DEF OrderInv, TypeOK
    <3> QED BY <1>1, <1>4, <3>1 DEF OrderAt, Looping
  <2>3. ASSUME NEW r \in Procs PROVE BatchSeen(r)'
    BY <1>0, <1>1, <2>3 DEF OrderInv, BatchSeen, Looping
  <2> QED BY <1>0, <1>1, <2>1, <2>2, <2>3 DEF OrderInv
<1>7. ExecInv'
  <2> SUFFICES ASSUME NEW u \in Subs, NEW i \in DOMAIN execq'[u], NEW g \in Flushes,
                      execq'[u][i] = <<"flush", g>>
               PROVE  /\ g \in called'
                      /\ \A j \in DOMAIN execq'[u] :
                           i < j /\ execq'[u][j][1] = "saved" => execq'[u][j][2] \cap before[g] = {}
    BY <1>1 DEF ExecInv
  <2>1. CASE u # s
    BY SMTT(20), Z3T(20), SMTT(30), <1>0, <1>1, <2>1 DEF ExecInv
  <2>2. CASE u = s
    <3> DEFINE n == Len(execq[s])
    <3>1. /\ n \in Nat /\ DOMAIN execq[s] = 1 .. n /\ DOMAIN execq'[s] = 1 .. n + 1
          /\ \A j \in 1 .. n : execq'[s][j] = execq[s][j]
          /\ execq'[s][n + 1] = <<"flush", f>>
      BY SMTT(20), Z3T(20), SMTT(30), <1>1
    <3>2. execq'[s][n + 1][1] # "saved"
      BY <3>1
    <3>3. CASE i = n + 1
      <4>1. g = f
        BY <2>2, <3>1, <3>3
      <4>2. \A j \in DOMAIN execq'[u] : ~(i < j)
        BY SMTT(20), Z3T(20), SMTT(30), <2>2, <3>1, <3>3
      <4> QED BY <1>1, <4>1, <4>2
    <3>4. CASE i # n + 1
      <4>1. i \in 1 .. n /\ execq[s][i] = <<"flush", g>>
        BY <2>2, <3>1, <3>4
      <4>2. g \in called /\ \A j \in 1 .. n :
              i < j /\ execq[s][j][1] = "saved" => execq[s][j][2] \cap before[g] = {}
        BY <1>0, <3>1, <4>1 DEF ExecInv
      <4>3. \A j \in 1 .. n + 1 : execq'[s][j][1] = "saved" => j \in 1 .. n
        BY SMTT(20), Z3T(20), SMTT(30), <3>1, <3>2
      <4>4. \A j \in 1 .. n + 1 :
              i < j /\ execq'[s][j][1] = "saved" => execq'[s][j][2] \cap before[g] = {}
        <5> HIDE DEF n
        <5> QED BY <3>1, <4>2, <4>3
      <4> QED BY <1>1, <2>2, <3>1, <4>2, <4>4
    <3> QED BY <3>3, <3>4
  <2> QED BY <2>1, <2>2
<1> QED
  BY ZenonT(20), <1>0, <1>1, <1>3, <1>5, <1>6, <1>7, HandsFrame, RequestFrame, TravelFrame DEF SafeInv

\* The executor takes its oldest callback.
LEMMA RunCallbackStep ==
  ASSUME IInv, NEW s \in Subs, RunCallback(s)
  PROVE  SafeInv'
<1>0. TypeOK /\ HandsInv /\ PlacesInv /\ RequestInv /\ TravelInv /\ CountInv /\ OrderInv /\ ExecInv
  BY DEF IInv, SafeInv
<1>1. /\ execq[s] # <<>> /\ execq'[s] = Tail(execq[s]) /\ execq[s] \in Seq(Calls)
      /\ \A u \in Subs \ {s} : execq'[u] = execq[u]
      /\ UNCHANGED <<chainVars, procVars, flushVars, infoVars, assigned, stored, askedVars, called>>
  BY <1>0 DEF RunCallback, TypeOK
<1>2. ExecInv'
  <2> SUFFICES ASSUME NEW u \in Subs, NEW i \in DOMAIN execq'[u], NEW g \in Flushes,
                      execq'[u][i] = <<"flush", g>>
               PROVE  /\ g \in called
                      /\ \A j \in DOMAIN execq'[u] :
                           i < j /\ execq'[u][j][1] = "saved" => execq'[u][j][2] \cap before[g] = {}
    BY ZenonT(20), <1>1 DEF ExecInv
  <2>1. CASE u # s
    BY ZenonT(20), <1>0, <1>1, <2>1 DEF ExecInv
  <2>2. CASE u = s
    <3> DEFINE n == Len(execq[s])
    <3>1. /\ n \in Nat /\ n >= 1 /\ DOMAIN execq[s] = 1 .. n /\ DOMAIN execq'[s] = 1 .. n - 1
          /\ \A j \in 1 .. n - 1 : j + 1 \in 1 .. n /\ execq'[s][j] = execq[s][j + 1]
      BY <1>1
    <3>2. i + 1 \in 1 .. n /\ execq[s][i + 1] = <<"flush", g>>
      BY <2>2, <3>1
    <3>3. g \in called /\ \A j \in 1 .. n :
            i + 1 < j /\ execq[s][j][1] = "saved" => execq[s][j][2] \cap before[g] = {}
      BY <1>0, <3>1, <3>2 DEF ExecInv
    <3>4. \A j \in 1 .. n - 1 : i < j => i + 1 < j + 1
      BY <2>2, <3>1
    <3>5. ASSUME NEW j \in 1 .. n - 1, i < j, execq'[s][j][1] = "saved"
          PROVE  execq'[s][j][2] \cap before[g] = {}
      BY Zenon, <3>1, <3>3, <3>4, <3>5
    <3> QED BY Zenon, <2>2, <3>1, <3>3, <3>5
  <2> QED BY <2>1, <2>2
<1>3. CountInv'
  <2>1. \A f \in started : Left(f)' = Left(f)
    BY <1>1 DEF Left
  <2> QED BY <1>0, <1>1, <2>1, CountFrame
<1> QED
  BY <1>0, <1>1, <1>2, <1>3, HandsFrame, PlacesFrame, RequestFrame, TravelFrame, OrderFrame
  DEF SafeInv
=============================================================================
