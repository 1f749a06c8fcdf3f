-------------------------- MODULE TimeWindowProofs --------------------------
(***************************************************************************)
(* Proofs about TimeWindow, for any tuples, flushes, chains, times and     *)
(* offset: a tuple handed over in time leaves in some window.              *)
(***************************************************************************)
EXTENDS TimeWindow, FiniteSetTheorems, TLAPS

USE ZenonT(3), SMTT(20), Z3T(20), ZenonT(20)

\* A set of times has an earliest one: the smallest of the sets of times up to
\* a member is the set of that member alone.
LEMMA Earliest ==
  ASSUME NEW S \in SUBSET Nat, S # {}
  PROVE  Min(S) \in S
<1> DEFINE UpTo(x) == {y \in S : y =< x}
           T == {UpTo(x) : x \in S}
<1>1. T # {} /\ \A U \in T : U \in FiniteSubsetsOf(S)
  <2> SUFFICES ASSUME NEW x \in S  PROVE UpTo(x) \in FiniteSubsetsOf(S)
    OBVIOUS
  <2>1. UpTo(x) \in SUBSET Nat /\ x \in Nat /\ \A s \in UpTo(x) : s =< x
    OBVIOUS
  <2>2. IsFiniteSet(UpTo(x))
    <3> HIDE DEF UpTo
    <3> QED  BY <2>1, FS_BoundedSetOfNaturals
  <2> QED  BY <2>2 DEF FiniteSubsetsOf
<1>2. PICK U \in T : \A V \in T : ~(<<V, U>> \in StrictSubsetOrdering(S))
  <2> HIDE DEF T
  <2> QED  BY <1>1, FS_StrictSubsetOrderingWellFounded, WFMin
<1>3. PICK x \in S : U = UpTo(x)
  OBVIOUS
<1>4. \A y \in S : x =< y
  <2> SUFFICES ASSUME NEW y \in S, y < x  PROVE FALSE
    OBVIOUS
  <2>0. x \in Nat /\ y \in Nat /\ \A z \in S : z \in Nat
    OBVIOUS
  <2>1. UpTo(y) \subseteq UpTo(x) /\ x \in UpTo(x) /\ x \notin UpTo(y)
    <3>1. x =< x /\ ~(x =< y) /\ \A z \in S : z =< y => z =< x
      BY <2>0
    <3> QED  BY <3>1
  <2>2. UpTo(y) \in T /\ UpTo(y) \in SUBSET S /\ U \in SUBSET S
    BY <1>3
  <2>3. <<UpTo(y), U>> \in StrictSubsetOrdering(S)
    <3> HIDE DEF UpTo, T
    <3> QED  BY <1>3, <2>1, <2>2 DEF StrictSubsetOrdering
  <2> QED  BY <1>2, <2>2, <2>3
<1>5. \E z \in S : \A y \in S : z =< y
  BY <1>4
<1> QED  BY <1>5 DEF Min

\* The later of two times.
LEMMA Later ==
  ASSUME NEW a \in Int, NEW b \in Int
  PROVE  Max({a, b}) \in {a, b}
<1>1. \E z \in {a, b} : \A y \in {a, b} : z >= y
  BY SMTT(20), Z3T(20), SMTT(30)
<1> QED  BY <1>1 DEF Max

-----------------------------------------------------------------------------
\* The states of the cube's promise and of the subscriber.
WTypeOK ==
  /\ assigned \in SUBSET Tuples /\ stored \in SUBSET Tuples
  /\ started \in SUBSET Flushes /\ issued \in SUBSET started /\ called \in SUBSET issued
  /\ before \in [Flushes -> SUBSET Tuples]
  /\ now \in Nat
  /\ DOMAIN times \in SUBSET Chains /\ \A c \in DOMAIN times : times[c] \in Nat
  /\ newMax \in [Flushes -> Int]
  /\ postq \in Seq(called)
  /\ queryMax \in Nat /\ nextStart \in Nat
  /\ emitted \in [Tuples -> Nat]
  /\ onTime \in SUBSET assigned

\* A window that reaches the time of a tuple that came in time was asked for
\* behind the tuple.
AskedBehind == \A t \in onTime, f \in started : newMax[f] >= TimeOf[t] => t \in before[f]

\* What was handed over before an answered flush is visible.
Answered == \A f \in called : before[f] \subseteq stored

\* The next window starts behind the end of one that was asked for.
WindowAsked ==
  /\ nextStart = queryMax + 1 \/ (nextStart = 0 /\ queryMax = 0)
  /\ queryMax # 0 => \E f \in started : newMax[f] = queryMax

WInv == WTypeOK /\ AskedBehind /\ Answered /\ WindowAsked /\ OnTimeIsEmitted

\* The end of a window is a time.
LEMMA WindowEndType == WTypeOK => WindowEnd \in Int
<1> SUFFICES ASSUME WTypeOK  PROVE WindowEnd \in Int
  OBVIOUS
<1>1. 0 \in Int /\ now - Offset \in Int
  BY SMTT(20), Z3T(20), SMTT(30), ClockAssumption DEF WTypeOK
<1>2. Max({0, now - Offset}) \in Int
  BY <1>1, Later
<1>3. CASE DOMAIN times = {}
  BY <1>2, <1>3 DEF WindowEnd
<1>4. CASE DOMAIN times # {}
  <2>1. {times[c] : c \in DOMAIN times} \in SUBSET Nat /\ {times[c] : c \in DOMAIN times} # {}
    BY <1>4 DEF WTypeOK
  <2>2. Min({times[c] : c \in DOMAIN times}) \in Int
    BY SMTT(20), Z3T(20), SMTT(30), <2>1, Earliest
  <2>3. Max({Max({0, now - Offset}), Min({times[c] : c \in DOMAIN times})}) \in Int
    BY <1>2, <2>2, Later
  <2> QED  BY <1>4, <2>3 DEF WindowEnd
<1> QED  BY <1>3, <1>4

\* Every step keeps the types.
LEMMA WTypeStep == WTypeOK /\ [WNext]_allVars => WTypeOK'
<1> SUFFICES ASSUME WTypeOK, [WNext]_allVars  PROVE WTypeOK'
  OBVIOUS
<1> USE DEF WTypeOK, vars, windowVars
<1>1. CASE Tick
  BY SMTT(20), Z3T(20), SMTT(30), <1>1 DEF Tick
<1>2. CASE PostFlush
  <2>1. Head(postq) \in Flushes /\ postq' \in Seq(called)
    BY SMTT(20), Z3T(20), SMTT(30), <1>2 DEF PostFlush
  <2>2. queryMax' \in Nat /\ nextStart' \in Nat /\ nextStart' = queryMax' + 1
    BY SMTT(20), Z3T(20), SMTT(30), <1>2, <2>1 DEF PostFlush
  <2>3. emitted' \in [Tuples -> Nat]
    BY SMTT(20), Z3T(20), SMTT(30), <1>2 DEF PostFlush
  <2> QED  BY <1>2, <2>1, <2>2, <2>3 DEF PostFlush
<1>3. ASSUME NEW t \in Tuples, Process(t)  PROVE WTypeOK'
  BY <1>3 DEF Process, Hand
<1>4. ASSUME NEW S \in SUBSET Tuples, Save(S)  PROVE WTypeOK'
  BY <1>4 DEF Save, Commit
<1>5. ASSUME NEW c \in Chains, NoMoreData(c)  PROVE WTypeOK'
  <2>1. DOMAIN times' \in SUBSET Chains /\ \A d \in DOMAIN times' : times'[d] \in Nat
    BY <1>5 DEF NoMoreData
  <2> QED  BY <1>5, <2>1 DEF NoMoreData
<1>6. ASSUME NEW c \in Chains, NEW w \in 1 .. MaxTime, EndOfWindow(c, w)  PROVE WTypeOK'
  <2>1. Marker(c) \in Int /\ w \in Int /\ Marker(c) \in Nat /\ w \in Nat
    BY SMTT(20), Z3T(20), SMTT(30), ClockAssumption DEF Marker
  <2>2. Max({w, Marker(c)}) \in {w, Marker(c)}
    BY <2>1, Later
  <2>3. DOMAIN times' \in SUBSET Chains /\ \A d \in DOMAIN times' : times'[d] \in Nat
    BY <1>6, <2>1, <2>2 DEF EndOfWindow
  <2> QED  BY <1>6, <2>3 DEF EndOfWindow
<1>7. ASSUME NEW f \in Flushes, EmitBatch(f)  PROVE WTypeOK'
  <2>1. newMax' \in [Flushes -> Int]
    BY <1>7, WindowEndType DEF EmitBatch
  <2>2. started' \in SUBSET Flushes /\ issued' \in SUBSET started' /\ before' \in [Flushes -> SUBSET Tuples]
    BY <1>7 DEF EmitBatch, Request
  <2> QED  BY <1>7, <2>1, <2>2 DEF EmitBatch, Request
<1>8. ASSUME NEW f \in Flushes, FlushIssued(f)  PROVE WTypeOK'
  BY <1>8 DEF FlushIssued, Issue
<1>9. ASSUME NEW f \in Flushes, FlushCallback(f)  PROVE WTypeOK'
  <2>1. called' \in SUBSET issued /\ f \in called' /\ called \subseteq called'
    BY <1>9 DEF FlushCallback, Answer
  <2>2. postq' \in Seq(called')
    BY SMTT(20), Z3T(20), SMTT(30), <1>9, <2>1 DEF FlushCallback
  <2> QED  BY <1>9, <2>1, <2>2 DEF FlushCallback, Answer
<1>10. CASE UNCHANGED allVars
  BY <1>10 DEF allVars
<1> QED  BY <1>1, <1>2, <1>3, <1>4, <1>5, <1>6, <1>7, <1>8, <1>9, <1>10 DEF WNext

\* A window is asked for behind every tuple there is, and a tuple is on time
\* only if no window that reaches it was asked for.
LEMMA AskedBehindStep == WInv /\ [WNext]_allVars => AskedBehind'
<1> SUFFICES ASSUME WInv, [WNext]_allVars  PROVE AskedBehind'
  OBVIOUS
<1> USE DEF WInv, WTypeOK, AskedBehind, vars, windowVars
<1>1. ASSUME NEW t \in Tuples, Process(t)  PROVE AskedBehind'
  <2> SUFFICES ASSUME NEW u \in onTime', NEW f \in started', newMax'[f] >= TimeOf[u]
               PROVE  u \in before'[f]
    OBVIOUS
  <2>1. before' = before /\ started' = started /\ newMax' = newMax
    BY <1>1 DEF Process, Hand
  <2>2. CASE u \in onTime
    BY <2>1, <2>2
  <2>3. CASE u \notin onTime
    <3>1. u = t /\ newMax[f] < TimeOf[t]
      BY <1>1, <2>1, <2>3 DEF Process
    <3>2. newMax[f] \in Int /\ TimeOf[t] \in Int
      BY SMTT(20), Z3T(20), SMTT(30), <2>1, SourceAssumption, ClockAssumption
    <3> QED  BY SMTT(20), Z3T(20), SMTT(30), <2>1, <3>1, <3>2
  <2> QED  BY <2>2, <2>3
<1>2. ASSUME NEW f \in Flushes, EmitBatch(f)  PROVE AskedBehind'
  <2> SUFFICES ASSUME NEW u \in onTime', NEW g \in started', newMax'[g] >= TimeOf[u]
               PROVE  u \in before'[g]
    OBVIOUS
  <2>1. u \in onTime /\ u \in assigned
    BY <1>2 DEF EmitBatch
  <2>2. CASE g = f
    BY <1>2, <2>1, <2>2 DEF EmitBatch, Request
  <2>3. CASE g # f
    BY <1>2, <2>1, <2>3 DEF EmitBatch, Request
  <2> QED  BY <2>2, <2>3
<1>3. CASE UNCHANGED <<onTime, started, newMax, before>>
  BY <1>3
<1>4. ASSUME NEW f \in Flushes, FlushIssued(f) \/ FlushCallback(f)  PROVE UNCHANGED <<onTime, started, newMax, before>>
  BY <1>4 DEF FlushIssued, Issue, FlushCallback, Answer
<1>5. ASSUME NEW c \in Chains, NoMoreData(c) \/ \E w \in 1 .. MaxTime : EndOfWindow(c, w)
      PROVE  UNCHANGED <<onTime, started, newMax, before>>
  BY <1>5 DEF NoMoreData, EndOfWindow
<1>6. ASSUME NEW S \in SUBSET Tuples, Save(S)  PROVE UNCHANGED <<onTime, started, newMax, before>>
  BY <1>6 DEF Save, Commit
<1>7. CASE Tick \/ PostFlush \/ UNCHANGED allVars
  BY <1>3, <1>7 DEF Tick, PostFlush, allVars
<1> QED  BY <1>1, <1>2, <1>3, <1>4, <1>5, <1>6, <1>7 DEF WNext

\* The cube answers a flush when its tuples are visible, and they stay so.
LEMMA AnsweredStep == WInv /\ [WNext]_allVars => Answered'
<1> SUFFICES ASSUME WInv, [WNext]_allVars, NEW g \in called'  PROVE before'[g] \subseteq stored'
  BY DEF Answered
<1> USE DEF WInv, WTypeOK, Answered, vars, windowVars
<1>1. ASSUME NEW f \in Flushes, FlushCallback(f)  PROVE before'[g] \subseteq stored'
  BY <1>1 DEF FlushCallback, Answer
<1>2. ASSUME NEW f \in Flushes, EmitBatch(f)  PROVE before'[g] \subseteq stored'
  <2>1. g \in called /\ g # f
    BY <1>2 DEF EmitBatch, Request
  <2> QED  BY <1>2, <2>1 DEF EmitBatch, Request
<1>3. ASSUME NEW S \in SUBSET Tuples, Save(S)  PROVE before'[g] \subseteq stored'
  BY <1>3 DEF Save, Commit
<1>4. CASE UNCHANGED <<called, before, stored>>
  BY <1>4
<1>5. ASSUME NEW f \in Flushes, FlushIssued(f)  PROVE UNCHANGED <<called, before, stored>>
  BY <1>5 DEF FlushIssued, Issue
<1>6. ASSUME NEW c \in Chains, NoMoreData(c) \/ \E w \in 1 .. MaxTime : EndOfWindow(c, w)
      PROVE  UNCHANGED <<called, before, stored>>
  BY <1>6 DEF NoMoreData, EndOfWindow
<1>7. ASSUME NEW t \in Tuples, Process(t)  PROVE UNCHANGED <<called, before, stored>>
  BY <1>7 DEF Process, Hand
<1>8. CASE Tick \/ PostFlush \/ UNCHANGED allVars
  BY <1>4, <1>8 DEF Tick, PostFlush, allVars
<1> QED  BY <1>1, <1>2, <1>3, <1>4, <1>5, <1>6, <1>7, <1>8 DEF WNext

\* post_flush takes the end of its window from the flush it follows.
LEMMA WindowAskedStep == WInv /\ [WNext]_allVars => WindowAsked'
<1> SUFFICES ASSUME WInv, [WNext]_allVars  PROVE WindowAsked'
  OBVIOUS
<1> USE DEF WInv, WTypeOK, vars, windowVars
<1>0. WindowAsked
  OBVIOUS
<1>1. CASE PostFlush
  <2>1. Head(postq) \in started /\ nextStart' = queryMax' + 1
    BY SMTT(20), Z3T(20), SMTT(30), <1>1 DEF PostFlush
  <2>2. queryMax' = newMax[Head(postq)] \/ queryMax' = queryMax
    BY <1>1 DEF PostFlush
  <2>3. started' = started /\ newMax' = newMax
    BY <1>1 DEF PostFlush
  <2>4. queryMax' # 0 => \E f \in started : newMax[f] = queryMax'
    BY <1>0, <2>1, <2>2 DEF WindowAsked
  <2>5. queryMax' # 0 => \E f \in started' : newMax'[f] = queryMax'
    BY <2>3, <2>4
  <2> QED  BY <2>1, <2>5 DEF WindowAsked
<1>2. ASSUME NEW f \in Flushes, EmitBatch(f)  PROVE WindowAsked'
  <2>1. \A g \in started : g \in started' /\ newMax'[g] = newMax[g]
    BY <1>2 DEF EmitBatch, Request
  <2> QED  BY <1>0, <1>2, <2>1 DEF EmitBatch, WindowAsked
<1>3. CASE UNCHANGED <<nextStart, queryMax, started, newMax>>
  BY <1>0, <1>3 DEF WindowAsked
<1>4. ASSUME NEW f \in Flushes, FlushIssued(f) \/ FlushCallback(f)
      PROVE  UNCHANGED <<nextStart, queryMax, started, newMax>>
  BY <1>4 DEF FlushIssued, Issue, FlushCallback, Answer
<1>5. ASSUME NEW c \in Chains, NoMoreData(c) \/ \E w \in 1 .. MaxTime : EndOfWindow(c, w)
      PROVE  UNCHANGED <<nextStart, queryMax, started, newMax>>
  BY <1>5 DEF NoMoreData, EndOfWindow
<1>6. ASSUME NEW S \in SUBSET Tuples, Save(S)  PROVE UNCHANGED <<nextStart, queryMax, started, newMax>>
  BY <1>6 DEF Save, Commit
<1>7. ASSUME NEW t \in Tuples, Process(t)  PROVE UNCHANGED <<nextStart, queryMax, started, newMax>>
  BY <1>7 DEF Process, Hand
<1>8. CASE Tick \/ UNCHANGED allVars
  BY <1>3, <1>8 DEF Tick, allVars
<1> QED  BY <1>1, <1>2, <1>3, <1>4, <1>5, <1>6, <1>7, <1>8 DEF WNext

\* post_flush moves the start of the next window past a tuple only when its
\* query saw the tuple.
LEMMA EmittedStep == WInv /\ [WNext]_allVars => OnTimeIsEmitted'
<1> SUFFICES ASSUME WInv, [WNext]_allVars, NEW t \in onTime', TimeOf[t] < nextStart'
             PROVE  emitted'[t] >= 1
  BY DEF OnTimeIsEmitted
<1> USE DEF WInv, WTypeOK, OnTimeIsEmitted, vars, windowVars
<1>0. WTypeOK'
  BY WTypeStep
<1>1. t \in Tuples /\ TimeOf[t] \in Nat \ {0}
  BY SMTT(20), Z3T(20), SMTT(30), <1>0, SourceAssumption, ClockAssumption
<1>2. CASE PostFlush
  <2>1. t \in onTime /\ Head(postq) \in called /\ nextStart' = queryMax' + 1
    BY SMTT(20), Z3T(20), SMTT(30), <1>2 DEF PostFlush
  <2>2. emitted[t] \in Nat
    BY <1>1
  <2>3. CASE TimeOf[t] < nextStart
    <3>1. emitted[t] >= 1
      BY <2>1, <2>3
    <3>2. emitted'[t] \in {emitted[t], emitted[t] + 1}
      BY <1>1, <1>2 DEF PostFlush
    <3> QED  BY <2>2, <3>1, <3>2
  <2>4. CASE ~(TimeOf[t] < nextStart)
    <3>1. TimeOf[t] =< queryMax' /\ queryMax' \in Nat /\ TimeOf[t] >= nextStart
      BY SMTT(20), Z3T(20), SMTT(30), <1>0, <1>1, <2>1, <2>4
    <3>2. newMax[Head(postq)] >= TimeOf[t]
      <4>1. CASE newMax[Head(postq)] > 0
        BY <1>2, <3>1, <4>1 DEF PostFlush
      <4>2. CASE ~(newMax[Head(postq)] > 0)
        <5>1. queryMax' = queryMax
          BY <1>2, <4>2 DEF PostFlush
        <5> QED  BY <1>1, <3>1, <5>1 DEF WindowAsked
      <4> QED  BY <4>1, <4>2
    <3>3. t \in before[Head(postq)]
      BY <2>1, <3>2 DEF AskedBehind
    <3>4. t \in stored
      BY <2>1, <3>3 DEF Answered
    <3>5. emitted'[t] = emitted[t] + 1
      BY SMTT(20), Z3T(20), SMTT(30), <1>1, <1>2, <3>1, <3>4 DEF PostFlush
    <3> QED  BY <2>2, <3>5
  <2> QED  BY <2>3, <2>4
<1>3. ASSUME NEW u \in Tuples, Process(u)  PROVE emitted'[t] >= 1
  <2>1. nextStart' = nextStart /\ emitted' = emitted
    BY <1>3 DEF Process
  <2>2. CASE t \in onTime
    BY <2>1, <2>2
  <2>3. CASE t \notin onTime
    <3>1. \A f \in started : newMax[f] < TimeOf[t]
      BY <1>3, <2>3 DEF Process
    <3>2. nextStart =< TimeOf[t]
      BY <1>1, <3>1 DEF WindowAsked
    <3> QED  BY SMTT(20), Z3T(20), SMTT(30), <1>1, <2>1, <3>2
  <2> QED  BY <2>2, <2>3
<1>4. CASE UNCHANGED <<onTime, nextStart, emitted>>
  BY <1>4
<1>5. ASSUME NEW f \in Flushes, EmitBatch(f) \/ FlushIssued(f) \/ FlushCallback(f)
      PROVE  UNCHANGED <<onTime, nextStart, emitted>>
  BY <1>5 DEF EmitBatch, FlushIssued, FlushCallback
<1>6. ASSUME NEW c \in Chains, NoMoreData(c) \/ \E w \in 1 .. MaxTime : EndOfWindow(c, w)
      PROVE  UNCHANGED <<onTime, nextStart, emitted>>
  BY <1>6 DEF NoMoreData, EndOfWindow
<1>7. ASSUME NEW S \in SUBSET Tuples, Save(S)  PROVE UNCHANGED <<onTime, nextStart, emitted>>
  BY <1>7 DEF Save
<1>8. CASE Tick \/ UNCHANGED allVars
  BY <1>4, <1>8 DEF Tick, allVars
<1> QED  BY <1>2, <1>3, <1>4, <1>5, <1>6, <1>7, <1>8 DEF WNext

\* Before the first tuple there is nothing to emit.
LEMMA WInitInv == WInit => WInv
<1> SUFFICES ASSUME WInit  PROVE WInv
  OBVIOUS
<1> USE DEF WInit, Init
<1>1. WTypeOK
  BY DEF WTypeOK
<1> QED  BY <1>1 DEF WInv, AskedBehind, Answered, WindowAsked, OnTimeIsEmitted

\* TimeBasedSubscriber::post_flush: whatever the clock, the markers and the
\* order of the answers, a tuple handed over in time is part of some window's
\* result before the windows move past its time.
THEOREM OnTimeEmitted == WSpec => []OnTimeIsEmitted
<1>1. WInv /\ [WNext]_allVars => WInv'
  BY WTypeStep, AskedBehindStep, AnsweredStep, WindowAskedStep, EmittedStep DEF WInv
<1>2. WInv => OnTimeIsEmitted
  BY DEF WInv
<1> QED  BY <1>1, <1>2, WInitInv, PTL DEF WSpec
=============================================================================
