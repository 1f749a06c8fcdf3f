----------------------------- MODULE TimeWindow -----------------------------
(***************************************************************************)
(* TimeBasedSubscriber (src/src/dataplane/base_subscribers.cc) on a cube   *)
(* that keeps CubePromise.  A timer asks the cube for a flush up to a time *)
(* that depends on the clock and on the end-of-window markers of the       *)
(* chains; post_flush queries the cube from the end of the previous window *)
(* to that time and sends the result downstream.                           *)
(***************************************************************************)
EXTENDS CubePromise, Integers, FiniteSetsExt, Sequences

CONSTANTS
  Chains,
  ChainOf, TimeOf,  \* of each tuple
  Offset,           \* get_window_offset_sec()
  MaxTime,          \* bounds the clock and the markers
  Closing           \* chains that may end

ASSUME SourceAssumption == ChainOf \in [Tuples -> Chains] /\ TimeOf \in [Tuples -> 1 .. MaxTime]
ASSUME ClockAssumption == Offset \in Nat /\ MaxTime \in Nat /\ Closing \subseteq Chains

VARIABLES
  now,       \* tt->now()
  times,     \* marker of each chain that has one
  ended,     \* chains that sent NO_MORE_DATA
  newMax,    \* FlushInfo::id of each flush
  postq,     \* post_flush calls in the executor
  queryMax,  \* querier.max's time
  nextStart, \* next_window_start_time, which is querier.min's time as well
  emitted,   \* per tuple: how often a window's result held it
  onTime     \* tuples handed over before any window that reaches their time was asked for

windowVars == <<now, times, ended, newMax, postq, queryMax, nextStart, emitted, onTime>>
allVars == <<vars, windowVars>>

WInit ==
  /\ Init
  /\ now = 0 /\ times = [c \in {} |-> 0] /\ ended = {}
  /\ newMax = [f \in Flushes |-> 0] /\ postq = <<>>
  /\ queryMax = 0 /\ nextStart = 0
  /\ emitted = [t \in Tuples |-> 0] /\ onTime = {}

Marker(c) == IF c \in DOMAIN times THEN times[c] ELSE 0

Tick ==
  /\ now < MaxTime /\ now' = now + 1
  /\ UNCHANGED <<vars, times, ended, newMax, postq, queryMax, nextStart, emitted, onTime>>

\* DataCube::process of one tuple.  A chain keeps what its markers said.
Process(t) ==
  /\ ChainOf[t] \notin ended /\ TimeOf[t] > Marker(ChainOf[t])
  /\ Hand(t)
  /\ onTime' = IF \A f \in started : newMax[f] < TimeOf[t] THEN onTime \cup {t} ELSE onTime
  /\ UNCHANGED <<now, times, ended, newMax, postq, queryMax, nextStart, emitted>>

\* The cube saves entries.
Save(S) == Commit(S) /\ UNCHANGED windowVars

\* incoming_meta, END_OF_WINDOW; process() has pushed the message's tuples.
EndOfWindow(c, w) ==
  /\ c \notin ended
  /\ times' = [d \in DOMAIN times \cup {c} |-> IF d = c THEN Max({w, Marker(c)}) ELSE times[d]]
  /\ UNCHANGED <<vars, now, ended, newMax, postq, queryMax, nextStart, emitted, onTime>>

\* incoming_meta, NO_MORE_DATA.
NoMoreData(c) ==
  /\ c \in Closing \ ended
  /\ ended' = ended \cup {c}
  /\ times' = [d \in DOMAIN times \ {c} |-> times[d]]
  /\ UNCHANGED <<vars, now, newMax, postq, queryMax, nextStart, emitted, onTime>>

\* The window's end: the clock less the offset, or later if the markers say so.
WindowEnd ==
  LET clock == Max({0, now - Offset}) IN
  IF DOMAIN times = {} THEN clock ELSE Max({clock, Min({times[c] : c \in DOMAIN times})})

\* emit_batch up to the call of cube->flush; its return is FlushIssued.
EmitBatch(f) ==
  /\ \A g \in started : g \in issued
  /\ Request(f)
  /\ newMax' = [newMax EXCEPT ![f] = WindowEnd]
  /\ UNCHANGED <<now, times, ended, postq, queryMax, nextStart, emitted, onTime>>

\* Mutant: emit_batch calls post_flush itself, beside the flush.
FlushIssuedPosts(f) ==
  /\ Issue(f)
  /\ postq' = Append(postq, f)
  /\ UNCHANGED <<now, times, ended, newMax, queryMax, nextStart, emitted, onTime>>

FlushIssued(f) == Issue(f) /\ UNCHANGED windowVars

\* The cube answers: post_flush goes to the executor.
FlushCallback(f) ==
  /\ Answer(f)
  /\ postq' = Append(postq, f)
  /\ UNCHANGED <<now, times, ended, newMax, queryMax, nextStart, emitted, onTime>>

\* post_flush: query, emit, and start the next window behind this one.
PostFlush ==
  LET f == Head(postq) IN
  /\ postq # <<>>
  /\ postq' = Tail(postq)
  /\ queryMax' = IF newMax[f] > 0 THEN newMax[f] ELSE queryMax
  /\ emitted' = [t \in Tuples |->
       IF t \in stored /\ TimeOf[t] \in nextStart .. queryMax' THEN emitted[t] + 1 ELSE emitted[t]]
  /\ nextStart' = queryMax' + 1
  /\ UNCHANGED <<vars, now, times, ended, newMax, onTime>>

WNext ==
  \/ Tick \/ PostFlush
  \/ \E t \in Tuples : Process(t)
  \/ \E S \in SUBSET Tuples : Save(S)
  \/ \E c \in Chains : NoMoreData(c) \/ \E w \in 1 .. MaxTime : EndOfWindow(c, w)
  \/ \E f \in Flushes : EmitBatch(f) \/ FlushIssued(f) \/ FlushCallback(f)

WSpec == WInit /\ [][WNext]_allVars

-----------------------------------------------------------------------------
\* A tuple that was handed over in time leaves in some window: when the next
\* window starts behind its time, it was emitted.  It takes the cube's barrier
\* and that a flush carries the end the window had when it was requested.
OnTimeIsEmitted == \A t \in onTime : TimeOf[t] < nextStart => emitted[t] >= 1
=============================================================================
