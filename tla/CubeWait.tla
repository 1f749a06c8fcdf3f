------------------------------ MODULE CubeWait ------------------------------
(***************************************************************************)
(* DataCube::wait_for_commits on top of CubePipeline: a caller polls the   *)
(* two queue lengths, the flush queue first, until it reads zero twice.    *)
(* The tuples go the other way, from the process queue to the flush queue, *)
(* so the two reads are two steps.                                         *)
(***************************************************************************)
EXTENDS CubePipeline

VARIABLES
  waitPc,   \* "out" of the call, or the length it reads next: "flush", "process"
  mustSee   \* the tuples in a processor's queue since wait_for_commits was called

waitVars == <<waitPc, mustSee>>

\* The tuples in the processors' queues.
Queued == Tuples \cap UNION {Elems(tasks[p]) : p \in Procs}

WaitInit == Init /\ waitPc = "out" /\ mustSee = {}

CallWait ==
  /\ waitPc = "out"
  /\ waitPc' = "flush" /\ mustSee' = Queued
  /\ UNCHANGED vars

\* while (flushCongestMon->queue_length() > 0 || ... sleeps and tries again.
ReadFlush ==
  /\ waitPc = "flush"
  /\ flushLen <= 0
  /\ waitPc' = "process"
  /\ UNCHANGED <<mustSee, vars>>

\* Mutant: the second operand of the || is forgotten.
ReadProcessAlways ==
  /\ waitPc = "process"
  /\ waitPc' = "out"
  /\ UNCHANGED <<mustSee, vars>>

\* ... || processCongestMon->queue_length() > 0)
ReadProcess ==
  /\ waitPc = "process"
  /\ waitPc' = IF processLen > 0 THEN "flush" ELSE "out"
  /\ UNCHANGED <<mustSee, vars>>

WaitNext ==
  \/ Next /\ UNCHANGED waitPc /\ mustSee' = mustSee \cap Queued'
  \/ CallWait \/ ReadFlush \/ ReadProcess

WaitSpec == WaitInit /\ [][WaitNext]_<<vars, waitVars>>

\* The cube's threads and the poller all get to run.
FairWaitSpec ==
  /\ WaitSpec
  /\ Fairness
  /\ WF_<<vars, waitVars>>(ReadFlush \/ ReadProcess)

-----------------------------------------------------------------------------
\* When wait_for_commits returns, every tuple that waited in a processor's queue
\* at the call has left it: do_process has merged it into a batch or saved it.
WaitDrains == waitPc = "out" => mustSee = {}

\* wait_for_commits returns: no length stays above zero once the tuples stop.
WaitReturns == waitPc = "flush" ~> waitPc = "out"
=============================================================================
