---------------------------- MODULE CubePromise ----------------------------
(***************************************************************************)
(* What a data cube promises its callers, with no thread in sight.         *)
(* Tuples are handed over, become visible to queries some time later, and  *)
(* a flush is answered only when everything handed over before it is       *)
(* visible.  subscriber.h tells a subscriber that needs ordering to "Use a *)
(* Flush"; this module is that contract, and CubePipeline implements it.   *)
(***************************************************************************)
CONSTANTS Tuples, Flushes

VARIABLES
  assigned,  \* tuples DataCube::process has handed to a processor thread
  stored,    \* tuples that are part of a cell a query can see
  issued,    \* flushes whose call of DataCube::flush has returned
  before,    \* per flush: the tuples assigned when it was requested
  earlier,   \* per flush: the flushes that had been issued when it was requested
  started,   \* flushes that were requested
  called     \* flushes whose flush_callback was submitted

vars == <<assigned, stored, issued, before, earlier, started, called>>

Init ==
  /\ assigned = {} /\ stored = {} /\ issued = {} /\ started = {} /\ called = {}
  /\ before = [f \in Flushes |-> {}]
  /\ earlier = [f \in Flushes |-> {}]

Hand(t) ==
  /\ t \notin assigned
  /\ assigned' = assigned \cup {t}
  /\ UNCHANGED <<stored, issued, before, earlier, started, called>>

\* Any set of handed-over tuples not yet visible becomes visible, each once.
Commit(S) ==
  /\ S # {} /\ S \subseteq assigned \ stored
  /\ stored' = stored \cup S
  /\ UNCHANGED <<assigned, issued, before, earlier, started, called>>

Request(f) ==
  /\ f \notin started
  /\ started' = started \cup {f}
  /\ before' = [before EXCEPT ![f] = assigned]
  /\ earlier' = [earlier EXCEPT ![f] = issued]
  /\ UNCHANGED <<assigned, stored, issued, called>>

Issue(f) ==
  /\ f \in started \ issued
  /\ issued' = issued \cup {f}
  /\ UNCHANGED <<assigned, stored, before, earlier, started, called>>

Answer(f) ==
  /\ f \in issued \ called
  /\ before[f] \subseteq stored
  /\ earlier[f] \subseteq called
  /\ called' = called \cup {f}
  /\ UNCHANGED <<assigned, stored, issued, before, earlier, started>>

Next ==
  \/ \E t \in Tuples : Hand(t)
  \/ \E S \in SUBSET Tuples : Commit(S)
  \/ \E f \in Flushes : Request(f) \/ Issue(f) \/ Answer(f)

Spec == Init /\ [][Next]_vars
=============================================================================
