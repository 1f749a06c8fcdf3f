-------------------------- MODULE ControllerProofs --------------------------
(***************************************************************************)
(* Proofs about Controller, for any number of nodes, computations, stops   *)
(* and lost workers: the types, the maps agree (LocalIsRegistered), an     *)
(* exception stays with a computation that lost a node (RaisesNeedFault),  *)
(* a listed cube exists (ListedCubeExists), and operators that outlive     *)
(* their computation are about to be stopped (OrphansExplained).           *)
(*                                                                         *)
(* The argument is about one computation at a time: as long as none of its *)
(* nodes is lost it stays as if nobody were, whatever happens to others.   *)
(***************************************************************************)
EXTENDS Controller, TLAPS

USE ZenonT(3), SMTT(20), Z3T(20), ZenonT(20)

-----------------------------------------------------------------------------
(* The invariants.                                                         *)

\* LocalIsRegistered with the types of the two maps.
MapsInv ==
  /\ local \in [Nodes -> Endpoints \union {None}] /\ DOMAIN workers \subseteq Endpoints
  /\ LocalIsRegistered

\* TypeOK, and what the tables it names are made from.
TypesInv ==
  /\ TypeOK
  /\ nextCompID \in 1 .. MaxComps + 1
  /\ plan \in [Comps -> [ops : SUBSET Endpoints, cube : SUBSET Endpoints, bare : SUBSET Endpoints]]
  /\ DOMAIN starters = Comps
  /\ \A c \in Comps : c >= nextCompID => starters[c] = {}
  /\ ev.pc = "plan" => ev = [pc |-> "plan", comp |-> ev.comp] /\ starters[ev.comp] = {}
  /\ ev.pc = "stop" => ev = [pc |-> "stop", comp |-> ev.comp, left |-> ev.left]
  /\ ev.pc \in {"stop", "read", "send"} => ev.left \subseteq Nodes
  /\ ev.pc = "read" => ev.node \in Nodes
  /\ ev.pc = "send" => ev.to \in Endpoints

\* The endpoint of a node's first process.
First(n) == <<n, 1>>

Requests == [type : {"ALTER", "STOP"}, comp : Comps]
Replies == [type : {"STARTED", "STOPPED", "ERROR"}, comp : Comps]

\* The plan of c is made: it does not change any more.
Planned(c) == c < nextCompID /\ ~(ev.pc = "plan" /\ ev.comp = c)

\* What the planner promised to put on endpoint e, and acknowledged, is there.
Created(c, e) == CubeOn(c, e) => c \in cubes[NodeOf(e)] \/ proc[NodeOf(e)] # First(NodeOf(e))

\* Endpoint e is asked about c only because it is assigned to c, or else
\* because a restart put it in the place of one that was.
Reached(c, e) == e \in Assigned(c) \/ Hit(c)

RequestsFor(e) == {m \in Requests : Planned(m.comp) /\ Reached(m.comp, e)}
RepliesFor(e) == {m \in Replies : /\ Planned(m.comp) /\ Reached(m.comp, e)
                                  /\ m.type = "STARTED" => Created(m.comp, e)}

\* What a node is stopping was sent to its process.
HaltsPlanned ==
  \A n \in Nodes : halting[n] # None => Planned(halting[n]) /\ Reached(halting[n], proc[n])

\* Messages are about planned computations, and a STARTED reply is true.
CubeInv ==
  /\ TypesInv /\ ListedCubeExists
  /\ cubes \in [Nodes -> SUBSET Comps]
  /\ proc \in [Nodes -> Endpoints] /\ \A n \in Nodes : NodeOf(proc[n]) = n
  /\ \A c \in Comps : starters[c] # {} => Planned(c)
  /\ \A c \in Comps : ~Planned(c) => Assigned(c) = {}
  /\ halting \in [Nodes -> Comps \union {None}] /\ HaltsPlanned
  /\ DOMAIN toNode = Endpoints /\ \A e \in Endpoints : toNode[e] \in Seq(RequestsFor(e))
  /\ DOMAIN toCtl = Endpoints /\ \A e \in Endpoints : toCtl[e] \in Seq(RepliesFor(e))

\* A node that was not lost is as it was: its first process, registered once
\* and for good, and every worker in a plan is registered.
HomesInv ==
  /\ \A e \in handlers \union DOMAIN workers : NodeOf(e) \in lost \/ e = First(NodeOf(e))
  /\ \A n \in Nodes : n \in lost \/ proc[n] = First(n)
  /\ \A e \in DOMAIN workers : NodeOf(e) \in lost \/ local[NodeOf(e)] = e
  /\ \A c \in Comps : \A e \in Assigned(c) : NodeOf(e) \in lost \/ e \in DOMAIN workers

\* The computation whose assignments are not yet, or no longer, all entered.
Opening(c) == ev.pc = "assign" /\ ev.comp = c
Ending(c) == ev.pc \in {"stop", "read", "send"} /\ ev.comp = c

\* The nodes that the stop in progress has still to tell.
ToTell(c) ==
  {n \in Nodes : /\ Ending(c)
                 /\ \/ n \in ev.left
                    \/ ev.pc = "read" /\ n = ev.node
                    \/ ev.pc = "send" /\ n = NodeOf(ev.to)}

\* The plan, the computation and the workers agree about what is assigned.
Entered(c) ==
  c \in DOMAIN computations /\ ~Opening(c) => DOMAIN computations[c] = {NodeOf(e) : e \in Assigned(c)}
Held(c) ==
  c \in DOMAIN computations /\ ~Opening(c) /\ ~Ending(c) => \A e \in plan[c].ops : c \in workers[e]

\* A stop finds the assignments that it has still to clean up.
Finds(c) ==
  /\ \A n \in ToTell(c) : First(n) \in plan[c].ops /\ c \in workers[First(n)]
  /\ Ending(c) /\ ev.pc = "read" => ev.node \notin ev.left
  /\ Ending(c) /\ ev.pc = "send" => NodeOf(ev.to) \notin ev.left /\ ev.to = First(NodeOf(ev.to))

Alter(c) == [type |-> "ALTER", comp |-> c]
Stop(c) == [type |-> "STOP", comp |-> c]

\* No start of c is in q; a stop of c follows every start of c in q.
NoAlter(q, c) == \A i \in 1 .. Len(q) : q[i] # Alter(c)
Covered(q, c) == \E i \in 1 .. Len(q) : q[i] = Stop(c) /\ \A j \in i + 1 .. Len(q) : q[j] # Alter(c)

\* Node n does not run c, or is stopping it, and will not start it; or it is
\* going to stop it.
Told(n, c) ==
  \/ (c \notin ops[n] \/ halting[n] = c) /\ NoAlter(toNode[First(n)], c)
  \/ Covered(toNode[First(n)], c)

\* A stop of c is in progress or over, and has not overtaken the start.
Over(c) == stopped[c] # "raced" /\ (c \notin DOMAIN computations \/ Ending(c))

\* Then every worker that runs operators of c is told, behind its start.
StopTold(c) ==
  Over(c) => /\ starters[c] = {}
             /\ \A n \in Nodes : First(n) \in plan[c].ops /\ n \notin ToTell(c) => Told(n, c)

\* What holds of a computation none of whose nodes was lost.
Clear(c) == Entered(c) /\ Held(c) /\ Finds(c) /\ StopTold(c)

\* Operators run where they were planned.
OpsInv ==
  /\ DOMAIN stopped = Comps /\ ops \in [Nodes -> SUBSET Comps]
  /\ \A n \in Nodes : \A c \in ops[n] : proc[n] \in plan[c].ops

\* RaisesNeedFault, for good.
RaisedInv == \A c \in raised : c \in Comps /\ Planned(c) /\ (Hit(c) \/ Assigned(c) = {})

\* The inductive invariant.
ControlInv ==
  /\ MapsInv /\ CubeInv /\ HomesInv /\ OpsInv /\ RaisedInv
  /\ \A c \in Comps : Hit(c) \/ Clear(c)

-----------------------------------------------------------------------------
(* Queues and the initial state.                                           *)

\* What is pushed and what was there belong to the same set.
LEMMA SeqPush ==
  ASSUME NEW S, NEW q \in Seq(S), NEW m \in S
  PROVE  Append(q, m) \in Seq(S)
  OBVIOUS

\* Popping leaves a queue over the same set.
LEMMA SeqPop ==
  ASSUME NEW S, NEW q \in Seq(S), q # <<>>
  PROVE  Tail(q) \in Seq(S) /\ Head(q) \in S
  OBVIOUS

\* A queue over a set is one over any larger set.
LEMMA SeqMonotone ==
  ASSUME NEW S, NEW T, S \subseteq T, NEW q \in Seq(S)
  PROVE  q \in Seq(T)
  OBVIOUS

\* At the start no node is entered.
LEMMA InitMaps == Init => MapsInv
  BY SMTT(20), Z3T(20), SMTT(30) DEF Init, MapsInv, LocalIsRegistered

-----------------------------------------------------------------------------
(* The maps, whatever is lost.                                             *)

\* worker_died, whichever thread calls it, removes the endpoint from both maps.
LEMMA WorkerDiedMaps ==
  ASSUME MapsInv, NEW e \in Endpoints, WorkerDied(e), handlers \ {e} \subseteq handlers'
  PROVE  MapsInv'
  BY DEF WorkerDied, MapsInv, LocalIsRegistered, Restrict, NodeOf

\* A connection that closes takes its worker with it.
LEMMA ConnectionGoneMaps ==
  ASSUME MapsInv, NEW e \in Endpoints, ConnectionGone(e)
  PROVE  MapsInv'
<1>1. CASE e \in DOMAIN workers
  BY <1>1, WorkerDiedMaps DEF ConnectionGone
<1>2. CASE e \notin DOMAIN workers
  BY <1>2 DEF ConnectionGone, registry, MapsInv, LocalIsRegistered
<1> QED BY <1>1, <1>2

\* No step leaves a node's entry behind.
LEMMA MapsStep == MapsInv /\ [Next]_vars => MapsInv'
<1> SUFFICES ASSUME MapsInv, [Next]_vars PROVE MapsInv'
  OBVIOUS
<1>1. ASSUME NEW e \in Endpoints, Heartbeat(e) PROVE MapsInv'
  BY <1>1 DEF Heartbeat, MapsInv, LocalIsRegistered, NodeOf, Endpoints
<1>2. ASSUME NEW e \in Endpoints, Timeout(e) PROVE MapsInv'
  BY <1>2, WorkerDiedMaps DEF Timeout
<1>3. ASSUME NEW e \in Endpoints, Closed(e) PROVE MapsInv'
  BY <1>3, ConnectionGoneMaps DEF Closed
<1>4. ASSUME NEW e \in Endpoints, Response(e) PROVE MapsInv'
  <2>1. ConnectionGone(e) \/ UNCHANGED <<workers, local, handlers>>
    BY <1>4 DEF Response
  <2> QED BY <2>1, ConnectionGoneMaps DEF MapsInv, LocalIsRegistered
<1>5. CASE DOMAIN workers' = DOMAIN workers /\ UNCHANGED local /\ handlers \subseteq handlers'
  BY <1>5 DEF MapsInv, LocalIsRegistered
<1>6. CASE AlterAssign \/ AlterRaises
  BY <1>5, <1>6 DEF AlterAssign, AlterRaises, Assign
<1>7. CASE StopSend
  BY <1>5, <1>7 DEF StopSend
<1>8. ASSUME NEW n \in Nodes, Restart(n) PROVE MapsInv'
  BY <1>5, <1>8 DEF Restart, registry
<1>9. CASE UNCHANGED <<workers, local, handlers>>
  BY <1>5, <1>9
<1>10. CASE AlterPlan \/ AlterNoPlan \/ StopRead \/ StopEnd \/ AlterBegin
  BY <1>9, <1>10 DEF AlterPlan, AlterNoPlan, StopRead, StopEnd, AlterBegin, registry
<1>11. ASSUME NEW n \in Nodes, StopLookup(n) PROVE MapsInv'
  BY <1>9, <1>11 DEF StopLookup, registry
<1>12. ASSUME NEW c \in Comps, StopBegin(c) \/ \E e \in Endpoints : StartSend(c, e) PROVE MapsInv'
  BY <1>9, <1>12 DEF StopBegin, StartSend, registry
<1>13. ASSUME NEW e \in Endpoints, NodeAlter(e) \/ NodeAlterFails(e) \/ NodeStop(e) PROVE MapsInv'
  BY <1>9, <1>13 DEF NodeAlter, NodeAlterFails, NodeStop, registry
<1>14. CASE UNCHANGED vars \/ \E n \in Nodes : NodeStopped(n)
  BY <1>9, <1>14 DEF vars, NodeStopped, registry
<1> QED
  BY <1>1, <1>2, <1>3, <1>4, <1>6, <1>7, <1>8, <1>10, <1>11, <1>12, <1>13, <1>14 DEF Next, LoopStep, NodeStep

-----------------------------------------------------------------------------
(* The types.                                                              *)

\* At the start nothing is registered or planned.
LEMMA InitTypes == Init => TypesInv
<1> SUFFICES ASSUME Init PROVE TypesInv
  OBVIOUS
<1>1. nextCompID = 1 /\ 1 \in 1 .. MaxComps + 1 /\ DOMAIN computations = {} /\ ev.pc = "idle"
  BY ControllerAssumption DEF Init, Idle
<1>2. handlers \subseteq Endpoints
  BY DEF Init, Endpoints
<1>3. TypeOK
  BY <1>1, <1>2 DEF Init, TypeOK, Assigned
<1> QED BY <1>1, <1>3 DEF Init, TypesInv

\* A step that touches neither the jobs nor the event loop.
LEMMA TypesFrame ==
  ASSUME TypesInv, UNCHANGED <<nextCompID, plan, ev>>, DOMAIN computations' = DOMAIN computations,
         DOMAIN workers' \subseteq Endpoints, \A e \in DOMAIN workers' : workers'[e] \subseteq Comps,
         local' \in [Nodes -> Endpoints \union {None}], cubeLoc' \in [Comps -> Nodes \union {None}],
         handlers' \subseteq Endpoints,
         DOMAIN starters' = Comps, \A c \in Comps : starters'[c] \subseteq starters[c]
  PROVE  TypesInv'
<1>1. TypeOK'
  <2>1. TypeOK /\ \A c \in Comps : Assigned(c)' = Assigned(c)
    BY DEF TypesInv, Assigned
  <2>2. \A c \in Comps : starters'[c] \subseteq Assigned(c)'
    BY SMTT(20), Z3T(20), SMTT(30), <2>1 DEF TypeOK
  <2>3. /\ DOMAIN computations' \subseteq 1 .. nextCompID' - 1
        /\ ev'.pc \in {"idle", "plan", "assign", "stop", "read", "send"}
        /\ ev'.pc # "idle" => ev'.comp \in DOMAIN computations'
    BY <2>1 DEF TypeOK
  <2> QED BY <2>2, <2>3 DEF TypeOK
<1>2. \A c \in Comps : c >= nextCompID' => starters'[c] = {}
  BY DEF TypesInv
<1>3. ev.pc = "plan" => ev.comp \in Comps
  BY SMTT(20), Z3T(20), SMTT(30), ControllerAssumption DEF TypesInv, TypeOK, Comps
<1> QED BY <1>1, <1>2, <1>3 DEF TypesInv

\* A worker that dies leaves the tables typed.
LEMMA WorkerDiedTypes ==
  ASSUME TypesInv, NEW e \in Endpoints, WorkerDied(e)
  PROVE  /\ DOMAIN workers' \subseteq Endpoints /\ \A d \in DOMAIN workers' : workers'[d] \subseteq Comps
         /\ local' \in [Nodes -> Endpoints \union {None}] /\ cubeLoc' \in [Comps -> Nodes \union {None}]
  BY DEF WorkerDied, TypesInv, TypeOK, Restrict, NodeOf

\* So does a connection that is gone.
LEMMA ConnectionGoneTypes ==
  ASSUME TypesInv, NEW e \in Endpoints, ConnectionGone(e)
  PROVE  /\ DOMAIN workers' \subseteq Endpoints /\ \A d \in DOMAIN workers' : workers'[d] \subseteq Comps
         /\ local' \in [Nodes -> Endpoints \union {None}] /\ cubeLoc' \in [Comps -> Nodes \union {None}]
         /\ handlers' \subseteq Endpoints
<1>1. CASE e \in DOMAIN workers
  BY <1>1, WorkerDiedTypes DEF ConnectionGone, TypesInv, TypeOK
<1>2. CASE e \notin DOMAIN workers
  BY <1>2 DEF ConnectionGone, registry, TypesInv, TypeOK
<1> QED BY <1>1, <1>2

\* The steps of the event loop that start a computation.
LEMMA AlterTypes ==
  ASSUME TypesInv, AlterBegin \/ AlterPlan \/ AlterNoPlan \/ AlterAssign \/ AlterRaises
  PROVE  TypesInv'
<1>0. /\ TypeOK /\ nextCompID \in Nat /\ DOMAIN computations \subseteq Comps
      /\ plan \in [Comps -> [ops : SUBSET Endpoints, cube : SUBSET Endpoints, bare : SUBSET Endpoints]]
      /\ DOMAIN starters = Comps
      /\ ev.pc # "idle" => ev.comp \in DOMAIN computations /\ ev.comp \in Comps /\ ev.comp < nextCompID
  BY SMTT(20), Z3T(20), SMTT(30), ControllerAssumption DEF TypesInv, TypeOK, Comps
<1>1. CASE AlterBegin
  <2>1. /\ ev' = [pc |-> "plan", comp |-> nextCompID] /\ nextCompID' = nextCompID + 1
        /\ nextCompID \in Comps /\ nextCompID' \in 1 .. MaxComps + 1
        /\ DOMAIN computations' = DOMAIN computations \union {nextCompID}
        /\ UNCHANGED <<workers, local, cubeLoc, plan, handlers, starters>>
    BY SMTT(20), Z3T(20), SMTT(30), <1>0, <1>1, ControllerAssumption DEF AlterBegin, registry, Comps, TypesInv
  <2>2. starters[nextCompID] = {} /\ \A c \in Comps : c >= nextCompID' => starters[c] = {}
    BY SMTT(20), Z3T(20), SMTT(30), <1>0, <2>1 DEF TypesInv, Comps
  <2>3. DOMAIN computations' \subseteq 1 .. nextCompID' - 1
    BY SMTT(20), Z3T(20), SMTT(30), <1>0, <2>1 DEF TypeOK, Comps
  <2>4. TypeOK'
    BY <1>0, <2>1, <2>3 DEF TypeOK, Assigned
  <2> QED BY <1>0, <2>1, <2>2, <2>4 DEF TypesInv
<1>2. CASE AlterPlan
  <2>1. PICK where, cube, bare \in SUBSET DOMAIN workers :
          plan' = [plan EXCEPT ![ev.comp] = [ops |-> where, cube |-> cube, bare |-> bare]]
    BY <1>2 DEF AlterPlan
  <2>2. /\ ev' = [pc |-> "assign", comp |-> ev.comp] /\ ev.pc = "plan" /\ starters[ev.comp] = {}
        /\ UNCHANGED <<workers, local, cubeLoc, computations, nextCompID, handlers, starters>>
    BY <1>2 DEF AlterPlan, registry, TypesInv
  <2>3. plan' \in [Comps -> [ops : SUBSET Endpoints, cube : SUBSET Endpoints, bare : SUBSET Endpoints]]
    BY <1>0, <2>1 DEF TypeOK
  <2>4. \A c \in Comps : c # ev.comp => Assigned(c)' = Assigned(c)
    BY <1>0, <2>1 DEF Assigned
  <2>5. TypeOK'
    BY SMTT(20), Z3T(20), SMTT(30), <1>0, <2>2, <2>4 DEF TypeOK
  <2> QED BY <1>0, <2>2, <2>3, <2>5 DEF TypesInv
<1>3. CASE AlterNoPlan
  <2>1. ev'.pc = "idle" /\ UNCHANGED <<workers, local, cubeLoc, computations, nextCompID, plan, handlers, starters>>
    BY <1>3 DEF AlterNoPlan, registry, jobs, Idle
  <2>2. TypeOK'
    BY <1>0, <2>1 DEF TypeOK, Assigned
  <2> QED BY <1>0, <2>1, <2>2 DEF TypesInv
<1>4. ASSUME NEW ns, NEW es, ev.pc = "assign", Assign(ev.comp, ns, es)
      PROVE  /\ DOMAIN computations' = DOMAIN computations
             /\ DOMAIN workers' \subseteq Endpoints /\ \A e \in DOMAIN workers' : workers'[e] \subseteq Comps
  BY <1>0, <1>4 DEF Assign, TypeOK
<1>5. CASE AlterAssign
  <2>1. /\ ev'.pc = "idle" /\ ev.pc = "assign" /\ UNCHANGED <<local, cubeLoc, nextCompID, plan, handlers>>
        /\ starters' = [starters EXCEPT ![ev.comp] = Assigned(ev.comp)]
        /\ \E ns, es : Assign(ev.comp, ns, es)
    BY <1>5 DEF AlterAssign, Idle
  <2>2. TypeOK'
    BY <1>0, <1>4, <2>1 DEF TypeOK, Assigned
  <2>3. \A c \in Comps : c >= nextCompID' => starters'[c] = {}
    BY SMTT(20), Z3T(20), SMTT(30), <1>0, <2>1 DEF TypesInv, Comps
  <2> QED BY <1>0, <2>1, <2>2, <2>3 DEF TypesInv
<1>6. CASE AlterRaises
  <2>1. /\ ev'.pc = "idle" /\ ev.pc = "assign" /\ UNCHANGED <<local, cubeLoc, nextCompID, plan, handlers, starters>>
        /\ \E ns, es : Assign(ev.comp, ns, es)
    BY <1>6 DEF AlterRaises, Idle
  <2>2. TypeOK'
    BY <1>0, <1>4, <2>1 DEF TypeOK, Assigned
  <2> QED BY <1>0, <2>1, <2>2 DEF TypesInv
<1> QED BY <1>1, <1>2, <1>3, <1>5, <1>6

\* The steps that stop one.
LEMMA StopTypes ==
  ASSUME TypesInv,
         (\E c \in Comps : StopBegin(c)) \/ (\E n \in Nodes : StopLookup(n)) \/ StopRead \/ StopSend \/ StopEnd
  PROVE  TypesInv'
<1>0. /\ TypeOK /\ nextCompID \in Nat /\ DOMAIN computations \subseteq Comps
      /\ ev.pc # "idle" => ev.comp \in DOMAIN computations /\ ev.comp \in Comps
  BY SMTT(20), Z3T(20), SMTT(30), ControllerAssumption DEF TypesInv, TypeOK, Comps
<1>1. ASSUME UNCHANGED <<local, cubeLoc, nextCompID, plan, handlers, starters>>,
             DOMAIN workers' = DOMAIN workers, \A e \in DOMAIN workers : workers'[e] \subseteq workers[e],
             DOMAIN computations' \subseteq DOMAIN computations,
             ev'.pc \in {"idle", "stop", "read", "send"}, ev'.pc # "idle" => ev'.comp \in DOMAIN computations',
             ev'.pc = "stop" => ev' = [pc |-> "stop", comp |-> ev'.comp, left |-> ev'.left],
             ev'.pc # "idle" => ev'.left \subseteq Nodes,
             ev'.pc = "read" => ev'.node \in Nodes, ev'.pc = "send" => ev'.to \in Endpoints
      PROVE  TypesInv'
  <2>1. TypeOK'
    BY <1>0, <1>1 DEF TypeOK, Assigned
  <2> QED BY <1>1, <2>1 DEF TypesInv
<1>2. ASSUME NEW c \in Comps, StopBegin(c) PROVE TypesInv'
  <2> DEFINE ns == {n \in DOMAIN computations[c] : \E e \in plan[c].ops : NodeOf(e) = n}
  <2>1. ns \subseteq Nodes
    BY DEF TypesInv, NodeOf, Endpoints
  <2>2. /\ ev' = [pc |-> "stop", comp |-> c, left |-> ns] /\ c \in DOMAIN computations
        /\ UNCHANGED <<workers, local, cubeLoc, computations, nextCompID, plan, handlers, starters>>
    BY <1>2 DEF StopBegin, registry, jobs
  <2> HIDE DEF ns
  <2> QED BY <1>1, <2>1, <2>2
<1>3. ASSUME NEW n \in Nodes, StopLookup(n) PROVE TypesInv'
  <2>1. /\ ev.pc = "stop" /\ ev = [pc |-> "stop", comp |-> ev.comp, left |-> ev.left]
        /\ UNCHANGED <<workers, local, cubeLoc, computations, nextCompID, plan, handlers, starters>>
        /\ \/ ev' = [ev EXCEPT !.left = @ \ {n}]
           \/ ev' = [pc |-> "read", comp |-> ev.comp, left |-> ev.left \ {n}, node |-> n]
        /\ ev.left \subseteq Nodes
    BY <1>3 DEF StopLookup, registry, jobs, TypesInv
  <2>2. ev' = [pc |-> "stop", comp |-> ev.comp, left |-> ev.left \ {n}]
        \/ ev' = [pc |-> "read", comp |-> ev.comp, left |-> ev.left \ {n}, node |-> n]
    BY <2>1
  <2>3. ev.left \ {n} \subseteq Nodes
    BY <2>1
  <2> QED BY <1>0, <1>1, <2>1, <2>2, <2>3
<1>6. CASE StopRead
  <2>1. /\ ev.pc = "read" /\ ev.left \subseteq Nodes /\ ev.node \in Nodes
        /\ UNCHANGED <<workers, local, cubeLoc, computations, nextCompID, plan, handlers, starters>>
        /\ \/ ev' = Idle
           \/ /\ local[ev.node] # None
              /\ ev' = [pc |-> "send", comp |-> ev.comp, left |-> ev.left, to |-> local[ev.node]]
    BY <1>6 DEF StopRead, registry, jobs, TypesInv
  <2>2. local[ev.node] # None => local[ev.node] \in Endpoints
    BY <1>0, <2>1 DEF TypeOK
  <2> QED BY <1>0, <1>1, <2>1, <2>2 DEF Idle
<1>4. CASE StopSend
  <2>1. /\ ev.pc = "send" /\ UNCHANGED <<local, cubeLoc, computations, nextCompID, plan, handlers, starters>>
        /\ workers' = workers \/ workers' = [workers EXCEPT ![ev.to] = @ \ {ev.comp}]
        /\ ev' = Idle \/ ev' = [pc |-> "stop", comp |-> ev.comp, left |-> ev.left]
        /\ ev.left \subseteq Nodes
    BY <1>4 DEF StopSend, jobs, TypesInv
  <2>2. DOMAIN workers' = DOMAIN workers /\ \A e \in DOMAIN workers : workers'[e] \subseteq workers[e]
    BY <2>1
  <2> QED BY SMTT(20), Z3T(20), SMTT(30), <1>0, <1>1, <2>1, <2>2 DEF Idle
<1>5. CASE StopEnd
  <2>1. /\ ev' = Idle /\ UNCHANGED <<workers, local, cubeLoc, nextCompID, plan, handlers, starters>>
        /\ DOMAIN computations' \subseteq DOMAIN computations
    BY <1>5 DEF StopEnd, registry, Restrict
  <2> QED BY <1>1, <2>1 DEF Idle
<1> QED BY <1>2, <1>3, <1>4, <1>5, <1>6

\* Every step keeps the types.
LEMMA TypesStep == TypesInv /\ [Next]_vars => TypesInv'
<1> SUFFICES ASSUME TypesInv, [Next]_vars PROVE TypesInv'
  OBVIOUS
<1>0. /\ DOMAIN workers \subseteq Endpoints /\ \A e \in DOMAIN workers : workers[e] \subseteq Comps
      /\ local \in [Nodes -> Endpoints \union {None}] /\ cubeLoc \in [Comps -> Nodes \union {None}]
      /\ handlers \subseteq Endpoints /\ DOMAIN starters = Comps
  BY DEF TypesInv, TypeOK
<1>1. ASSUME NEW e \in Endpoints, Heartbeat(e) PROVE TypesInv'
  <2>1. /\ UNCHANGED <<computations, nextCompID, plan, ev, handlers, starters, cubeLoc>>
        /\ DOMAIN workers' \subseteq Endpoints /\ \A d \in DOMAIN workers' : workers'[d] \subseteq Comps
        /\ local' \in [Nodes -> Endpoints \union {None}]
    BY <1>0, <1>1 DEF Heartbeat, jobs, loop
  <2> QED BY <1>0, <2>1, TypesFrame
<1>2. ASSUME NEW e \in Endpoints, Timeout(e) PROVE TypesInv'
  <2>1. UNCHANGED <<computations, nextCompID, plan, ev, handlers, starters>> /\ WorkerDied(e)
    BY <1>2 DEF Timeout, jobs, loop
  <2> QED BY <1>0, <2>1, WorkerDiedTypes, TypesFrame
<1>3. ASSUME NEW e \in Endpoints, Closed(e) PROVE TypesInv'
  <2>1. UNCHANGED <<computations, nextCompID, plan, ev, starters>> /\ ConnectionGone(e)
    BY <1>3 DEF Closed, jobs, loop
  <2> QED BY <1>0, <2>1, ConnectionGoneTypes, TypesFrame
<1>4. ASSUME NEW e \in Endpoints, Response(e) PROVE TypesInv'
  <2>1. UNCHANGED <<nextCompID, plan, ev, starters>>
    BY <1>4 DEF Response, loop
  <2>2. CASE ConnectionGone(e) /\ UNCHANGED computations
    BY <1>0, <2>1, <2>2, ConnectionGoneTypes, TypesFrame
  <2>3. CASE /\ Record(e, Head(toCtl[e])) \/ UNCHANGED <<computations, cubeLoc>>
             /\ UNCHANGED <<workers, local, handlers>>
    <3>1. DOMAIN computations' = DOMAIN computations /\ cubeLoc' \in [Comps -> Nodes \union {None}]
      BY ZenonT(20), <1>0, <2>3 DEF Record, NodeOf, Endpoints
    <3> QED BY <1>0, <2>1, <2>3, <3>1, TypesFrame
  <2> QED BY <1>4, <2>2, <2>3 DEF Response
<1>5. ASSUME NEW c \in Comps, NEW e \in Endpoints, StartSend(c, e) PROVE TypesInv'
  <2>1. /\ UNCHANGED <<workers, local, cubeLoc, computations, nextCompID, plan, ev, handlers>>
        /\ DOMAIN starters' = Comps /\ \A d \in Comps : starters'[d] \subseteq starters[d]
    BY SMTT(20), Z3T(20), SMTT(30), <1>0, <1>5 DEF StartSend, registry, jobs, loop
  <2> QED BY <1>0, <2>1, TypesFrame
<1>6. ASSUME NEW n \in Nodes, Restart(n) PROVE TypesInv'
  <2>1. /\ UNCHANGED <<workers, local, cubeLoc, computations, nextCompID, plan, ev, starters>>
        /\ handlers' \subseteq Endpoints
    BY <1>0, <1>6 DEF Restart, registry, jobs, loop
  <2> QED BY <1>0, <2>1, TypesFrame
<1>7. CASE \/ \E e \in Endpoints : NodeAlter(e) \/ NodeAlterFails(e) \/ NodeStop(e)
           \/ \E n \in Nodes : NodeStopped(n)
           \/ UNCHANGED vars
  <2>1. UNCHANGED <<workers, local, cubeLoc, computations, nextCompID, plan, ev, handlers, starters>>
    BY <1>7 DEF NodeAlter, NodeAlterFails, NodeStop, NodeStopped, vars, registry, jobs, loop
  <2> QED BY <1>0, <2>1, TypesFrame
<1> QED BY <1>1, <1>2, <1>3, <1>4, <1>5, <1>6, <1>7, AlterTypes, StopTypes DEF Next, LoopStep, NodeStep

-----------------------------------------------------------------------------
(* Messages and listed cubes.                                              *)

\* What no step undoes: the loss of a node, a plan that was made, and a cube
\* unless its node's process is replaced.
Kept ==
  /\ lost \subseteq lost'
  /\ \A c \in Comps : Planned(c) => Planned(c)' /\ plan'[c] = plan[c]
  /\ cubes' \in [Nodes -> SUBSET Comps] /\ proc' \in [Nodes -> Endpoints]
  /\ \A n \in Nodes : NodeOf(proc'[n]) = n
  /\ \A n \in Nodes : proc[n] # First(n) \/ ~(cubes[n] \subseteq cubes'[n]) => proc'[n] # First(n)

\* Every step leaves them.
LEMMA KeptStep == CubeInv /\ [Next]_vars => Kept
<1> SUFFICES ASSUME CubeInv, [Next]_vars PROVE Kept
  OBVIOUS
<1>0. /\ nextCompID \in Nat /\ DOMAIN plan = Comps
      /\ cubes \in [Nodes -> SUBSET Comps] /\ proc \in [Nodes -> Endpoints]
      /\ \A n \in Nodes : NodeOf(proc[n]) = n
  BY SMTT(20), Z3T(20), SMTT(30) DEF CubeInv, TypesInv
<1>a. lost \subseteq lost'
  BY DEF Next, LoopStep, NodeStep, AlterBegin, AlterPlan, AlterNoPlan, AlterAssign, AlterRaises, StopBegin,
         StopLookup, StopRead, StopSend, StopEnd, Heartbeat, Timeout, Closed, Response, ConnectionGone,
         WorkerDied, StartSend, NodeAlter, NodeAlterFails, NodeStop, NodeStopped, Restart, vars
<1> DEFINE Plans == \A c \in Comps : Planned(c) => Planned(c)' /\ plan'[c] = plan[c]
           Cubes == /\ cubes' \in [Nodes -> SUBSET Comps] /\ proc' \in [Nodes -> Endpoints]
                    /\ \A n \in Nodes : NodeOf(proc'[n]) = n
                    /\ \A n \in Nodes : proc[n] # First(n) \/ ~(cubes[n] \subseteq cubes'[n]) => proc'[n] # First(n)
<1>1. ASSUME UNCHANGED <<nextCompID, plan>>, ev' = ev \/ ev'.pc # "plan" PROVE Plans
  BY <1>1 DEF Planned
<1>2. ASSUME UNCHANGED proc, cubes' \in [Nodes -> SUBSET Comps], \A n \in Nodes : cubes[n] \subseteq cubes'[n]
      PROVE  Cubes
  BY <1>0, <1>2
<1>3. ASSUME UNCHANGED <<cubes, proc>> PROVE Cubes
  BY <1>0, <1>2, <1>3
<1>4. CASE AlterBegin
  <2>1. nextCompID' = nextCompID + 1 /\ ev'.comp = nextCompID /\ UNCHANGED <<plan, cubes, proc>>
    BY <1>4 DEF AlterBegin, nodes
  <2>2. Plans
    BY <1>0, <2>1 DEF Planned, Comps
  <2> QED BY <1>a, <1>3, <2>1, <2>2 DEF Kept
<1>5. CASE AlterPlan
  <2>1. /\ UNCHANGED <<nextCompID, cubes, proc>> /\ ev'.pc = "assign" /\ ev.pc = "plan"
        /\ \E x : plan' = [plan EXCEPT ![ev.comp] = x]
    BY <1>5 DEF AlterPlan, nodes, CubeInv, TypesInv
  <2>2. Plans
    BY <1>0, <2>1 DEF Planned
  <2> QED BY <1>a, <1>3, <2>1, <2>2 DEF Kept
<1>6. CASE AlterNoPlan \/ AlterAssign \/ AlterRaises \/ StopEnd
  <2>1. UNCHANGED <<nextCompID, plan, cubes, proc>> /\ ev'.pc # "plan"
    BY SMTT(20), Z3T(20), SMTT(30), <1>6 DEF AlterNoPlan, AlterAssign, AlterRaises, StopEnd, nodes, jobs, Idle
  <2> QED BY <1>a, <1>1, <1>3, <2>1 DEF Kept
<1>7. CASE StopRead \/ StopSend \/ (\E c \in Comps : StopBegin(c)) \/ \E n \in Nodes : StopLookup(n)
  <2>1. UNCHANGED <<nextCompID, plan, cubes, proc>>
    BY <1>7 DEF StopRead, StopSend, StopBegin, StopLookup, nodes, jobs
  <2>2. ev'.pc # "plan"
    BY SMTT(20), Z3T(20), SMTT(30), <1>7 DEF StopRead, StopSend, StopBegin, StopLookup, Idle, CubeInv, TypesInv
  <2> QED BY <1>a, <1>1, <1>3, <2>1, <2>2 DEF Kept
<1>8. CASE \/ \E e \in Endpoints : Heartbeat(e) \/ Timeout(e) \/ Closed(e) \/ Response(e) \/ NodeStop(e)
           \/ \E n \in Nodes : NodeStopped(n)
           \/ \E c \in Comps, e \in Endpoints : StartSend(c, e)
           \/ UNCHANGED vars
  <2>1. UNCHANGED <<nextCompID, plan, ev, cubes, proc>>
    BY <1>8 DEF Heartbeat, Timeout, Closed, Response, NodeStop, NodeStopped, StartSend, vars, nodes, jobs, loop
  <2> QED BY <1>a, <1>1, <1>3, <2>1 DEF Kept
<1>9. ASSUME NEW e \in Endpoints, NodeAlter(e) \/ NodeAlterFails(e) PROVE Kept
  <2>1. UNCHANGED <<nextCompID, plan, ev, proc>> /\ Head(toNode[e]).comp \in Comps
    <3>1. toNode[e] \in Seq(RequestsFor(e)) /\ toNode[e] # <<>>
      BY <1>9 DEF NodeAlter, NodeAlterFails, Received, CubeInv
    <3>2. Head(toNode[e]) \in Requests
      BY <3>1, SeqPop DEF RequestsFor
    <3> QED BY <1>9, <3>2 DEF NodeAlter, NodeAlterFails, jobs, loop, Requests
  <2>2. \/ cubes' = cubes
        \/ cubes' = [cubes EXCEPT ![NodeOf(e)] = @ \union {Head(toNode[e]).comp}]
    BY <1>0, <1>9 DEF NodeAlter, NodeAlterFails
  <2>3. cubes' \in [Nodes -> SUBSET Comps] /\ \A n \in Nodes : cubes[n] \subseteq cubes'[n]
    BY ZenonT(20), <1>0, <2>1, <2>2
  <2> QED BY <1>a, <1>1, <1>2, <2>1, <2>3 DEF Kept
<1>10. ASSUME NEW n \in Nodes, Restart(n) PROVE Kept
  <2>1. /\ UNCHANGED <<nextCompID, plan, ev>> /\ <<n, proc[n][2] + 1>> \in Endpoints
        /\ proc' = [proc EXCEPT ![n] = <<n, proc[n][2] + 1>>] /\ cubes' = [cubes EXCEPT ![n] = {}]
    BY <1>10 DEF Restart, jobs, loop
  <2>2. <<n, proc[n][2] + 1>> # First(n) /\ NodeOf(<<n, proc[n][2] + 1>>) = n
    <3>1. proc[n][2] \in 1 .. 2
      BY <1>0 DEF Endpoints
    <3>2. proc[n][2] + 1 # 1
      BY <3>1
    <3> QED BY <3>2 DEF First, NodeOf
  <2>3. Cubes
    BY <1>0, <2>1, <2>2
  <2> QED BY <1>a, <1>1, <2>1, <2>3 DEF Kept
<1> QED BY <1>4, <1>5, <1>6, <1>7, <1>8, <1>9, <1>10 DEF Next, LoopStep, NodeStep

\* A computation that lost a node stays so, and who was reached stays reached.
LEMMA HitKept ==
  ASSUME CubeInv, Kept, NEW c \in Comps
  PROVE  /\ Hit(c) => Hit(c)'
         /\ Planned(c) => Assigned(c)' = Assigned(c)
         /\ \A e : Planned(c) /\ Reached(c, e) => Reached(c, e)'
<1>1. Planned(c) => Assigned(c)' = Assigned(c)
  BY DEF Kept, Assigned
<1>2. Hit(c) => Planned(c)
  BY DEF CubeInv, Hit
<1>3. Hit(c) => Hit(c)'
  BY <1>1, <1>2 DEF Hit, Kept
<1> QED BY <1>1, <1>3 DEF Reached

\* So a message that was sound stays so.
LEMMA SoundGrow ==
  ASSUME CubeInv, Kept
  PROVE  \A e \in Endpoints : RequestsFor(e) \subseteq RequestsFor(e)' /\ RepliesFor(e) \subseteq RepliesFor(e)'
<1>1. \A e \in Endpoints : RequestsFor(e) \subseteq RequestsFor(e)'
  BY HitKept DEF Kept, RequestsFor, Requests
<1>2. ASSUME NEW e \in Endpoints, NEW c \in Comps, Planned(c), Created(c, e) PROVE Created(c, e)'
  BY <1>2 DEF Kept, Created, CubeOn, NodeOf, Endpoints
<1> QED BY <1>1, <1>2, HitKept DEF RepliesFor, Replies, Kept

\* cube_locations is set only by a reply that says the truth.
LEMMA ListedStep ==
  ASSUME CubeInv, Kept, [Next]_vars
  PROVE  ListedCubeExists'
<1>0. cubeLoc \in [Comps -> Nodes \union {None}]
  BY DEF CubeInv, TypesInv, TypeOK
<1>1. ASSUME \A c \in Comps : cubeLoc'[c] # None => cubeLoc'[c] = cubeLoc[c]
      PROVE  ListedCubeExists'
  <2> SUFFICES ASSUME NEW c \in Comps, cubeLoc'[c] # None
               PROVE  c \in cubes'[cubeLoc'[c]] \/ proc'[cubeLoc'[c]] # <<cubeLoc'[c], 1>>
    BY DEF ListedCubeExists
  <2>1. cubeLoc'[c] = cubeLoc[c] /\ cubeLoc[c] # None /\ cubeLoc[c] \in Nodes
    BY <1>0, <1>1
  <2>2. c \in cubes[cubeLoc[c]] \/ proc[cubeLoc[c]] # First(cubeLoc[c])
    BY <2>1 DEF CubeInv, ListedCubeExists, First
  <2> QED BY <2>1, <2>2 DEF Kept, First
<1>2. CASE AlterBegin \/ AlterPlan \/ AlterNoPlan \/ AlterAssign \/ AlterRaises \/ StopEnd \/ StopRead
           \/ StopSend \/ UNCHANGED vars
  <2>1. UNCHANGED cubeLoc
    BY <1>2 DEF AlterBegin, AlterPlan, AlterNoPlan, AlterAssign, AlterRaises, StopEnd, StopRead, StopSend, vars,
                registry
  <2> QED BY <1>1, <2>1
<1>3. CASE \/ \E c \in Comps : StopBegin(c) \/ \E e \in Endpoints : StartSend(c, e)
           \/ \E n \in Nodes : StopLookup(n) \/ NodeStopped(n) \/ Restart(n)
           \/ \E e \in Endpoints : Heartbeat(e) \/ NodeAlter(e) \/ NodeAlterFails(e) \/ NodeStop(e)
  <2>1. UNCHANGED cubeLoc
    BY <1>3 DEF StopBegin, StartSend, StopLookup, Restart, Heartbeat, NodeAlter, NodeAlterFails, NodeStop,
                NodeStopped, registry
  <2> QED BY <1>1, <2>1
<1>4. ASSUME NEW e \in Endpoints, WorkerDied(e) PROVE ListedCubeExists'
  BY <1>0, <1>1, <1>4 DEF WorkerDied
<1>5. ASSUME NEW e \in Endpoints, ConnectionGone(e) PROVE ListedCubeExists'
  BY <1>1, <1>4, <1>5 DEF ConnectionGone, registry
<1>6. ASSUME NEW e \in Endpoints, Timeout(e) \/ Closed(e) PROVE ListedCubeExists'
  BY <1>4, <1>5, <1>6 DEF Timeout, Closed
<1>7. ASSUME NEW e \in Endpoints, Response(e) PROVE ListedCubeExists'
  <2> DEFINE m == Head(toCtl[e])
  <2>1. m \in RepliesFor(e) /\ m \in RepliesFor(e)'
    BY <1>7, SeqPop, SoundGrow DEF Response, CubeInv
  <2> HIDE DEF m
  <2>2. ConnectionGone(e) \/ UNCHANGED cubeLoc \/ Record(e, m)
    BY <1>7 DEF Response, m
  <2>3. CASE Record(e, m) /\ m.type = "STARTED" /\ CubeOn(m.comp, e)
    <3>1. m.comp \in Comps /\ NodeOf(e) \in Nodes
      BY <2>1 DEF RepliesFor, Replies, NodeOf, Endpoints
    <3>2. m.comp \in cubes[NodeOf(e)] \/ proc[NodeOf(e)] # First(NodeOf(e))
      BY <2>1, <2>3 DEF RepliesFor, Created
    <3>3. m.comp \in cubes'[NodeOf(e)] \/ proc'[NodeOf(e)] # First(NodeOf(e))
      BY <3>1, <3>2 DEF Kept
    <3>4. cubeLoc' = [cubeLoc EXCEPT ![m.comp] = NodeOf(e)]
      BY <2>3 DEF Record
    <3> SUFFICES ASSUME NEW c \in Comps, cubeLoc'[c] # None
                 PROVE  c \in cubes'[cubeLoc'[c]] \/ proc'[cubeLoc'[c]] # <<cubeLoc'[c], 1>>
      BY DEF ListedCubeExists
    <3>5. CASE c = m.comp
      BY <1>0, <3>3, <3>4, <3>5 DEF First
    <3>6. CASE c # m.comp
      <4>1. cubeLoc'[c] = cubeLoc[c] /\ cubeLoc[c] # None /\ cubeLoc[c] \in Nodes
        BY <1>0, <3>4, <3>6
      <4>2. c \in cubes[cubeLoc[c]] \/ proc[cubeLoc[c]] # First(cubeLoc[c])
        BY <4>1 DEF CubeInv, ListedCubeExists, First
      <4> QED BY <4>1, <4>2 DEF Kept, First
    <3> QED BY <3>5, <3>6
  <2>4. CASE Record(e, m) /\ ~(m.type = "STARTED" /\ CubeOn(m.comp, e))
    <3>1. \A c \in Comps : cubeLoc'[c] = cubeLoc[c]
      BY <1>0, <2>4 DEF Record
    <3> QED BY <1>1, <3>1
  <2> QED BY <1>1, <1>5, <2>2, <2>3, <2>4
<1> QED BY <1>2, <1>3, <1>6, <1>7 DEF Next, LoopStep, NodeStep

\* What is posted is sound when it is posted.
LEMMA QueuesStep ==
  ASSUME CubeInv, Kept, [Next]_vars, ev.pc = "send" => Reached(ev.comp, ev.to)
  PROVE  /\ DOMAIN toNode' = Endpoints /\ \A e \in Endpoints : toNode'[e] \in Seq(RequestsFor(e)')
         /\ DOMAIN toCtl' = Endpoints /\ \A e \in Endpoints : toCtl'[e] \in Seq(RepliesFor(e)')
<1> DEFINE Asked == DOMAIN toNode' = Endpoints /\ \A e \in Endpoints : toNode'[e] \in Seq(RequestsFor(e)')
           Answered == DOMAIN toCtl' = Endpoints /\ \A e \in Endpoints : toCtl'[e] \in Seq(RepliesFor(e)')
<1>0. /\ DOMAIN toNode = Endpoints /\ \A e \in Endpoints : toNode[e] \in Seq(RequestsFor(e)')
      /\ DOMAIN toCtl = Endpoints /\ \A e \in Endpoints : toCtl[e] \in Seq(RepliesFor(e)')
  BY SoundGrow, SeqMonotone DEF CubeInv
<1>1. ASSUME NEW x \in Endpoints, NEW m \in RequestsFor(x)', toNode' = [toNode EXCEPT ![x] = Append(@, m)]
      PROVE  Asked
  BY <1>0, <1>1, SeqPush
<1>2. ASSUME NEW e \in Endpoints, toNode[e] # <<>>, toNode' = [toNode EXCEPT ![e] = Tail(@)] PROVE Asked
  BY <1>0, <1>2, SeqPop
<1>3. ASSUME NEW e \in Endpoints, NEW m \in RepliesFor(e)', Reply(e, m) PROVE Answered
  <2>1. Append(toCtl[e], m) \in Seq(RepliesFor(e)')
    BY <1>0, <1>3, SeqPush
  <2> QED BY <1>0, <1>3, <2>1 DEF Reply
<1>4. ASSUME NEW e \in Endpoints, toCtl[e] # <<>>, toCtl' = [toCtl EXCEPT ![e] = Tail(@)] PROVE Answered
  BY <1>0, <1>4, SeqPop
<1>5. ASSUME NEW e \in Endpoints, ConnectionGone(e) PROVE Answered
  <2>1. toCtl' = [toCtl EXCEPT ![e] = <<>>] /\ <<>> \in Seq(RepliesFor(e)')
    BY <1>5 DEF ConnectionGone
  <2> QED BY <1>0, <2>1
<1>6. UNCHANGED toNode => Asked
  BY <1>0
<1>7. UNCHANGED toCtl => Answered
  BY <1>0
<1> HIDE DEF Asked, Answered
<1>8. CASE \/ AlterBegin \/ AlterPlan \/ AlterNoPlan \/ AlterAssign \/ AlterRaises \/ StopEnd \/ UNCHANGED vars
           \/ StopRead \/ \E c \in Comps : StopBegin(c)
           \/ \E n \in Nodes : StopLookup(n) \/ Restart(n)
           \/ \E e \in Endpoints : Heartbeat(e) \/ Timeout(e)
  <2>1. UNCHANGED <<toNode, toCtl>>
    BY <1>8 DEF AlterBegin, AlterPlan, AlterNoPlan, AlterAssign, AlterRaises, StopEnd, StopBegin, StopLookup,
                StopRead, Restart, Heartbeat, Timeout, vars, wires
  <2> QED BY <1>6, <1>7, <2>1 DEF Asked, Answered
<1>9. CASE StopSend
  <2>1. ev.comp \in Comps /\ Planned(ev.comp) /\ ev.to \in Endpoints /\ Reached(ev.comp, ev.to)
    BY SMTT(20), Z3T(20), SMTT(30), <1>9, ControllerAssumption DEF StopSend, CubeInv, TypesInv, TypeOK, Planned, Comps
  <2>2. PICK c \in Comps, e \in Endpoints : c = ev.comp /\ e = ev.to
    BY <2>1
  <2>3. [type |-> "STOP", comp |-> c] \in RequestsFor(e)
    BY <2>1, <2>2 DEF RequestsFor, Requests
  <2>4. [type |-> "STOP", comp |-> c] \in RequestsFor(e)'
    BY <2>3, SoundGrow
  <2>5. toNode' = [toNode EXCEPT ![e] = Append(@, [type |-> "STOP", comp |-> c])] /\ UNCHANGED toCtl
    BY <1>9, <2>2 DEF StopSend
  <2>6. Asked
    BY <1>1, <2>4, <2>5
  <2>7. Answered
    BY <1>7, <2>5
  <2> QED BY <2>6, <2>7 DEF Asked, Answered
<1>10. ASSUME NEW c \in Comps, NEW e \in Endpoints, StartSend(c, e) PROVE Asked /\ Answered
  <2>1. Planned(c) /\ Reached(c, e)
    BY <1>10 DEF StartSend, CubeInv, TypesInv, TypeOK, Reached
  <2>2. [type |-> "ALTER", comp |-> c] \in RequestsFor(e)
    BY <2>1 DEF RequestsFor, Requests
  <2>3. [type |-> "ALTER", comp |-> c] \in RequestsFor(e)'
    BY <2>2, SoundGrow
  <2> QED BY <1>1, <1>6, <1>7, <1>10, <2>3 DEF StartSend
<1>11. ASSUME NEW e \in Endpoints, Closed(e) PROVE Asked /\ Answered
  BY <1>5, <1>6, <1>11 DEF Closed
<1>12. ASSUME NEW e \in Endpoints, Response(e) PROVE Asked /\ Answered
  BY <1>4, <1>5, <1>6, <1>12 DEF Response
<1>13. ASSUME NEW e \in Endpoints, NEW ty \in {"ALTER", "STOP"}, Received(e, ty)
       PROVE  Asked /\ \E c \in Comps : c = Head(toNode[e]).comp /\ Planned(c)' /\ Reached(c, e)'
  <2>1. toNode[e] \in Seq(RequestsFor(e)) /\ toNode[e] # <<>>
    BY <1>13 DEF Received, CubeInv
  <2>2. Head(toNode[e]) \in RequestsFor(e)
    BY <2>1, SeqPop
  <2>3. PICK c \in Comps : c = Head(toNode[e]).comp /\ Planned(c) /\ Reached(c, e)
    BY <2>2 DEF RequestsFor, Requests
  <2>4. Planned(c)' /\ Reached(c, e)'
    BY <2>3, HitKept DEF Kept
  <2> QED BY <1>2, <1>13, <2>1, <2>3, <2>4 DEF Received
<1>14. ASSUME NEW e \in Endpoints, NodeAlter(e) PROVE Asked /\ Answered
  <2>1. Asked /\ \E c \in Comps : c = Head(toNode[e]).comp /\ Planned(c)' /\ Reached(c, e)'
    BY <1>13, <1>14 DEF NodeAlter
  <2>a. PICK c \in Comps : c = Head(toNode[e]).comp /\ Planned(c)' /\ Reached(c, e)'
    BY <2>1
  <2>2. Created(c, e)'
    BY <1>14, <2>a DEF NodeAlter, Created, CubeOn, CubeInv, NodeOf, Endpoints, jobs
  <2>3. [type |-> "STARTED", comp |-> c] \in RepliesFor(e)'
    BY <2>a, <2>2 DEF RepliesFor, Replies
  <2> QED BY <1>3, <1>14, <2>a, <2>1, <2>3 DEF NodeAlter
<1>15. ASSUME NEW e \in Endpoints, NodeAlterFails(e) PROVE Asked /\ Answered
  <2>1. Asked /\ \E c \in Comps : c = Head(toNode[e]).comp /\ Planned(c)' /\ Reached(c, e)'
    BY <1>13, <1>15 DEF NodeAlterFails
  <2>a. PICK c \in Comps : c = Head(toNode[e]).comp /\ Planned(c)' /\ Reached(c, e)'
    BY <2>1
  <2>2. [type |-> "ERROR", comp |-> c] \in RepliesFor(e)'
    BY <2>a DEF RepliesFor, Replies
  <2> QED BY <1>3, <1>15, <2>a, <2>1, <2>2 DEF NodeAlterFails
<1>16. ASSUME NEW e \in Endpoints, NodeStop(e) PROVE Asked /\ Answered
  BY <1>7, <1>13, <1>16 DEF NodeStop
<1>a. ASSUME NEW n \in Nodes, NodeStopped(n) PROVE Asked /\ Answered
  <2>1. /\ UNCHANGED toNode /\ halting[n] \in Comps /\ proc[n] \in Endpoints
        /\ Planned(halting[n]) /\ Reached(halting[n], proc[n])
    BY <1>a DEF NodeStopped, CubeInv, HaltsPlanned
  <2>2. PICK c \in Comps, e \in Endpoints : c = halting[n] /\ e = proc[n]
    BY <2>1
  <2>3. [type |-> "STOPPED", comp |-> c] \in RepliesFor(e)
    BY <2>1, <2>2 DEF RepliesFor, Replies
  <2>4. [type |-> "STOPPED", comp |-> c] \in RepliesFor(e)'
    BY <2>3, SoundGrow
  <2>5. Reply(e, [type |-> "STOPPED", comp |-> c])
    BY <1>a, <2>2 DEF NodeStopped
  <2> QED BY <1>3, <1>6, <2>1, <2>4, <2>5
<1>17. Asked /\ Answered
  BY <1>8, <1>9, <1>10, <1>11, <1>12, <1>14, <1>15, <1>16, <1>a DEF Next, LoopStep, NodeStep, Asked, Answered
<1> QED BY <1>17 DEF Asked, Answered

\* A thread is started for a computation whose plan is made.
LEMMA StartersStep ==
  ASSUME CubeInv, Kept, [Next]_vars
  PROVE  \A c \in Comps : starters'[c] # {} => Planned(c)'
<1>1. ASSUME \A c \in Comps : starters'[c] # {} => starters[c] # {} \/ Planned(c)
      PROVE  \A c \in Comps : starters'[c] # {} => Planned(c)'
  BY <1>1 DEF CubeInv, Kept
<1>2. DOMAIN starters = Comps
  BY DEF CubeInv, TypesInv
<1>3. CASE AlterAssign
  <2>1. Planned(ev.comp)
    BY SMTT(20), Z3T(20), SMTT(30), <1>3 DEF AlterAssign, CubeInv, TypesInv, TypeOK, Planned
  <2> QED BY <1>1, <1>2, <1>3, <2>1 DEF AlterAssign
<1>4. ASSUME NEW c \in Comps, NEW e \in Endpoints, StartSend(c, e)
      PROVE  \A d \in Comps : starters'[d] # {} => starters[d] # {} \/ Planned(d)
  BY <1>2, <1>4 DEF StartSend
<1>5. CASE UNCHANGED starters
  BY <1>1, <1>5
<1>6. CASE \/ AlterBegin \/ AlterPlan \/ AlterNoPlan \/ AlterRaises \/ StopSend \/ StopEnd \/ UNCHANGED vars
           \/ \E c \in Comps : StopBegin(c)
           \/ StopRead \/ \E n \in Nodes : StopLookup(n) \/ NodeStopped(n) \/ Restart(n)
  <2>1. UNCHANGED starters
    BY <1>6 DEF AlterBegin, AlterPlan, AlterNoPlan, AlterRaises, StopSend, StopEnd, StopBegin, StopLookup,
                StopRead, NodeStopped, Restart, vars
  <2> QED BY <1>5, <2>1
<1>7. CASE \E e \in Endpoints : \/ Heartbeat(e) \/ Timeout(e) \/ Closed(e) \/ Response(e)
                                \/ NodeAlter(e) \/ NodeAlterFails(e) \/ NodeStop(e)
  <2>1. UNCHANGED starters
    BY <1>7 DEF Heartbeat, Timeout, Closed, Response, NodeAlter, NodeAlterFails, NodeStop
  <2> QED BY <1>5, <2>1
<1> QED BY <1>1, <1>3, <1>4, <1>6, <1>7 DEF Next, LoopStep, NodeStep

\* A plan is made once, for a computation that had none.
LEMMA PlansStep ==
  ASSUME CubeInv, Kept, [Next]_vars
  PROVE  \A c \in Comps : ~Planned(c)' => Assigned(c)' = {}
<1> SUFFICES ASSUME NEW c \in Comps, ~Planned(c)' PROVE Assigned(c)' = {}
  OBVIOUS
<1>1. ~Planned(c) /\ Assigned(c) = {}
  BY DEF Kept, CubeInv
<1>2. CASE AlterPlan
  <2>1. /\ UNCHANGED nextCompID /\ ev'.pc = "assign" /\ ev.pc = "plan" /\ DOMAIN plan = Comps
        /\ \E x : plan' = [plan EXCEPT ![ev.comp] = x]
    BY <1>2 DEF AlterPlan, CubeInv, TypesInv
  <2>2. ev.comp \in Comps /\ ev.comp < nextCompID
    BY SMTT(20), Z3T(20), SMTT(30), <2>1, ControllerAssumption DEF CubeInv, TypesInv, TypeOK, Comps
  <2>3. c # ev.comp
    BY <2>1, <2>2 DEF Planned
  <2> QED BY <1>1, <2>1, <2>3 DEF Assigned
<1>3. CASE UNCHANGED plan
  BY <1>1, <1>3 DEF Assigned
<1>4. ~AlterPlan => UNCHANGED plan
  BY DEF Next, LoopStep, NodeStep, AlterBegin, AlterNoPlan, AlterAssign, AlterRaises, StopBegin,
         StopLookup, StopRead, StopSend, StopEnd, Heartbeat, Timeout, Closed, Response,
         StartSend, NodeAlter, NodeAlterFails, NodeStop, NodeStopped, Restart, vars, jobs
<1> QED BY <1>2, <1>3, <1>4

\* The STOP that a node takes was sent to its process.
LEMMA HaltingStep ==
  ASSUME CubeInv, Kept, [Next]_vars
  PROVE  halting' \in [Nodes -> Comps \union {None}] /\ HaltsPlanned'
<1>0. halting \in [Nodes -> Comps \union {None}] /\ proc \in [Nodes -> Endpoints]
  BY DEF CubeInv
<1>1. ASSUME NEW n \in Nodes, halting'[n] = halting[n], proc'[n] = proc[n], halting'[n] # None
      PROVE  (Planned(halting[n]) /\ Reached(halting[n], proc[n]))'
  <2>1. PICK c \in Comps, e \in Endpoints : c = halting[n] /\ e = proc[n] /\ Planned(c) /\ Reached(c, e)
    BY <1>0, <1>1 DEF CubeInv, HaltsPlanned
  <2>2. Planned(c)' /\ Reached(c, e)'
    BY <2>1, HitKept DEF Kept
  <2> QED BY <1>1, <2>1, <2>2
<1>2. CASE UNCHANGED <<proc, halting>>
  BY <1>0, <1>1, <1>2 DEF HaltsPlanned
<1>3. ASSUME NEW e \in Endpoints, NodeStop(e) PROVE halting' \in [Nodes -> Comps \union {None}] /\ HaltsPlanned'
  <2>1. toNode[e] \in Seq(RequestsFor(e)) /\ toNode[e] # <<>>
    BY <1>3 DEF NodeStop, Received, CubeInv
  <2>2. Head(toNode[e]) \in RequestsFor(e)
    BY <2>1, SeqPop
  <2>3. PICK c \in Comps : c = Head(toNode[e]).comp /\ Planned(c) /\ Reached(c, e)
    BY <2>2 DEF RequestsFor, Requests
  <2>4. Planned(c)' /\ Reached(c, e)'
    BY <2>3, HitKept DEF Kept
  <2>5. UNCHANGED proc /\ halting' = [halting EXCEPT ![NodeOf(e)] = c] /\ proc[NodeOf(e)] = e
    BY <1>3, <2>3 DEF NodeStop, Received
  <2>6. ASSUME NEW n \in Nodes, halting'[n] # None PROVE (Planned(halting[n]) /\ Reached(halting[n], proc[n]))'
    <3>1. CASE n = NodeOf(e)
      <4>1. halting'[n] = c /\ proc'[n] = e
        BY <1>0, <2>5, <3>1
      <4> QED BY <2>4, <4>1
    <3>2. CASE n # NodeOf(e)
      BY <1>0, <1>1, <2>5, <2>6, <3>2
    <3> QED BY <3>1, <3>2
  <2> QED BY <1>0, <2>5, <2>6 DEF HaltsPlanned
<1>4. ASSUME NEW n \in Nodes, NodeStopped(n) \/ Restart(n)
      PROVE  halting' \in [Nodes -> Comps \union {None}] /\ HaltsPlanned'
  <2>1. halting' = [halting EXCEPT ![n] = None] /\ \A m \in Nodes \ {n} : proc'[m] = proc[m]
    BY <1>0, <1>4 DEF NodeStopped, Restart
  <2>2. ASSUME NEW m \in Nodes, halting'[m] # None PROVE (Planned(halting[m]) /\ Reached(halting[m], proc[m]))'
    BY <1>0, <1>1, <2>1, <2>2
  <2> QED BY <1>0, <2>1, <2>2 DEF HaltsPlanned
<1>5. \/ \E e \in Endpoints : NodeStop(e)
      \/ \E n \in Nodes : NodeStopped(n) \/ Restart(n)
      \/ UNCHANGED <<proc, halting>>
  BY DEF Next, LoopStep, NodeStep, AlterBegin, AlterPlan, AlterNoPlan, AlterAssign, AlterRaises, StopBegin,
         StopLookup, StopRead, StopSend, StopEnd, Heartbeat, Timeout, Closed, Response,
         StartSend, NodeAlter, NodeAlterFails, vars, nodes
<1> QED BY <1>0, <1>2, <1>3, <1>4, <1>5

\* The start.
LEMMA InitCubes == Init => CubeInv
<1> SUFFICES ASSUME Init PROVE CubeInv
  OBVIOUS
<1>1. TypesInv /\ ListedCubeExists
  BY InitTypes DEF Init, ListedCubeExists
<1>2. proc \in [Nodes -> Endpoints] /\ \A n \in Nodes : NodeOf(proc[n]) = n
  BY DEF Init, Endpoints, NodeOf
<1>3. \A S : <<>> \in Seq(S)
  OBVIOUS
<1>4. /\ DOMAIN toNode = Endpoints /\ \A e \in Endpoints : toNode[e] \in Seq(RequestsFor(e))
      /\ DOMAIN toCtl = Endpoints /\ \A e \in Endpoints : toCtl[e] \in Seq(RepliesFor(e))
  BY <1>3 DEF Init
<1>5. \A c \in Comps : starters[c] = {} /\ Assigned(c) = {}
  BY DEF Init, Assigned
<1>6. halting = [n \in Nodes |-> None] /\ cubes \in [Nodes -> SUBSET Comps]
  BY DEF Init
<1> QED BY <1>1, <1>2, <1>4, <1>5, <1>6 DEF CubeInv, HaltsPlanned

\* One step of the whole, given that a stop is sent to whom it concerns.
LEMMA CubesStep ==
  ASSUME CubeInv, [Next]_vars, ev.pc = "send" => Reached(ev.comp, ev.to)
  PROVE  Kept /\ CubeInv'
<1>1. Kept /\ TypesInv'
  BY KeptStep, TypesStep DEF CubeInv
<1> QED BY <1>1, ListedStep, QueuesStep, StartersStep, PlansStep, HaltingStep DEF Kept, CubeInv

-----------------------------------------------------------------------------
(* Nodes that were not lost.                                               *)

\* Only a loss removes a worker, or puts another one in its place.
LEMMA HomesStep ==
  ASSUME MapsInv, CubeInv, Kept, HomesInv, [Next]_vars
  PROVE  HomesInv'
<1>1. ASSUME UNCHANGED <<plan, local, proc, handlers>>, DOMAIN workers' = DOMAIN workers
      PROVE  HomesInv'
  BY <1>1 DEF HomesInv, Kept, Assigned
<1>2. ASSUME NEW e \in Endpoints, WorkerDied(e), UNCHANGED <<plan, proc>>, handlers' \subseteq handlers
      PROVE  HomesInv'
  <2>1. /\ DOMAIN workers' = DOMAIN workers \ {e} /\ lost' = lost \union {NodeOf(e)}
        /\ \A n \in Nodes \ {NodeOf(e)} : local'[n] = local[n]
    BY <1>2 DEF WorkerDied, Restrict, MapsInv
  <2>2. \A d \in DOMAIN workers : NodeOf(d) \in Nodes
    BY DEF MapsInv, NodeOf, Endpoints
  <2>3. \A d \in DOMAIN workers' : NodeOf(d) \in lost' \/ local'[NodeOf(d)] = d
    BY <2>1, <2>2 DEF HomesInv
  <2>4. \A c \in Comps : Assigned(c)' = Assigned(c)
    BY <1>2 DEF Assigned
  <2> QED BY <1>2, <2>1, <2>3, <2>4 DEF HomesInv
<1>3. ASSUME NEW e \in Endpoints, ConnectionGone(e), UNCHANGED <<plan, proc>> PROVE HomesInv'
  <2>1. CASE e \in DOMAIN workers
    BY <1>2, <1>3, <2>1 DEF ConnectionGone
  <2>2. CASE e \notin DOMAIN workers
    BY <1>3, <2>2 DEF ConnectionGone, registry, HomesInv, Kept, Assigned
  <2> QED BY <2>1, <2>2
<1>4. ASSUME NEW e \in Endpoints, Heartbeat(e) PROVE HomesInv'
  <2>1. /\ UNCHANGED <<plan, proc, handlers, lost>> /\ e \in handlers /\ e \notin DOMAIN workers
        /\ DOMAIN workers' = DOMAIN workers \union {e} /\ local' = [local EXCEPT ![NodeOf(e)] = e]
    BY <1>4 DEF Heartbeat, jobs, nodes
  <2>2. \A d \in DOMAIN workers : NodeOf(d) \in lost \/ NodeOf(d) # NodeOf(e)
    BY <2>1 DEF HomesInv
  <2>3. NodeOf(e) \in Nodes
    BY DEF NodeOf, Endpoints
  <2>4. \A d \in DOMAIN workers' : NodeOf(d) \in lost' \/ local'[NodeOf(d)] = d
    BY <2>1, <2>2, <2>3 DEF HomesInv, MapsInv
  <2>5. \A c \in Comps : Assigned(c)' = Assigned(c)
    BY <2>1 DEF Assigned
  <2> QED BY <2>1, <2>4, <2>5 DEF HomesInv
<1>5. ASSUME NEW n \in Nodes, Restart(n) PROVE HomesInv'
  <2>1. PICK e : e[1] = n /\ proc' = [proc EXCEPT ![n] = e] /\ handlers' = handlers \union {e}
    BY <1>5 DEF Restart
  <2>2. UNCHANGED <<plan, workers, local>> /\ lost' = lost \union {n} /\ NodeOf(e) \in lost'
    BY <1>5, <2>1 DEF Restart, registry, jobs, NodeOf
  <2>3. \A m \in Nodes : m \in lost' \/ proc'[m] = First(m)
    BY <2>1, <2>2 DEF HomesInv, CubeInv
  <2>4. \A c \in Comps : Assigned(c)' = Assigned(c)
    BY <2>2 DEF Assigned
  <2> QED BY <2>1, <2>2, <2>3, <2>4 DEF HomesInv
<1>6. CASE AlterPlan
  <2>1. UNCHANGED <<workers, local, proc, handlers, lost>> /\ ev.comp \in Comps /\ DOMAIN plan = Comps
    BY SMTT(20), Z3T(20), SMTT(30), <1>6, ControllerAssumption
       DEF AlterPlan, registry, nodes, CubeInv, TypesInv, TypeOK, Comps
  <2>2. PICK where, cube, bare \in SUBSET DOMAIN workers :
          plan' = [plan EXCEPT ![ev.comp] = [ops |-> where, cube |-> cube, bare |-> bare]]
    BY <1>6 DEF AlterPlan
  <2>3. ASSUME NEW c \in Comps, NEW e \in Assigned(c)' PROVE NodeOf(e) \in lost \/ e \in DOMAIN workers
    <3>1. CASE c = ev.comp
      BY <2>1, <2>2, <2>3, <3>1 DEF Assigned
    <3>2. CASE c # ev.comp
      BY <2>1, <2>2, <2>3, <3>2 DEF Assigned, HomesInv
    <3> QED BY <3>1, <3>2
  <2> QED BY <2>1, <2>3 DEF HomesInv
<1>7. ASSUME NEW e \in Endpoints, Response(e) PROVE HomesInv'
  <2>1. UNCHANGED <<plan, proc>> /\ (ConnectionGone(e) \/ UNCHANGED <<workers, local, handlers>>)
    BY <1>7 DEF Response, nodes
  <2> QED BY <1>1, <1>3, <2>1
<1>8. ASSUME NEW e \in Endpoints, Timeout(e) \/ Closed(e) PROVE HomesInv'
  BY <1>2, <1>3, <1>8 DEF Timeout, Closed, jobs, nodes
<1>9. CASE AlterAssign \/ AlterRaises \/ StopSend
  <2>1. UNCHANGED <<plan, local, proc, handlers>> /\ DOMAIN workers' = DOMAIN workers
    BY <1>9 DEF AlterAssign, AlterRaises, StopSend, Assign, jobs, nodes
  <2> QED BY <1>1, <2>1
<1>10. CASE \/ AlterBegin \/ AlterNoPlan \/ StopRead \/ StopEnd \/ UNCHANGED vars
            \/ \E n \in Nodes : StopLookup(n) \/ NodeStopped(n)
            \/ \E d \in Comps : StopBegin(d) \/ \E e \in Endpoints : StartSend(d, e)
            \/ \E e \in Endpoints : NodeAlter(e) \/ NodeAlterFails(e) \/ NodeStop(e)
  <2>1. UNCHANGED <<plan, local, proc, handlers, workers>>
    BY <1>10 DEF AlterBegin, AlterNoPlan, StopRead, StopEnd, StopLookup, NodeStopped, StopBegin, StartSend,
                 NodeAlter, NodeAlterFails, NodeStop, vars, registry, jobs, nodes
  <2> QED BY <1>1, <2>1
<1> QED BY <1>4, <1>5, <1>6, <1>7, <1>8, <1>9, <1>10 DEF Next, LoopStep, NodeStep

\* The start.
LEMMA InitHomes == Init => HomesInv
  BY DEF Init, HomesInv, First, NodeOf, Assigned

\* The workers of a computation that lost no node are where the maps say.
LEMMA UnhitKnown ==
  ASSUME HomesInv, NEW c \in Comps, ~Hit(c), NEW e \in Assigned(c)
  PROVE  /\ NodeOf(e) \notin lost /\ e \in DOMAIN workers
         /\ e = First(NodeOf(e)) /\ local[NodeOf(e)] = e
  BY DEF Hit, HomesInv

-----------------------------------------------------------------------------
(* Stops behind starts.                                                    *)

\* Posting a message: only a start of c can undo what a queue says of c.
LEMMA CoveredPush ==
  ASSUME NEW S, NEW q \in Seq(S), NEW m \in S, NEW c
  PROVE  /\ m # Alter(c) /\ NoAlter(q, c) => NoAlter(Append(q, m), c)
         /\ m # Alter(c) /\ Covered(q, c) => Covered(Append(q, m), c)
         /\ m = Stop(c) => Covered(Append(q, m), c)
<1> DEFINE p == Append(q, m)
<1>1. Len(q) \in Nat /\ Len(p) = Len(q) + 1 /\ p[Len(q) + 1] = m /\ \A i \in 1 .. Len(q) : p[i] = q[i]
  OBVIOUS
<1> HIDE DEF p
<1>2. \A i \in 1 .. Len(p) : i # Len(q) + 1 => i \in 1 .. Len(q)
  BY <1>1
<1>3. ASSUME m # Alter(c), NoAlter(q, c) PROVE NoAlter(p, c)
  BY <1>1, <1>2, <1>3 DEF NoAlter
<1>4. ASSUME m # Alter(c), Covered(q, c) PROVE Covered(p, c)
  <2>1. PICK i \in 1 .. Len(q) : q[i] = Stop(c) /\ \A j \in i + 1 .. Len(q) : q[j] # Alter(c)
    BY <1>4 DEF Covered
  <2>2. i \in 1 .. Len(p) /\ \A j \in i + 1 .. Len(p) : j # Len(q) + 1 => j \in i + 1 .. Len(q) /\ j \in 1 .. Len(q)
    BY <1>1, <2>1
  <2>3. \A j \in i + 1 .. Len(p) : p[j] # Alter(c)
    BY <1>1, <1>4, <2>1, <2>2
  <2> QED BY <1>1, <2>1, <2>2, <2>3 DEF Covered
<1>5. ASSUME m = Stop(c) PROVE Covered(p, c)
  <2>1. Len(q) + 1 \in 1 .. Len(p) /\ Len(q) + 1 + 1 .. Len(p) = {}
    BY <1>1
  <2> QED BY <1>1, <1>5, <2>1 DEF Covered
<1> QED BY <1>3, <1>4, <1>5 DEF p

\* Taking the first message.
LEMMA CoveredPop ==
  ASSUME NEW S, NEW q \in Seq(S), q # <<>>, NEW c
  PROVE  /\ NoAlter(q, c) => NoAlter(Tail(q), c)
         /\ Covered(q, c) => Covered(Tail(q), c) \/ (Head(q) = Stop(c) /\ NoAlter(Tail(q), c))
<1> DEFINE p == Tail(q)
<1>1. /\ Len(q) \in Nat /\ Len(q) >= 1 /\ Len(p) = Len(q) - 1 /\ Head(q) = q[1]
      /\ \A i \in 1 .. Len(q) - 1 : p[i] = q[i + 1]
  OBVIOUS
<1> HIDE DEF p
<1>2. \A i \in 1 .. Len(p) : i + 1 \in 1 .. Len(q) /\ i + 1 \in 1 + 1 .. Len(q) /\ p[i] = q[i + 1]
  BY <1>1
<1>3. NoAlter(q, c) => NoAlter(p, c)
  BY <1>2 DEF NoAlter
<1>4. ASSUME Covered(q, c) PROVE Covered(p, c) \/ (Head(q) = Stop(c) /\ NoAlter(p, c))
  <2>1. PICK i \in 1 .. Len(q) : q[i] = Stop(c) /\ \A j \in i + 1 .. Len(q) : q[j] # Alter(c)
    BY <1>4 DEF Covered
  <2>2. CASE i = 1
    BY <1>1, <1>2, <2>1, <2>2 DEF NoAlter
  <2>3. CASE i # 1
    <3>1. i - 1 \in 1 .. Len(p) /\ i - 1 + 1 = i
      BY SMTT(20), Z3T(20), SMTT(30), <1>1, <2>3
    <3>2. \A j \in i - 1 + 1 .. Len(p) : j + 1 \in i + 1 .. Len(q) /\ j \in 1 .. Len(p)
      BY <1>1, <2>3
    <3> QED BY <1>2, <2>1, <3>1, <3>2 DEF Covered
  <2> QED BY <2>2, <2>3
<1> QED BY <1>3, <1>4 DEF p

-----------------------------------------------------------------------------
(* Computations that lost no node.                                         *)

\* A step that leaves alone what c relies on in the tables.
LEMMA AgreedFrame ==
  ASSUME NEW c \in Comps, Entered(c), Held(c), Finds(c), plan'[c] = plan[c],
         c \in DOMAIN computations' =>
           c \in DOMAIN computations /\ DOMAIN computations'[c] = DOMAIN computations[c],
         \A e \in plan[c].ops : c \in workers[e] => c \in workers'[e],
         ev' = ev \/ (~Opening(c) /\ ~Ending(c) /\ ~Ending(c)')
  PROVE  Entered(c)' /\ Held(c)' /\ Finds(c)'
<1>1. CASE ev' = ev
  <2>1. (Opening(c)' <=> Opening(c)) /\ (Ending(c)' <=> Ending(c)) /\ ToTell(c)' = ToTell(c)
    BY <1>1 DEF Opening, Ending, ToTell
  <2> QED BY <1>1, <2>1 DEF Entered, Held, Finds, Assigned
<1>2. CASE ~Opening(c) /\ ~Ending(c) /\ ~Ending(c)'
  BY <1>2 DEF Entered, Held, Finds, ToTell, Assigned
<1> QED BY <1>1, <1>2

\* A step that keeps what a stop of c relies on.
LEMMA ToldFrame ==
  ASSUME NEW c \in Comps, StopTold(c),
         Over(c)' => /\ Over(c) /\ plan'[c] = plan[c] /\ starters'[c] \subseteq starters[c]
                     /\ \A n \in Nodes : First(n) \in plan[c].ops =>
                          (n \in ToTell(c) => n \in ToTell(c)') /\ (Told(n, c) => Told(n, c)')
  PROVE  StopTold(c)'
  BY DEF StopTold

\* Registrations, deaths and responses concern other computations' workers.
LEMMA RegistryClear ==
  ASSUME ControlInv, NEW c \in Comps, ~Hit(c), ~Hit(c)', Clear(c), NEW d \in Endpoints,
         Heartbeat(d) \/ Timeout(d) \/ Closed(d) \/ Response(d)
  PROVE  Clear(c)'
<1>1. UNCHANGED <<ev, plan, starters, toNode, stopped, ops, halting>>
  BY DEF Heartbeat, Timeout, Closed, Response, jobs, loop, wires, nodes
<1>2. /\ DOMAIN computations' = DOMAIN computations
      /\ \A b \in DOMAIN computations : DOMAIN computations'[b] = DOMAIN computations[b]
  BY SMTT(20), Z3T(20), SMTT(30) DEF Heartbeat, Timeout, Closed, Response, Record, jobs
<1>3. ASSUME NEW e \in plan[c].ops PROVE workers'[e] = workers[e]
  <2>1. e \in DOMAIN workers /\ e \in Assigned(c)
    BY <1>3, UnhitKnown DEF Assigned, ControlInv
  <2>2. NodeOf(e) \notin lost'
    BY <1>1, <2>1 DEF Hit, Assigned
  <2>3. CASE Heartbeat(d)
    BY <2>1, <2>3 DEF Heartbeat
  <2>4. CASE WorkerDied(d)
    BY <2>1, <2>2, <2>4 DEF WorkerDied, Restrict
  <2>5. CASE UNCHANGED workers
    BY <2>5
  <2> QED BY <2>3, <2>4, <2>5 DEF Timeout, Closed, Response, ConnectionGone, registry
<1>4. Entered(c)' /\ Held(c)' /\ Finds(c)'
  BY <1>1, <1>2, <1>3, AgreedFrame DEF Clear
<1>5. StopTold(c)'
  <2>1. ToTell(c)' = ToTell(c) /\ (Over(c)' => Over(c)) /\ \A n \in Nodes : Told(n, c)' = Told(n, c)
    BY <1>1, <1>2 DEF ToTell, Over, Ending, Told
  <2> QED BY <1>1, <2>1, ToldFrame DEF Clear
<1> QED BY <1>4, <1>5 DEF Clear

\* What the event loop is at work on.
LEMMA LoopTypes ==
  ASSUME ControlInv
  PROVE  /\ DOMAIN computations \subseteq Comps /\ nextCompID \in Nat
         /\ \A c \in DOMAIN computations : c < nextCompID
         /\ ev.pc # "idle" => ev.comp \in DOMAIN computations /\ ev.comp \in Comps
  BY SMTT(20), Z3T(20), SMTT(30), ControllerAssumption DEF ControlInv, CubeInv, TypesInv, TypeOK, Comps

\* handle_alter finds every worker of its plan, once each, if none is lost.
LEMMA NoAlterRaises ==
  ASSUME ControlInv, AlterRaises
  PROVE  Hit(ev.comp)
<1> SUFFICES ASSUME ~Hit(ev.comp) PROVE FALSE
  OBVIOUS
<1>1. ev.comp \in Comps
  BY LoopTypes DEF AlterRaises
<1>2. \A e \in Assigned(ev.comp) : e \in DOMAIN workers /\ e = First(NodeOf(e))
  BY <1>1, UnhitKnown DEF ControlInv
<1>3. \A d, e \in Assigned(ev.comp) : NodeOf(d) = NodeOf(e) => d = e
  BY <1>2
<1> QED BY <1>2, <1>3 DEF AlterRaises

\* handle_alter is about a computation that is not being stopped.
LEMMA AlterTold ==
  ASSUME ControlInv, NEW c \in Comps, StopTold(c), plan'[c] = plan[c] \/ c \in DOMAIN computations',
         starters'[c] = starters[c] \/ c \in DOMAIN computations',
         AlterBegin \/ AlterPlan \/ AlterNoPlan \/ AlterAssign \/ AlterRaises
  PROVE  StopTold(c)' /\ ~Ending(c) /\ ~Ending(c)'
<1>1. ev.pc \in {"idle", "plan", "assign"} /\ ev'.pc \in {"idle", "plan", "assign"}
  <2>1. ev.pc = "plan" => ev = [pc |-> "plan", comp |-> ev.comp]
    BY DEF ControlInv, CubeInv, TypesInv
  <2>2. ev.pc \in {"idle", "plan", "assign"}
    BY SMTT(20), Z3T(20), SMTT(30) DEF AlterBegin, AlterPlan, AlterNoPlan, AlterAssign, AlterRaises, Idle
  <2>3. ev'.pc \in {"idle", "plan", "assign"}
    BY SMTT(20), Z3T(20), SMTT(30), <2>1 DEF AlterBegin, AlterPlan, AlterNoPlan, AlterAssign, AlterRaises, Idle
  <2> QED BY <2>2, <2>3
<1>2. ~Ending(c) /\ ~Ending(c)' /\ ToTell(c) = {} /\ ToTell(c)' = {}
  BY <1>1 DEF Ending, ToTell
<1>3. UNCHANGED <<toNode, stopped, ops, halting>> /\ DOMAIN computations \subseteq DOMAIN computations'
  BY DEF AlterBegin, AlterPlan, AlterNoPlan, AlterAssign, AlterRaises, Assign, jobs, wires, nodes
<1>4. (Over(c)' => Over(c) /\ c \notin DOMAIN computations') /\ \A n \in Nodes : Told(n, c)' = Told(n, c)
  BY <1>2, <1>3 DEF Over, Told
<1> QED BY <1>2, <1>4, ToldFrame

\* handle_alter enters the whole plan, or raises about a computation that lost
\* a node.
LEMMA AlterClear ==
  ASSUME ControlInv, NEW c \in Comps, ~Hit(c), ~Hit(c)', Clear(c),
         AlterBegin \/ AlterPlan \/ AlterNoPlan \/ AlterAssign \/ AlterRaises
  PROVE  Clear(c)'
<1>0. /\ DOMAIN computations \subseteq Comps /\ nextCompID \in Nat
      /\ \A b \in DOMAIN computations : b < nextCompID
      /\ ev.pc # "idle" => ev.comp \in DOMAIN computations /\ ev.comp \in Comps
      /\ DOMAIN plan = Comps /\ DOMAIN starters = Comps
      /\ Entered(c) /\ Held(c) /\ Finds(c) /\ StopTold(c)
  BY LoopTypes DEF ControlInv, CubeInv, TypesInv, Clear
<1>1. CASE AlterBegin
  <2>1. /\ UNCHANGED <<plan, starters, workers>> /\ ev = Idle /\ ev' = [pc |-> "plan", comp |-> nextCompID]
        /\ DOMAIN computations' = DOMAIN computations \union {nextCompID}
        /\ \A b \in DOMAIN computations' :
             computations'[b] = IF b = nextCompID THEN <<>> ELSE computations[b]
    BY <1>1 DEF AlterBegin, registry
  <2>2. StopTold(c)' /\ ~Ending(c) /\ ~Ending(c)' /\ ~Opening(c)
    BY <1>0, <1>1, <2>1, AlterTold DEF Opening, Idle
  <2>3. CASE c = nextCompID
    <3>1. Assigned(c) = {} /\ plan[c].ops = {}
      BY <1>0, <2>3 DEF ControlInv, CubeInv, Planned, Assigned
    <3>2. computations'[c] = <<>>
      BY <2>1, <2>3
    <3>3. DOMAIN computations'[c] = {}
      BY <3>2
    <3>4. {NodeOf(e) : e \in Assigned(c)} = {} /\ Assigned(c)' = Assigned(c)
      BY <2>1, <3>1 DEF Assigned
    <3> QED BY <2>1, <2>2, <3>1, <3>3, <3>4 DEF Clear, Entered, Held, Finds, ToTell
  <2>4. CASE c # nextCompID
    BY <1>0, <2>1, <2>2, <2>4, AgreedFrame DEF Clear
  <2> QED BY <2>3, <2>4
<1>2. CASE AlterPlan
  <2>1. /\ UNCHANGED <<starters, workers, computations>> /\ ev.pc = "plan"
        /\ ev' = [pc |-> "assign", comp |-> ev.comp] /\ \E x : plan' = [plan EXCEPT ![ev.comp] = x]
    BY <1>2 DEF AlterPlan, registry, ControlInv, CubeInv, TypesInv
  <2>2. plan'[c] = plan[c] \/ c = ev.comp
    BY <1>0, <2>1
  <2>3. StopTold(c)' /\ ~Ending(c) /\ ~Ending(c)' /\ ~Opening(c)
    BY <1>0, <1>2, <2>1, <2>2, AlterTold DEF Opening
  <2>4. CASE c = ev.comp
    BY <2>1, <2>3, <2>4 DEF Clear, Entered, Held, Finds, ToTell, Opening
  <2>5. CASE c # ev.comp
    BY <1>0, <2>1, <2>2, <2>3, <2>5, AgreedFrame DEF Clear
  <2> QED BY <2>4, <2>5
<1>3. CASE AlterNoPlan
  <2>1. UNCHANGED <<starters, workers, computations, plan>> /\ ev.pc = "plan"
    BY <1>3 DEF AlterNoPlan, registry, jobs
  <2>2. StopTold(c)' /\ ~Ending(c) /\ ~Ending(c)' /\ ~Opening(c)
    BY <1>0, <1>3, <2>1, AlterTold DEF Opening
  <2> QED BY <1>0, <2>1, <2>2, AgreedFrame DEF Clear
<1>4. CASE AlterAssign \/ AlterRaises
  <2>1. PICK ns, es : Assign(ev.comp, ns, es)
    BY <1>4 DEF AlterAssign, AlterRaises
  <2>2. /\ UNCHANGED plan /\ ev.pc = "assign" /\ ev' = Idle
        /\ \A b \in Comps \ {ev.comp} : starters'[b] = starters[b]
        /\ DOMAIN computations' = DOMAIN computations
        /\ \A b \in DOMAIN computations \ {ev.comp} : computations'[b] = computations[b]
        /\ DOMAIN workers' = DOMAIN workers /\ \A e \in DOMAIN workers : workers[e] \subseteq workers'[e]
    BY <1>0, <1>4, <2>1 DEF AlterAssign, AlterRaises, Assign
  <2>3. StopTold(c)' /\ ~Ending(c) /\ ~Ending(c)'
    BY <1>0, <1>4, <2>2, AlterTold
  <2>4. \A e \in plan[c].ops : e \in DOMAIN workers /\ e \in Assigned(c)
    BY UnhitKnown DEF Assigned, ControlInv
  <2>5. CASE c = ev.comp
    <3>1. AlterAssign
      BY <1>4, <2>5, NoAlterRaises
    <3>2. Assign(c, {NodeOf(e) : e \in Assigned(c)}, Assigned(c))
      BY <2>5, <3>1 DEF AlterAssign
    <3>3. DOMAIN computations'[c] = {NodeOf(e) : e \in Assigned(c)} /\ \A e \in plan[c].ops : c \in workers'[e]
      BY <1>0, <2>2, <2>4, <2>5, <3>2 DEF Assign
    <3>4. Assigned(c)' = Assigned(c)
      BY <2>2 DEF Assigned
    <3> QED BY <2>2, <2>3, <3>3, <3>4 DEF Clear, Entered, Held, Finds, ToTell
  <2>6. CASE c # ev.comp
    <3>1. ~Opening(c)
      BY <2>6 DEF Opening
    <3> QED BY <1>0, <2>2, <2>3, <2>4, <2>6, <3>1, AgreedFrame DEF Clear
  <2> QED BY <2>5, <2>6
<1> QED BY <1>1, <1>2, <1>3, <1>4

\* stop_computation begins: every worker with operators is still to be told.
LEMMA StopBeginClear ==
  ASSUME ControlInv, NEW c \in Comps, ~Hit(c), ~Hit(c)', Clear(c), NEW d \in Comps, StopBegin(d)
  PROVE  Clear(c)'
<1>0. /\ UNCHANGED <<workers, computations, plan, ops, halting, toNode, starters>>
      /\ ev = Idle /\ d \in DOMAIN computations
      /\ ev' = [pc |-> "stop", comp |-> d,
                left |-> {n \in DOMAIN computations[d] : \E e \in plan[d].ops : NodeOf(e) = n}]
      /\ stopped' = [stopped EXCEPT ![d] = IF @ = "raced" \/ starters[d] # {} THEN "raced" ELSE "asked"]
      /\ DOMAIN stopped = Comps
      /\ Entered(c) /\ Held(c) /\ Finds(c) /\ StopTold(c)
  BY DEF StopBegin, registry, jobs, nodes, wires, ControlInv, OpsInv, Clear
<1>1. ~Ending(c) /\ ~Opening(c) /\ ToTell(c) = {} /\ (Ending(c)' <=> c = d) /\ ~Opening(c)'
  BY <1>0 DEF Ending, Opening, ToTell, Idle
<1>2. CASE c # d
  <2>1. ToTell(c)' = {} /\ (Over(c)' => Over(c)) /\ \A n \in Nodes : Told(n, c)' = Told(n, c)
    BY <1>0, <1>1, <1>2 DEF ToTell, Over, Told
  <2>2. StopTold(c)'
    BY <1>0, <1>1, <2>1, ToldFrame
  <2>3. Entered(c)' /\ Held(c)' /\ Finds(c)'
    BY <1>0, <1>1, <1>2, AgreedFrame
  <2> QED BY <2>2, <2>3 DEF Clear
<1>3. CASE c = d
  <2>1. DOMAIN computations[c] = {NodeOf(e) : e \in Assigned(c)} /\ \A e \in plan[c].ops : c \in workers[e]
    BY <1>0, <1>1, <1>3 DEF Entered, Held
  <2>2. \A e \in plan[c].ops : e \in Assigned(c) /\ e = First(NodeOf(e))
    BY UnhitKnown DEF Assigned, ControlInv
  <2>3. \A n \in Nodes : First(n) \in plan[c].ops <=> n \in ev'.left
    <3>1. ASSUME NEW n \in Nodes, First(n) \in plan[c].ops PROVE n \in ev'.left
      <4>1. NodeOf(First(n)) = n
        BY DEF NodeOf, First
      <4> QED BY <1>0, <1>3, <2>1, <2>2, <3>1, <4>1
    <3>2. ASSUME NEW n \in Nodes, n \in ev'.left PROVE First(n) \in plan[c].ops
      BY <1>0, <1>3, <2>2, <3>2
    <3> QED BY <3>1, <3>2
  <2>4. \A n \in Nodes : First(n) \in plan[c].ops <=> n \in ToTell(c)'
    BY <1>0, <1>1, <1>3, <2>3 DEF ToTell
  <2>5. Entered(c)' /\ Held(c)'
    BY <1>0, <1>1, <1>3, <2>1 DEF Entered, Held, Assigned
  <2>6. Finds(c)'
    <3>1. ToTell(c)' \subseteq Nodes /\ ev'.pc = "stop"
      BY <1>0 DEF ToTell
    <3> QED BY <1>0, <2>1, <2>4, <3>1 DEF Finds
  <2>7. StopTold(c)'
    BY <1>0, <1>3, <2>4 DEF StopTold, Over
  <2> QED BY <2>5, <2>6, <2>7 DEF Clear
<1> QED BY <1>2, <1>3

\* The entry is tested and read: the worker stays to be told.
LEMMA StopLookupClear ==
  ASSUME ControlInv, NEW c \in Comps, ~Hit(c), ~Hit(c)', Clear(c), (\E n \in Nodes : StopLookup(n)) \/ StopRead
  PROVE  Clear(c)'
<1>0. /\ UNCHANGED <<workers, computations, plan, ops, halting, toNode, starters, stopped>>
      /\ ev.pc \in {"stop", "read"}
      /\ Entered(c) /\ Held(c) /\ Finds(c) /\ StopTold(c)
  BY DEF StopLookup, StopRead, registry, jobs, nodes, wires, Clear
<1>1. \A n \in ToTell(c) : n \in Nodes /\ local[n] = First(n) /\ local[n] # None
  <2>1. ASSUME NEW n \in ToTell(c) PROVE local[n] = First(n) /\ First(n) \in Endpoints /\ n \in Nodes
    <3>1. n \in Nodes /\ First(n) \in Assigned(c)
      BY <1>0, <2>1 DEF Finds, ToTell, Assigned
    <3>2. NodeOf(First(n)) = n
      BY DEF NodeOf, First
    <3> QED BY <3>1, <3>2, UnhitKnown DEF ControlInv, MapsInv
  <2> QED BY <2>1, ControllerAssumption
<1>2. CASE ev.comp # c
  <2>1. ~Opening(c) /\ ~Ending(c) /\ ~Ending(c)'
    <3>1. ev.pc = "stop" => ev = [pc |-> "stop", comp |-> ev.comp, left |-> ev.left]
      BY DEF ControlInv, CubeInv, TypesInv
    <3>2. ev'.comp = ev.comp \/ ev' = Idle
      BY <3>1 DEF StopLookup, StopRead
    <3> QED BY <1>2, <3>2 DEF Opening, Ending, Idle
  <2>2. Entered(c)' /\ Held(c)' /\ Finds(c)'
    BY <1>0, <2>1, AgreedFrame
  <2>3. ToTell(c)' = {} /\ ToTell(c) = {} /\ (Over(c)' => Over(c)) /\ \A n \in Nodes : Told(n, c)' = Told(n, c)
    BY <1>0, <2>1 DEF ToTell, Over, Told
  <2>4. StopTold(c)'
    BY <1>0, <2>3, ToldFrame
  <2> QED BY <2>2, <2>4 DEF Clear
<1>3. ASSUME ev.comp = c, ToTell(c)' = ToTell(c), ev'.comp = c, ev'.pc \in {"read", "send"},
             ev'.pc = "read" => ev'.node \notin ev'.left,
             ev'.pc = "send" => NodeOf(ev'.to) \notin ev'.left /\ ev'.to = First(NodeOf(ev'.to))
      PROVE  Clear(c)'
  <2>1. Ending(c) /\ Ending(c)' /\ ~Opening(c) /\ ~Opening(c)'
    BY <1>0, <1>3 DEF Ending, Opening
  <2>2. Entered(c)' /\ Held(c)' /\ Finds(c)'
    BY <1>0, <1>3, <2>1 DEF Entered, Held, Finds, Assigned
  <2>3. (Over(c)' => Over(c)) /\ \A n \in Nodes : Told(n, c)' = Told(n, c)
    BY <1>0, <2>1 DEF Over, Told
  <2>4. StopTold(c)'
    BY <1>0, <1>3, <2>3, ToldFrame
  <2> QED BY <2>2, <2>4 DEF Clear
<1>4. ASSUME ev.comp = c, NEW n \in Nodes, StopLookup(n) PROVE Clear(c)'
  <2>1. ev.pc = "stop" /\ n \in ev.left
    BY <1>4 DEF StopLookup
  <2>2. n \in ToTell(c)
    BY <1>4, <2>1 DEF ToTell, Ending
  <2>3. ev' = [pc |-> "read", comp |-> c, left |-> ev.left \ {n}, node |-> n]
    BY <1>1, <1>4, <2>2 DEF StopLookup
  <2>4. ToTell(c)' = ToTell(c)
    BY <1>4, <2>1, <2>3 DEF ToTell, Ending
  <2> QED BY <1>3, <1>4, <2>3, <2>4
<1>5. ASSUME ev.comp = c, StopRead PROVE Clear(c)'
  <2>1. ev.pc = "read" /\ ev.node \in Nodes
    BY <1>5 DEF StopRead, ControlInv, CubeInv, TypesInv
  <2>2. ev.node \in ToTell(c) /\ ev.node \notin ev.left
    BY <1>0, <1>5, <2>1 DEF ToTell, Ending, Finds
  <2>3. ev' = [pc |-> "send", comp |-> c, left |-> ev.left, to |-> First(ev.node)]
    BY <1>1, <1>5, <2>2 DEF StopRead
  <2>4. NodeOf(ev'.to) = ev.node /\ ev'.to = First(NodeOf(ev'.to))
    BY <2>3 DEF NodeOf, First
  <2>5. ToTell(c)' = ToTell(c)
    BY <1>5, <2>1, <2>3, <2>4 DEF ToTell, Ending
  <2> QED BY <1>3, <1>5, <2>2, <2>3, <2>4, <2>5
<1> QED BY <1>2, <1>4, <1>5

\* The stop is posted behind the start, and the assignment is there to delete.
LEMMA StopSendClear ==
  ASSUME ControlInv, NEW c \in Comps, ~Hit(c), ~Hit(c)', Clear(c), StopSend
  PROVE  Clear(c)' /\ (ev.comp = c => UNCHANGED raised)
<1>0. /\ UNCHANGED <<computations, plan, ops, halting, starters, stopped>> /\ ev.pc = "send"
      /\ ev.comp \in Comps /\ ev.to \in Endpoints /\ DOMAIN toNode = Endpoints
      /\ toNode' = [toNode EXCEPT ![ev.to] = Append(@, Stop(ev.comp))]
      /\ \A e \in DOMAIN workers : e = ev.to \/ workers'[e] = workers[e]
      /\ \A e \in DOMAIN workers : \A b \in workers[e] : b = ev.comp \/ b \in workers'[e]
      /\ Entered(c) /\ Held(c) /\ Finds(c) /\ StopTold(c)
  <2>1. /\ UNCHANGED <<computations, plan, ops, halting, starters, stopped>> /\ ev.pc = "send"
        /\ toNode' = [toNode EXCEPT ![ev.to] = Append(@, Stop(ev.comp))]
    BY DEF StopSend, jobs, nodes, Stop
  <2>2. ev.comp \in Comps /\ ev.to \in Endpoints /\ DOMAIN toNode = Endpoints
    BY SMTT(20), Z3T(20), SMTT(30), <2>1, LoopTypes DEF ControlInv, CubeInv, TypesInv
  <2>3. workers' = workers \/ workers' = [workers EXCEPT ![ev.to] = @ \ {ev.comp}]
    BY DEF StopSend
  <2> QED BY <2>1, <2>2, <2>3 DEF Clear
<1>1. \A e \in Endpoints : toNode[e] \in Seq(Requests)
  BY SeqMonotone DEF ControlInv, CubeInv, RequestsFor
<1>2. Stop(ev.comp) \in Requests /\ Stop(ev.comp) # Alter(c)
  BY <1>0 DEF Requests, Stop, Alter
<1>3. ASSUME NEW n \in Nodes
      PROVE  /\ Told(n, c) => Told(n, c)'
             /\ c = ev.comp /\ First(n) = ev.to => Told(n, c)'
  <2>1. First(n) \in Endpoints
    BY SMTT(20), Z3T(20), SMTT(30) DEF First, Endpoints
  <2>2. CASE First(n) = ev.to
    <3>1. toNode'[First(n)] = Append(toNode[First(n)], Stop(ev.comp))
      BY <1>0, <2>1, <2>2
    <3> QED BY <1>0, <1>1, <1>2, <2>1, <3>1, CoveredPush DEF Told
  <2>3. CASE First(n) # ev.to
    BY <1>0, <2>1, <2>3 DEF Told
  <2> QED BY <2>2, <2>3
<1>4. \A e \in plan[c].ops : e \in DOMAIN workers
  BY UnhitKnown DEF ControlInv, Assigned
<1>5. CASE ev.comp # c
  <2>1. ~Opening(c) /\ ~Ending(c) /\ ~Ending(c)'
    BY <1>5 DEF Opening, Ending, StopSend, Idle
  <2>2. Entered(c)' /\ Held(c)' /\ Finds(c)'
    BY <1>0, <1>4, <1>5, <2>1, AgreedFrame
  <2>3. ToTell(c)' = {} /\ ToTell(c) = {} /\ (Over(c)' => Over(c))
    BY <1>0, <2>1 DEF ToTell, Over
  <2>4. StopTold(c)'
    BY <1>0, <1>3, <2>3, ToldFrame
  <2> QED BY <1>5, <2>2, <2>4 DEF Clear
<1>6. CASE ev.comp = c
  <2>1. NodeOf(ev.to) \in ToTell(c) /\ NodeOf(ev.to) \notin ev.left /\ ev.to = First(NodeOf(ev.to))
    BY <1>0, <1>6 DEF ToTell, Ending, Finds, NodeOf, Endpoints
  <2>2. ev.to \in plan[c].ops /\ c \in workers[ev.to] /\ ev.to \in DOMAIN workers
    BY <1>0, <1>4, <2>1 DEF Finds
  <2>3. ev' = [pc |-> "stop", comp |-> c, left |-> ev.left] /\ UNCHANGED raised
    BY <1>6, <2>2 DEF StopSend
  <2>4. Ending(c) /\ Ending(c)' /\ ~Opening(c) /\ ~Opening(c)'
    BY <1>0, <1>6, <2>3 DEF Ending, Opening
  <2>5. \A n \in ToTell(c) : n \in ToTell(c)' \/ First(n) = ev.to
    BY <1>0, <2>1, <2>3, <2>4 DEF ToTell
  <2>6. \A n \in ToTell(c)' : n \in ToTell(c) /\ First(n) # ev.to
    <3>1. \A n \in Nodes : NodeOf(First(n)) = n
      BY DEF NodeOf, First
    <3> QED BY <1>0, <2>1, <2>3, <2>4, <3>1 DEF ToTell
  <2>7. Entered(c)' /\ Held(c)'
    BY <1>0, <2>4 DEF Entered, Held, Assigned
  <2>8. Finds(c)'
    BY <1>0, <1>4, <2>3, <2>6 DEF Finds
  <2>9. StopTold(c)'
    BY <1>0, <1>3, <1>6, <2>4, <2>5 DEF StopTold, Over
  <2> QED BY <2>3, <2>7, <2>8, <2>9 DEF Clear
<1> QED BY <1>5, <1>6

\* The computation is forgotten when nobody is left to tell.
LEMMA StopEndClear ==
  ASSUME ControlInv, NEW c \in Comps, ~Hit(c), ~Hit(c)', Clear(c), StopEnd
  PROVE  Clear(c)'
<1>0. /\ UNCHANGED <<workers, plan, ops, halting, toNode, starters>>
      /\ ev.pc = "stop" /\ ev.left = {} /\ ev.comp \in Comps /\ ev' = Idle
      /\ DOMAIN computations' = DOMAIN computations \ {ev.comp}
      /\ \A b \in DOMAIN computations' : computations'[b] = computations[b]
      /\ stopped' = [stopped EXCEPT ![ev.comp] = IF @ = "raced" THEN @ ELSE "clean"]
      /\ DOMAIN stopped = Comps
      /\ Entered(c) /\ Held(c) /\ Finds(c) /\ StopTold(c)
  BY LoopTypes DEF StopEnd, registry, nodes, wires, ControlInv, OpsInv, Restrict, Clear
<1>1. ~Ending(c)' /\ ToTell(c) = {} /\ (Ending(c) <=> c = ev.comp) /\ ~Opening(c)
  BY <1>0 DEF Ending, Opening, ToTell, Idle
<1>2. StopTold(c)'
  <2>1. (Over(c)' => Over(c)) /\ \A n \in Nodes : Told(n, c)' = Told(n, c)
    BY <1>0, <1>1 DEF Over, Told
  <2> QED BY <1>0, <1>1, <2>1, ToldFrame
<1>3. CASE c = ev.comp
  <2>1. c \notin DOMAIN computations' /\ ToTell(c)' = {}
    BY <1>0, <1>1, <1>3 DEF ToTell
  <2> QED BY <1>1, <1>2, <2>1 DEF Clear, Entered, Held, Finds
<1>4. CASE c # ev.comp
  BY <1>0, <1>1, <1>2, <1>4, AgreedFrame DEF Clear
<1> QED BY <1>3, <1>4

\* A start is posted only before a stop that counts on it begins.
LEMMA StartSendClear ==
  ASSUME ControlInv, NEW c \in Comps, ~Hit(c), ~Hit(c)', Clear(c),
         NEW d \in Comps, NEW e \in Endpoints, StartSend(d, e)
  PROVE  Clear(c)'
<1>0. /\ UNCHANGED <<workers, computations, plan, ops, halting, stopped, ev>> /\ e \in starters[d]
      /\ starters'[c] \subseteq starters[c]
      /\ toNode' = toNode \/ toNode' = [toNode EXCEPT ![e] = Append(@, Alter(d))]
      /\ Entered(c) /\ Held(c) /\ Finds(c) /\ StopTold(c)
  <2>1. /\ UNCHANGED <<workers, computations, plan, ops, halting, stopped, ev>> /\ e \in starters[d]
        /\ toNode' = toNode \/ toNode' = [toNode EXCEPT ![e] = Append(@, Alter(d))]
        /\ starters' = [starters EXCEPT ![d] = @ \ {e}] \/ starters' = [starters EXCEPT ![d] = {}]
    BY DEF StartSend, registry, jobs, nodes, loop, Alter
  <2>2. starters'[c] \subseteq starters[c]
    <3>1. DOMAIN starters = Comps
      BY DEF ControlInv, CubeInv, TypesInv
    <3> QED BY <2>1, <3>1
  <2> QED BY <2>1, <2>2 DEF Clear
<1>1. toNode[e] \in Seq(Requests) /\ DOMAIN toNode = Endpoints
  BY SeqMonotone DEF ControlInv, CubeInv, RequestsFor
<1>2. ToTell(c)' = ToTell(c) /\ (Over(c)' => Over(c))
  BY <1>0 DEF ToTell, Over, Ending
<1>3. Entered(c)' /\ Held(c)' /\ Finds(c)'
  BY <1>0, AgreedFrame
<1>4. CASE c = d
  BY <1>0, <1>2, <1>3, <1>4 DEF StopTold, Clear
<1>5. CASE c # d
  <2>1. Alter(d) \in Requests /\ Alter(d) # Alter(c)
    BY <1>5 DEF Requests, Alter
  <2>2. /\ NoAlter(toNode[e], c) => NoAlter(Append(toNode[e], Alter(d)), c)
        /\ Covered(toNode[e], c) => Covered(Append(toNode[e], Alter(d)), c)
    BY <1>1, <2>1, CoveredPush
  <2>3. ASSUME NEW n \in Nodes PROVE Told(n, c) => Told(n, c)'
    <3>1. toNode'[First(n)] = toNode[First(n)] \/ (First(n) = e /\ toNode'[e] = Append(toNode[e], Alter(d)))
      BY SMTT(20), Z3T(20), SMTT(30), <1>0, <1>1 DEF First, Endpoints
    <3> QED BY <1>0, <2>2, <3>1 DEF Told
  <2>4. StopTold(c)'
    BY <1>0, <1>2, <2>3, ToldFrame
  <2> QED BY <1>3, <2>4 DEF Clear
<1> QED BY <1>4, <1>5

\* A node takes a control message: a start it had been told to stop again stays
\* covered, and a stop leaves nothing to start.
LEMMA NodeClear ==
  ASSUME ControlInv, NEW c \in Comps, ~Hit(c), ~Hit(c)', Clear(c),
         NEW e \in Endpoints, NodeAlter(e) \/ NodeAlterFails(e) \/ NodeStop(e)
  PROVE  Clear(c)'
<1>0. /\ UNCHANGED <<workers, computations, plan, starters, stopped, ev>> /\ toNode[e] # <<>>
      /\ toNode' = [toNode EXCEPT ![e] = Tail(@)] /\ DOMAIN toNode = Endpoints
      /\ proc[NodeOf(e)] = e /\ halting[NodeOf(e)] = None
      /\ Entered(c) /\ Held(c) /\ Finds(c) /\ StopTold(c)
  BY DEF NodeAlter, NodeAlterFails, NodeStop, Received, registry, jobs, loop, ControlInv, CubeInv, Clear
<1>1. NodeOf(e) \in Nodes /\ ops \in [Nodes -> SUBSET Comps] /\ halting \in [Nodes -> Comps \union {None}]
  BY DEF NodeOf, Endpoints, ControlInv, CubeInv, OpsInv
<1>2. toNode[e] \in Seq(Requests) /\ Head(toNode[e]) \in Requests
  <2>1. toNode[e] \in Seq(Requests)
    BY SeqMonotone DEF ControlInv, CubeInv, RequestsFor
  <2> QED BY <1>0, <2>1, SeqPop
<1>3. PICK d \in Comps :
        \/ /\ Head(toNode[e]) = Alter(d) /\ UNCHANGED halting
           /\ ops' = ops \/ ops' = [ops EXCEPT ![NodeOf(e)] = @ \union {d}]
        \/ Head(toNode[e]) = Stop(d) /\ UNCHANGED ops /\ halting' = [halting EXCEPT ![NodeOf(e)] = d]
  <2>1. PICK d \in Comps : d = Head(toNode[e]).comp
    BY <1>2 DEF Requests
  <2>2. Head(toNode[e]) = [type |-> Head(toNode[e]).type, comp |-> d]
    BY <1>2, <2>1 DEF Requests
  <2>3. ops = [ops EXCEPT ![NodeOf(e)] = @]
    BY <1>1
  <2>4. CASE NodeAlter(e)
    BY <2>1, <2>2, <2>3, <2>4 DEF NodeAlter, Received, Alter
  <2>5. CASE NodeAlterFails(e)
    BY <2>1, <2>2, <2>5 DEF NodeAlterFails, Received, Alter
  <2>6. CASE NodeStop(e)
    BY <2>1, <2>2, <2>6 DEF NodeStop, Received, Stop
  <2> QED BY <2>4, <2>5, <2>6
<1>4. \A a, b \in Comps : Alter(a) # Stop(b) /\ (Alter(a) = Alter(b) => a = b) /\ (Stop(a) = Stop(b) => a = b)
  BY DEF Alter, Stop
<1>5. ASSUME NEW n \in Nodes, First(n) \in plan[c].ops, Told(n, c) PROVE Told(n, c)'
  <2>0. proc[n] = First(n) /\ First(n) \in Endpoints /\ NodeOf(First(n)) = n
    <3>1. NodeOf(First(n)) = n /\ First(n) \in Assigned(c)
      BY <1>5 DEF NodeOf, First, Assigned
    <3>2. n \notin lost /\ First(n) \in DOMAIN workers
      BY <3>1, UnhitKnown DEF ControlInv
    <3> QED BY <3>1, <3>2 DEF ControlInv, HomesInv, MapsInv
  <2>1. CASE First(n) # e
    <3>1. toNode'[First(n)] = toNode[First(n)]
      BY <1>0, <2>0, <2>1
    <3>2. NodeOf(e) # n
      BY <1>0, <2>0, <2>1
    <3>3. ops'[n] = ops[n] /\ halting'[n] = halting[n]
      BY <1>1, <1>3, <3>2
    <3> QED BY <1>5, <3>1, <3>3 DEF Told
  <2>2. CASE First(n) = e
    <3>1. toNode'[e] = Tail(toNode[e]) /\ NodeOf(e) = n /\ halting[n] # c
      BY <1>0, <2>0, <2>2, ControllerAssumption
    <3>2. /\ NoAlter(toNode[e], c) => NoAlter(toNode'[e], c) /\ Head(toNode[e]) # Alter(c)
          /\ Covered(toNode[e], c) => Covered(toNode'[e], c) \/ (Head(toNode[e]) = Stop(c) /\ NoAlter(toNode'[e], c))
      <4>1. Head(toNode[e]) = toNode[e][1] /\ 1 \in 1 .. Len(toNode[e])
        BY <1>0, <1>2
      <4> QED BY <1>0, <1>2, <3>1, <4>1, CoveredPop DEF NoAlter
    <3>3. CASE Covered(toNode'[e], c)
      BY <2>2, <3>3 DEF Told
    <3>4. CASE NoAlter(toNode'[e], c) /\ Head(toNode[e]) = Stop(c)
      <4>1. halting' = [halting EXCEPT ![n] = c]
        BY <1>3, <1>4, <3>1, <3>4
      <4>2. halting'[n] = c
        BY <1>1, <4>1
      <4> QED BY <2>2, <3>4, <4>2 DEF Told
    <3>5. CASE NoAlter(toNode'[e], c) /\ Head(toNode[e]) # Alter(c) /\ c \notin ops[n]
      <4>1. c \notin ops'[n]
        BY <1>1, <1>3, <3>1, <3>5
      <4> QED BY <2>2, <3>5, <4>1 DEF Told
    <3> QED BY <1>5, <2>2, <3>1, <3>2, <3>3, <3>4, <3>5 DEF Told
  <2> QED BY <2>1, <2>2
<1>6. ToTell(c)' = ToTell(c) /\ (Over(c)' => Over(c))
  BY <1>0 DEF ToTell, Over, Ending
<1>7. StopTold(c)'
  BY <1>0, <1>5, <1>6, ToldFrame
<1>8. Entered(c)' /\ Held(c)' /\ Finds(c)'
  BY <1>0, AgreedFrame
<1> QED BY <1>7, <1>8 DEF Clear

\* The end of a stop, and the restart of a node that c does not use.
LEMMA EndClear ==
  ASSUME ControlInv, NEW c \in Comps, ~Hit(c), ~Hit(c)', Clear(c),
         NEW n \in Nodes, NodeStopped(n) \/ Restart(n)
  PROVE  Clear(c)'
<1>0. /\ UNCHANGED <<workers, computations, plan, starters, stopped, ev, toNode>>
      /\ Entered(c) /\ Held(c) /\ Finds(c) /\ StopTold(c)
      /\ ops \in [Nodes -> SUBSET Comps] /\ halting \in [Nodes -> Comps \union {None}]
  BY DEF NodeStopped, Restart, registry, jobs, loop, wires, Clear, ControlInv, OpsInv, CubeInv
<1>1. \/ ops' = [ops EXCEPT ![n] = @ \ {halting[n]}] /\ halting' = [halting EXCEPT ![n] = None]
      \/ ops' = [ops EXCEPT ![n] = {}]
  BY DEF NodeStopped, Restart
<1>2. ASSUME NEW m \in Nodes, Told(m, c) PROVE Told(m, c)'
  <2>1. CASE m = n
    <3>1. c \notin ops'[n] \/ (c \in ops[n] /\ halting[n] # c)
      BY <1>0, <1>1
    <3> QED BY <1>0, <1>2, <2>1, <3>1 DEF Told
  <2>2. CASE m # n
    <3>1. ops'[m] = ops[m] /\ halting'[m] = halting[m]
      BY <1>0, <2>2 DEF NodeStopped, Restart
    <3> QED BY <1>0, <1>2, <3>1 DEF Told
  <2> QED BY <2>1, <2>2
<1>3. ToTell(c)' = ToTell(c) /\ (Over(c)' => Over(c))
  BY <1>0 DEF ToTell, Over, Ending
<1>4. StopTold(c)'
  BY <1>0, <1>2, <1>3, ToldFrame
<1>5. Entered(c)' /\ Held(c)' /\ Finds(c)'
  BY <1>0, AgreedFrame
<1> QED BY <1>4, <1>5 DEF Clear

\* The invariant of an unhit computation, step by step.
LEMMA ClearStep ==
  ASSUME ControlInv, Kept, [Next]_vars, NEW c \in Comps
  PROVE  Hit(c)' \/ Clear(c)'
<1> SUFFICES ASSUME ~Hit(c)' PROVE Clear(c)'
  OBVIOUS
<1>0. ~Hit(c) /\ Clear(c)
  BY HitKept DEF ControlInv
<1>1. CASE AlterBegin \/ AlterPlan \/ AlterNoPlan \/ AlterAssign \/ AlterRaises
  BY <1>0, <1>1, AlterClear
<1>2. CASE (\E n \in Nodes : StopLookup(n)) \/ StopRead
  BY <1>0, <1>2, StopLookupClear
<1>3. CASE StopSend \/ StopEnd
  BY <1>0, <1>3, StopSendClear, StopEndClear
<1>4. ASSUME NEW d \in Comps, StopBegin(d) \/ \E e \in Endpoints : StartSend(d, e) PROVE Clear(c)'
  BY <1>0, <1>4, StopBeginClear, StartSendClear
<1>5. ASSUME NEW e \in Endpoints, NodeAlter(e) \/ NodeAlterFails(e) \/ NodeStop(e) PROVE Clear(c)'
  BY <1>0, <1>5, NodeClear
<1>6. ASSUME NEW n \in Nodes, NodeStopped(n) \/ Restart(n) PROVE Clear(c)'
  BY <1>0, <1>6, EndClear
<1>7. ASSUME NEW e \in Endpoints, Heartbeat(e) \/ Timeout(e) \/ Closed(e) \/ Response(e) PROVE Clear(c)'
  BY <1>0, <1>7, RegistryClear
<1>8. CASE UNCHANGED vars
  <2>1. UNCHANGED <<workers, computations, plan, starters, ev, toNode, ops, halting, stopped>>
    BY <1>8 DEF vars, registry, jobs, loop, wires, nodes
  <2>2. ToTell(c)' = ToTell(c) /\ (Over(c)' => Over(c)) /\ \A n \in Nodes : Told(n, c)' = Told(n, c)
    BY <2>1 DEF ToTell, Over, Ending, Told
  <2> QED BY <1>0, <2>1, <2>2, AgreedFrame, ToldFrame DEF Clear
<1> QED
  BY ZenonT(20), <1>1, <1>2, <1>3, <1>4, <1>5, <1>6, <1>7, <1>8 DEF Next, LoopStep, NodeStep

-----------------------------------------------------------------------------
(* Exceptions, operators and the invariant as a whole.                     *)

\* A stop sends to a worker of its computation, unless a node of it was lost.
LEMMA StopReaches ==
  ASSUME ControlInv, ev.pc = "send"
  PROVE  /\ Reached(ev.comp, ev.to)
         /\ Hit(ev.comp) \/ (ev.to \in DOMAIN workers /\ ev.comp \in workers[ev.to])
<1>1. ev.comp \in Comps /\ ev.to \in Endpoints
  BY SMTT(20), Z3T(20), SMTT(30), LoopTypes DEF ControlInv, CubeInv, TypesInv
<1>2. ASSUME ~Hit(ev.comp)
      PROVE  ev.to \in plan[ev.comp].ops /\ ev.comp \in workers[ev.to]
  <2>1. NodeOf(ev.to) \in ToTell(ev.comp)
    BY <1>1 DEF ToTell, Ending, NodeOf, Endpoints
  <2>2. Finds(ev.comp) /\ Ending(ev.comp)
    BY <1>1, <1>2 DEF ControlInv, Clear, Ending
  <2> QED BY <2>1, <2>2 DEF Finds
<1>3. ~Hit(ev.comp) => ev.to \in DOMAIN workers
  BY <1>1, <1>2, UnhitKnown DEF ControlInv, Assigned
<1> QED BY <1>2, <1>3 DEF Reached, Assigned

\* The entry that a stop has looked up is still there, unless a node was lost.
LEMMA StopReads ==
  ASSUME ControlInv, ev.pc = "read", ~Hit(ev.comp)
  PROVE  local[ev.node] # None
<1>1. ev.comp \in Comps /\ ev.node \in Nodes
  BY SMTT(20), Z3T(20), SMTT(30), LoopTypes DEF ControlInv, CubeInv, TypesInv
<1>2. ev.node \in ToTell(ev.comp) /\ Finds(ev.comp)
  BY <1>1 DEF ToTell, Ending, ControlInv, Clear
<1>3. First(ev.node) \in Assigned(ev.comp) /\ NodeOf(First(ev.node)) = ev.node /\ First(ev.node) \in Endpoints
  BY <1>1, <1>2 DEF Finds, Assigned, NodeOf, First, Endpoints
<1>4. local[ev.node] = First(ev.node)
  BY <1>1, <1>3, UnhitKnown DEF ControlInv
<1> QED BY <1>3, <1>4, ControllerAssumption

\* A response is accepted, unless a node was lost.
LEMMA ResponseAccepted ==
  ASSUME ControlInv, ev = Idle, NEW e \in Endpoints, toCtl[e] # <<>>,
         Head(toCtl[e]).comp \in DOMAIN computations, ~Hit(Head(toCtl[e]).comp)
  PROVE  e \in DOMAIN workers /\ NodeOf(e) \in DOMAIN computations[Head(toCtl[e]).comp]
<1>1. Head(toCtl[e]) \in RepliesFor(e)
  BY SeqPop DEF ControlInv, CubeInv
<1>2. PICK c \in Comps : c = Head(toCtl[e]).comp /\ e \in Assigned(c)
  BY <1>1 DEF RepliesFor, Replies, Reached
<1>3. Entered(c) /\ ~Opening(c)
  BY <1>2 DEF ControlInv, Clear, Opening, Idle
<1>4. DOMAIN computations[c] = {NodeOf(d) : d \in Assigned(c)}
  BY <1>2, <1>3 DEF Entered
<1>5. e \in DOMAIN workers
  BY <1>2, UnhitKnown DEF ControlInv
<1> QED BY <1>2, <1>4, <1>5

\* Every exception is about a computation that lost a node or has no plan.
LEMMA RaisedStep ==
  ASSUME ControlInv, Kept, [Next]_vars
  PROVE  RaisedInv'
<1>1. ASSUME NEW c \in Comps, Hit(c) PROVE Planned(c)' /\ Hit(c)'
  BY <1>1, HitKept DEF ControlInv, CubeInv, Hit, Kept
<1>2. \A c \in raised : c \in Comps /\ Planned(c)' /\ (Hit(c)' \/ Assigned(c)' = {})
  BY <1>1, HitKept DEF ControlInv, RaisedInv, Kept
<1>3. CASE UNCHANGED raised
  BY <1>2, <1>3 DEF RaisedInv
<1>4. ASSUME NEW c \in Comps, Raise(c), Hit(c) PROVE RaisedInv'
  BY <1>1, <1>2, <1>4 DEF RaisedInv, Raise
<1>5. CASE AlterNoPlan
  <2>1. PICK c \in Comps : c = ev.comp /\ c < nextCompID
    BY <1>5, LoopTypes DEF AlterNoPlan
  <2>2. Planned(c)'
    BY <1>5, <2>1 DEF AlterNoPlan, Planned, Idle, jobs
  <2>3. Assigned(c) = {} /\ UNCHANGED plan
    BY <1>5, <2>1 DEF AlterNoPlan, jobs, ControlInv, CubeInv, Planned
  <2>4. raised' \subseteq raised \union {c}
    BY <1>5, <2>1 DEF AlterNoPlan, Raise
  <2> QED BY <1>2, <2>1, <2>2, <2>3, <2>4 DEF RaisedInv, Assigned
<1>6. CASE AlterRaises
  <2>1. ev.comp \in Comps /\ Raise(ev.comp)
    BY <1>6, LoopTypes DEF AlterRaises
  <2> QED BY <1>4, <1>6, <2>1, NoAlterRaises
<1>7. CASE StopRead
  <2>1. ev.comp \in Comps /\ ev.pc = "read"
    BY <1>7, LoopTypes DEF StopRead
  <2>2. UNCHANGED raised \/ (Raise(ev.comp) /\ Hit(ev.comp))
    BY <1>7, <2>1, StopReads DEF StopRead
  <2> QED BY <1>3, <1>4, <2>1, <2>2
<1>8. CASE StopSend
  <2>1. ev.comp \in Comps /\ ev.pc = "send"
    BY <1>8, LoopTypes DEF StopSend
  <2>2. UNCHANGED raised \/ (Raise(ev.comp) /\ Hit(ev.comp))
    BY <1>8, <2>1, StopReaches DEF StopSend
  <2> QED BY <1>3, <1>4, <2>1, <2>2
<1>9. ASSUME NEW e \in Endpoints, Response(e) PROVE RaisedInv'
  <2>1. UNCHANGED raised \/ \E c \in Comps : Raise(c) /\ Hit(c)
    <3> SUFFICES ASSUME raised' # raised PROVE \E c \in Comps : Raise(c) /\ Hit(c)
      OBVIOUS
    <3>1. /\ ev = Idle /\ toCtl[e] # <<>> /\ Raise(Head(toCtl[e]).comp)
          /\ Head(toCtl[e]).comp \in DOMAIN computations
          /\ ~(e \in DOMAIN workers /\ NodeOf(e) \in DOMAIN computations[Head(toCtl[e]).comp])
      BY <1>9 DEF Response
    <3>2. Hit(Head(toCtl[e]).comp) /\ Head(toCtl[e]).comp \in Comps
      BY <3>1, ResponseAccepted, LoopTypes
    <3> QED BY <3>1, <3>2
  <2> QED BY <1>3, <1>4, <2>1
<1>10. ASSUME NEW e \in Endpoints, Heartbeat(e) \/ Timeout(e) \/ Closed(e) PROVE UNCHANGED raised
  BY <1>10 DEF Heartbeat, Timeout, Closed
<1>11. ASSUME NEW n \in Nodes, NodeStep(n) \/ NodeStopped(n) \/ Restart(n) \/ StopLookup(n) PROVE UNCHANGED raised
  BY <1>11 DEF NodeStep, NodeAlter, NodeAlterFails, NodeStop, NodeStopped, Restart, StopLookup
<1>12. ASSUME NEW c \in Comps, StopBegin(c) \/ \E e \in Endpoints : StartSend(c, e) PROVE UNCHANGED raised
  BY <1>12 DEF StopBegin, StartSend
<1>13. CASE AlterBegin \/ AlterPlan \/ AlterAssign \/ StopEnd \/ UNCHANGED vars
  BY <1>3, <1>13 DEF AlterBegin, AlterPlan, AlterAssign, StopEnd, vars
<1> QED
  BY ZenonT(20), <1>3, <1>5, <1>6, <1>7, <1>8, <1>9, <1>10, <1>11, <1>12, <1>13 DEF Next, LoopStep

\* Operators run where they were planned: a node starts what it is sent, and a
\* plan does not change.
LEMMA OpsStep ==
  ASSUME ControlInv, Kept, [Next]_vars
  PROVE  OpsInv'
<1>0. /\ DOMAIN stopped = Comps /\ ops \in [Nodes -> SUBSET Comps]
      /\ \A n \in Nodes : \A c \in ops[n] : proc[n] \in plan[c].ops
      /\ proc \in [Nodes -> Endpoints] /\ \A n \in Nodes : NodeOf(proc[n]) = n
  BY DEF ControlInv, OpsInv, CubeInv
<1>1. \A n \in Nodes : \A c \in ops[n] : proc[n] \in plan'[c].ops
  BY <1>0 DEF Kept, ControlInv, CubeInv, Assigned
<1>2. DOMAIN stopped' = Comps
  <2>1. stopped' = stopped \/ \E c \in Comps : \E v : stopped' = [stopped EXCEPT ![c] = v]
    <3>1. CASE StopEnd
      <4>1. ev.comp \in Comps
        BY <3>1, LoopTypes DEF StopEnd
      <4> QED BY <3>1, <4>1 DEF StopEnd
    <3>2. ASSUME NEW c \in Comps, StopBegin(c) PROVE \E v : stopped' = [stopped EXCEPT ![c] = v]
      BY <3>2 DEF StopBegin
    <3>3. CASE stopped' = stopped
      BY <3>3
    <3>4. ASSUME NEW n \in Nodes, NodeStep(n) \/ NodeStopped(n) \/ Restart(n) \/ StopLookup(n) PROVE stopped' = stopped
      BY <3>4 DEF NodeStep, NodeAlter, NodeAlterFails, NodeStop, NodeStopped, Restart, StopLookup, loop
    <3>5. ASSUME NEW e \in Endpoints, Response(e) \/ Heartbeat(e) \/ Timeout(e) \/ Closed(e) PROVE stopped' = stopped
      BY <3>5 DEF Response, Heartbeat, Timeout, Closed, loop
    <3>6. ASSUME NEW c \in Comps, NEW e \in Endpoints, StartSend(c, e) PROVE stopped' = stopped
      BY <3>6 DEF StartSend, loop
    <3>7. ASSUME AlterBegin \/ AlterPlan \/ AlterNoPlan \/ AlterAssign \/ AlterRaises \/ StopRead \/ StopSend \/ UNCHANGED vars
          PROVE  stopped' = stopped
      BY <3>7 DEF AlterBegin, AlterPlan, AlterNoPlan, AlterAssign, AlterRaises, StopRead, StopSend, vars, loop
    <3> QED BY ZenonT(20), <3>1, <3>2, <3>3, <3>4, <3>5, <3>6, <3>7 DEF Next, LoopStep
  <2> QED BY <1>0, <2>1
<1>3. CASE UNCHANGED <<ops, proc>>
  BY <1>0, <1>1, <1>2, <1>3 DEF OpsInv
<1>4. ASSUME NEW e \in Endpoints, NodeAlter(e) \/ NodeAlterFails(e) \/ NodeStop(e) PROVE OpsInv'
  <2>1. UNCHANGED <<plan, proc>> /\ toNode[e] # <<>> /\ proc[NodeOf(e)] = e
    BY <1>4 DEF NodeAlter, NodeAlterFails, NodeStop, Received, jobs
  <2>2. PICK c \in Comps : c = Head(toNode[e]).comp
    <3>1. Head(toNode[e]) \in RequestsFor(e)
      BY <2>1, SeqPop DEF ControlInv, CubeInv
    <3> QED BY <3>1 DEF RequestsFor, Requests
  <2>3. ops' = ops \/ (e \in plan[c].ops /\ ops' = [ops EXCEPT ![NodeOf(e)] = @ \union {c}])
    <3>1. ops = [ops EXCEPT ![NodeOf(e)] = @]
      BY <1>0
    <3> QED BY <1>4, <2>2, <3>1 DEF NodeAlter, NodeAlterFails, NodeStop
  <2>4. ops' \in [Nodes -> SUBSET Comps] /\ \A n \in Nodes : \A d \in ops'[n] : proc[n] \in plan[d].ops
    BY SMTT(20), Z3T(20), SMTT(30), <1>0, <2>1, <2>3
  <2> QED BY <1>2, <2>1, <2>4 DEF OpsInv
<1>5. ASSUME NEW n \in Nodes, NodeStopped(n) PROVE OpsInv'
  <2>1. UNCHANGED <<plan, proc>> /\ ops' = [ops EXCEPT ![n] = @ \ {halting[n]}]
    BY <1>5 DEF NodeStopped, jobs
  <2> QED BY <1>0, <1>2, <2>1 DEF OpsInv
<1>6. ASSUME NEW n \in Nodes, Restart(n) PROVE OpsInv'
  <2>1. UNCHANGED plan /\ ops' = [ops EXCEPT ![n] = {}] /\ \A m \in Nodes : m = n \/ proc'[m] = proc[m]
    BY <1>0, <1>6 DEF Restart, jobs
  <2> QED BY <1>0, <1>2, <2>1 DEF OpsInv
<1>7. ASSUME NEW e \in Endpoints, Response(e) \/ Heartbeat(e) \/ Timeout(e) \/ Closed(e) PROVE UNCHANGED <<ops, proc>>
  BY <1>7 DEF Response, Heartbeat, Timeout, Closed, nodes
<1>8. ASSUME NEW c \in Comps, StopBegin(c) \/ \E e \in Endpoints : StartSend(c, e) PROVE UNCHANGED <<ops, proc>>
  BY <1>8 DEF StopBegin, StartSend, nodes
<1>9. ASSUME \/ AlterBegin \/ AlterPlan \/ AlterNoPlan \/ AlterAssign \/ AlterRaises
             \/ (\E n \in Nodes : StopLookup(n)) \/ StopRead \/ StopSend \/ StopEnd \/ UNCHANGED vars
      PROVE  UNCHANGED <<ops, proc>>
  BY <1>9 DEF AlterBegin, AlterPlan, AlterNoPlan, AlterAssign, AlterRaises, StopLookup, StopRead, StopSend,
              StopEnd, vars, nodes
<1> QED BY ZenonT(20), <1>3, <1>4, <1>5, <1>6, <1>7, <1>8, <1>9 DEF Next, LoopStep, NodeStep

\* The start.
LEMMA InitControl == Init => ControlInv
<1> SUFFICES ASSUME Init PROVE ControlInv
  OBVIOUS
<1>1. OpsInv /\ RaisedInv
  BY DEF Init, OpsInv, RaisedInv
<1>2. ASSUME NEW c \in Comps PROVE Clear(c)
  <2>1. ToTell(c) = {} /\ ~Ending(c) /\ DOMAIN computations = {} /\ starters[c] = {} /\ plan[c].ops = {}
    BY DEF Init, ToTell, Ending, Idle
  <2> QED BY <2>1 DEF Clear, Entered, Held, Finds, StopTold
<1> QED BY <1>1, <1>2, InitMaps, InitCubes, InitHomes DEF ControlInv

\* Every step.
LEMMA ControlStep == ControlInv /\ [Next]_vars => ControlInv'
<1> SUFFICES ASSUME ControlInv, [Next]_vars PROVE ControlInv'
  OBVIOUS
<1>1. ev.pc = "send" => Reached(ev.comp, ev.to)
  BY StopReaches
<1>2. MapsInv' /\ Kept /\ CubeInv'
  BY <1>1, MapsStep, CubesStep DEF ControlInv
<1>3. HomesInv'
  BY <1>2, HomesStep DEF ControlInv
<1>4. OpsInv' /\ RaisedInv'
  BY <1>2, OpsStep, RaisedStep
<1>5. \A c \in Comps : Hit(c)' \/ Clear(c)'
  BY <1>2, ClearStep
<1> QED BY <1>2, <1>3, <1>4, <1>5 DEF ControlInv

-----------------------------------------------------------------------------
(* The theorems.                                                           *)

\* nodeID_to_local names only registered workers of that node with an open
\* connection, whatever the order of registrations, deaths and restarts.
THEOREM MapsAgree == Spec => []LocalIsRegistered
<1>1. MapsInv /\ [Next]_vars => MapsInv'
  BY MapsStep
<1>2. MapsInv => LocalIsRegistered
  BY DEF MapsInv
<1> QED BY InitMaps, <1>1, <1>2, PTL DEF Spec

\* A handler of the controller raises only about a computation that was planned
\* onto a node that was lost, or that has no plan, for any number of workers
\* and computations, and however many faults the others have met.
THEOREM RaisesConfined == Spec => []RaisesNeedFault
<1>1. ControlInv => RaisesNeedFault
  BY DEF ControlInv, RaisedInv, RaisesNeedFault
<1> QED BY <1>1, InitControl, ControlStep, PTL DEF Spec

\* The tables of the controller keep their types, in particular what the event
\* loop and the starting threads hold names a listed computation and its plan.
THEOREM TypeCorrect == Spec => []TypeOK
<1>1. TypesInv => TypeOK
  BY DEF TypesInv
<1> QED BY <1>1, InitTypes, TypesStep, PTL DEF Spec

\* cube_locations lists a cube only after its create was acknowledged, and the
\* cube is there until its node's process is replaced, through lost workers,
\* late replies, stops and restarts.
THEOREM ListedCubesExist == Spec => []ListedCubeExists
<1>1. ControlInv => ListedCubeExists
  BY DEF ControlInv, CubeInv
<1> QED BY <1>1, InitControl, ControlStep, PTL DEF Spec

\* A node that runs operators of a forgotten computation is stopping them or
\* going to, unless a node of that computation was lost or the stop overtook
\* the starting thread.
THEOREM NoSilentOrphans == Spec => []OrphansExplained
<1>1. ControlInv => OrphansExplained
  <2> SUFFICES ASSUME ControlInv, NEW n \in Nodes, NEW c \in ops[n], c \notin DOMAIN computations, ~Hit(c),
                      stopped[c] # "raced", halting[n] # c
               PROVE  \E i \in 1 .. Len(toNode[proc[n]]) :
                        toNode[proc[n]][i] = [type |-> "STOP", comp |-> c]
    BY DEF OrphansExplained
  <2>1. c \in Comps /\ proc[n] \in plan[c].ops /\ StopTold(c) /\ NodeOf(proc[n]) = n
    BY DEF ControlInv, OpsInv, Clear, CubeInv
  <2>2. proc[n] = First(n)
    BY <2>1 DEF Hit, Assigned, ControlInv, HomesInv
  <2>3. Over(c) /\ ToTell(c) = {}
    <3>1. ~Ending(c)
      BY LoopTypes DEF Ending
    <3> QED BY <3>1 DEF Over, ToTell
  <2>4. Covered(toNode[First(n)], c)
    BY <2>1, <2>2, <2>3 DEF StopTold, Told
  <2> QED BY <2>2, <2>4 DEF Covered, Stop
<1> QED BY <1>1, InitControl, ControlStep, PTL DEF Spec

=============================================================================
