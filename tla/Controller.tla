------------------------------ MODULE Controller ------------------------------
(***************************************************************************)
(* The controller (controller.py, computation_state.py) and the workers'   *)
(* control connections: registration by heartbeat, death by timeout or by  *)
(* a closed connection, start and stop of computations.                    *)
(*                                                                         *)
(* Threads.  The event loop (ev) runs every message handler to its end;    *)
(* handle_alter and stop_computation are split where they do not hold      *)
(* stateLock.  The liveness thread removes silent workers under the lock.  *)
(* Each started computation has a thread that sends its ALTERs.  A node    *)
(* answers its control messages one at a time.                             *)
(*                                                                         *)
(* An exception in a handler reaches asyncore, which closes the channel    *)
(* the message came from, and with it the worker at its other end.         *)
(* A computation is its ID.  RESTART_FAILED_WORK is False, as shipped, so  *)
(* pending_work stays empty.                                               *)
(***************************************************************************)
EXTENDS Integers, Sequences, FiniteSets, Functions

CONSTANTS
  Nodes,        \* dataplane addresses (node IDs)
  Unstable,     \* bound: nodes that are declared dead, or replaced by a new process, once
  MaxComps,     \* bound: computations that are started
  MaxStops,     \* bound: stop requests that are handled
  None

Comps == 1 .. MaxComps

\* The outgoing address of a node's process: a new one after a restart.
Endpoints == Nodes \X (1 .. 2)

ASSUME ControllerAssumption ==
  /\ Unstable \subseteq Nodes /\ MaxComps \in Nat /\ MaxStops \in Nat
  /\ None \notin Nodes \union Endpoints \union Comps

NodeOf(e) == e[1]

VARIABLES
  workers,       \* registered endpoint -> IDs of the CWorker's assignments
  local,         \* nodeID_to_local
  computations,  \* ID -> (node -> its assignment is RUNNING)
  nextCompID,
  cubeLoc,       \* cube_locations, of the cube each computation creates
  handlers,      \* addr_to_handler
  ev,            \* what the event loop is doing
  starters,      \* ID -> endpoints its starting thread has still to send to
  plan,          \* the planner's assignments: endpoints for operators, for the cube
  toNode, toCtl, \* messages on a control connection, per endpoint
  proc,          \* the endpoint of each node's process
  ops, cubes,    \* the computations with operators, with a cube, on a node
  halting,       \* the computation that a node's stop_computation is at work on
  stops,         \* counts stop requests
  lost,          \* nodes whose worker was declared dead or whose process was replaced
  raised,        \* the computations a handler raised about
  refused,       \* the computations an ALTER of which failed on a node
  stopped        \* ID -> "no", "asked", "raced", or "clean" once the stop is answered

registry == <<workers, local, cubeLoc>>
jobs == <<computations, nextCompID, plan>>
loop == <<ev, stops, stopped>>
wires == <<toNode, toCtl>>
nodes == <<proc, ops, cubes, halting, refused>>
vars == <<registry, jobs, loop, wires, nodes, handlers, starters, lost, raised>>

Idle == [pc |-> "idle"]

Assigned(c) == plan[c].ops \union plan[c].cube \union plan[c].bare

CubeOn(c, e) == e \in plan[c].cube

\* A handler ends with an exception, at work on computation c.
Raise(c) == raised' = raised \union {c}

\* A node that c was planned onto was lost.
Hit(c) == \E e \in Assigned(c) : NodeOf(e) \in lost

Init ==
  /\ workers = <<>> /\ local = [n \in Nodes |-> None] /\ cubeLoc = [c \in Comps |-> None]
  /\ computations = <<>> /\ nextCompID = 1
  /\ plan = [c \in Comps |-> [ops |-> {}, cube |-> {}, bare |-> {}]]
  /\ ev = Idle /\ stops = 0 /\ stopped = [c \in Comps |-> "no"]
  /\ toNode = [e \in Endpoints |-> <<>>] /\ toCtl = [e \in Endpoints |-> <<>>]
  /\ proc = [n \in Nodes |-> <<n, 1>>] /\ ops = [n \in Nodes |-> {}]
  /\ cubes = [n \in Nodes |-> {}] /\ halting = [n \in Nodes |-> None] /\ refused = {}
  /\ handlers = {<<n, 1>> : n \in Nodes} /\ starters = [c \in Comps |-> {}]
  /\ lost = {} /\ raised = {}

-------------------------------------------------------------------------------
(* Registration and death of workers *)

\* Mutant: the map from node IDs to endpoints is not cleaned.
WorkerDiedKeepsLocal(e) ==
  /\ workers' = Restrict(workers, DOMAIN workers \ {e})
  /\ UNCHANGED local
  /\ cubeLoc' = [c \in Comps |-> IF c \in workers[e] /\ CubeOn(c, e) THEN None ELSE cubeLoc[c]]
  /\ lost' = lost \union {NodeOf(e)}

\* worker_died.  The entry of nodeID_to_local goes whichever endpoint it names.
WorkerDied(e) ==
  /\ workers' = Restrict(workers, DOMAIN workers \ {e})
  /\ local' = [local EXCEPT ![NodeOf(e)] = None]
  /\ cubeLoc' = [c \in Comps |-> IF c \in workers[e] /\ CubeOn(c, e) THEN None ELSE cubeLoc[c]]
  /\ lost' = lost \union {NodeOf(e)}

\* handle_connection_close
ConnectionGone(e) ==
  /\ handlers' = handlers \ {e}
  /\ toCtl' = [toCtl EXCEPT ![e] = <<>>]
  /\ IF e \in DOMAIN workers THEN WorkerDied(e) ELSE UNCHANGED <<registry, lost>>

\* handle_heartbeat: a node sends heartbeats as long as it is connected.
Heartbeat(e) ==
  /\ ev = Idle /\ e \in handlers
  /\ e \notin DOMAIN workers
  /\ workers' = [x \in DOMAIN workers \union {e} |-> IF x = e THEN {} ELSE workers[x]]
  /\ local' = [local EXCEPT ![NodeOf(e)] = e]
  /\ UNCHANGED <<cubeLoc, jobs, loop, wires, nodes, handlers, starters, lost, raised>>

\* liveness_thread, on a worker it has not heard of for hbTimeout
Timeout(e) ==
  /\ e \in DOMAIN workers /\ NodeOf(e) \in Unstable
  /\ WorkerDied(e)
  /\ UNCHANGED <<jobs, loop, wires, nodes, handlers, starters, raised>>

\* The connection of a process that is gone is seen closed.
Closed(e) ==
  /\ ev = Idle /\ e \in handlers /\ proc[NodeOf(e)] # e
  /\ ConnectionGone(e)
  /\ UNCHANGED <<jobs, loop, toNode, nodes, starters, raised>>

-------------------------------------------------------------------------------
(* Starting a computation *)

\* Mutant: the new computation is not entered in the table.
AlterBeginUnlisted ==
  /\ ev = Idle /\ DOMAIN workers # {} /\ nextCompID <= MaxComps
  /\ nextCompID' = nextCompID + 1
  /\ ev' = [pc |-> "plan", comp |-> nextCompID]
  /\ UNCHANGED <<registry, computations, plan, stops, stopped, wires, nodes, handlers, starters,
                 lost, raised>>

\* handle_alter until assign_comp_id: without workers it answers with an error.
AlterBegin ==
  /\ ev = Idle /\ DOMAIN workers # {} /\ nextCompID <= MaxComps
  /\ computations' = [c \in DOMAIN computations \union {nextCompID} |->
                        IF c = nextCompID THEN <<>> ELSE computations[c]]
  /\ nextCompID' = nextCompID + 1
  /\ ev' = [pc |-> "plan", comp |-> nextCompID]
  /\ UNCHANGED <<registry, plan, stops, stopped, wires, nodes, handlers, starters, lost, raised>>

\* The planner works on the workers as they are now, without the lock.  There
\* is an operator; the default worker's assignment may stay empty.
AlterPlan ==
  /\ ev.pc = "plan"
  /\ \E where, cube, bare \in SUBSET DOMAIN workers :
       /\ where # {} /\ Cardinality(cube) <= 1
       /\ Cardinality(bare) <= 1 /\ bare \cap (where \union cube) = {}
       /\ plan' = [plan EXCEPT ![ev.comp] = [ops |-> where, cube |-> cube, bare |-> bare]]
  /\ ev' = [ev EXCEPT !.pc = "assign"]
  /\ UNCHANGED <<registry, computations, nextCompID, stops, stopped, wires, nodes, handlers,
                 starters, lost, raised>>

\* No plan: a SchemaError is answered with an error.  get_assignments raises
\* something else when validation failed, for then there is no topology, and
\* when no worker is left.  The computation stays.
AlterNoPlan ==
  /\ ev.pc = "plan"
  /\ UNCHANGED raised \/ Raise(ev.comp)
  /\ ev' = Idle
  /\ UNCHANGED <<registry, jobs, stops, stopped, wires, nodes, handlers, starters, lost>>

\* Mutant: the workers do not get their assignments.
AssignNodesOnly(c, ns, es) ==
  /\ computations' = [computations EXCEPT ![c] = [n \in ns |-> FALSE]]
  /\ UNCHANGED workers

\* assign_worker for the nodes ns, add_assignment for the endpoints es
Assign(c, ns, es) ==
  /\ computations' = [computations EXCEPT ![c] = [n \in ns |-> FALSE]]
  /\ workers' = [e \in DOMAIN workers |-> IF e \in es THEN workers[e] \union {c} ELSE workers[e]]

\* The rest of handle_alter, with the lock, when every worker is still there
\* and no two of them are processes of one node.
AlterAssign ==
  /\ ev.pc = "assign"
  /\ LET c == ev.comp
         es == Assigned(c)
     IN  /\ es \subseteq DOMAIN workers
         /\ \A d, e \in es : NodeOf(d) = NodeOf(e) => d = e
         /\ Assign(c, {NodeOf(e) : e \in es}, es)
         /\ starters' = [starters EXCEPT ![c] = es]
  /\ ev' = Idle
  /\ UNCHANGED <<local, cubeLoc, nextCompID, plan, stops, stopped, wires, nodes, handlers,
                 lost, raised>>

\* The loop raises at one worker, after any of the others.  A missing worker
\* is found by add_assignment, a second process of a node by assign_worker.
AlterRaises ==
  /\ ev.pc = "assign"
  /\ \E bad \in Assigned(ev.comp), es \in SUBSET (Assigned(ev.comp) \cap DOMAIN workers) :
       LET ns == {NodeOf(e) : e \in es} IN
       /\ bad \notin es
       /\ \A d, e \in es : NodeOf(d) = NodeOf(e) => d = e
       /\ \/ bad \notin DOMAIN workers
          \/ NodeOf(bad) \in ns
       /\ Assign(ev.comp, ns \union {NodeOf(bad)}, es)
  /\ Raise(ev.comp) /\ ev' = Idle
  /\ UNCHANGED <<local, cubeLoc, nextCompID, plan, stops, stopped, wires, nodes, handlers,
                 starters, lost>>

\* Mutant: the thread ends after one ALTER.
StartSendOne(c, e) ==
  /\ e \in starters[c]
  /\ toNode' = [toNode EXCEPT ![e] = Append(@, [type |-> "ALTER", comp |-> c])]
  /\ starters' = [starters EXCEPT ![c] = {}]
  /\ UNCHANGED <<registry, jobs, loop, toCtl, nodes, handlers, lost, raised>>

\* start_computation_sync: without a connection, connect_to raises and ends
\* the thread.
StartSend(c, e) ==
  /\ e \in starters[c]
  /\ IF e \in handlers
       THEN /\ toNode' = [toNode EXCEPT ![e] = Append(@, [type |-> "ALTER", comp |-> c])]
            /\ starters' = [starters EXCEPT ![c] = @ \ {e}]
       ELSE starters' = [starters EXCEPT ![c] = {}] /\ UNCHANGED toNode
  /\ UNCHANGED <<registry, jobs, loop, toCtl, nodes, handlers, lost, raised>>

-------------------------------------------------------------------------------
(* Stopping a computation *)

\* Mutant: only the workers that have reported are stopped.
StopBeginRunning(c) ==
  /\ ev = Idle /\ stops < MaxStops /\ c \in DOMAIN computations
  /\ stops' = stops + 1
  /\ ev' = [pc |-> "stop", comp |-> c,
            left |-> {n \in DOMAIN computations[c] : computations[c][n]}]
  /\ stopped' = [stopped EXCEPT ![c] =
                   IF @ = "raced" \/ starters[c] # {} THEN "raced" ELSE "asked"]
  /\ UNCHANGED <<registry, jobs, wires, nodes, handlers, starters, lost, raised>>

\* stop_computation, with workers_in_use; an unknown ID is answered with an error
StopBegin(c) ==
  /\ ev = Idle /\ stops < MaxStops /\ c \in DOMAIN computations
  /\ stops' = stops + 1
  /\ ev' = [pc |-> "stop", comp |-> c,
            left |-> {n \in DOMAIN computations[c] : \E e \in plan[c].ops : NodeOf(e) = n}]
  /\ stopped' = [stopped EXCEPT ![c] =
                   IF @ = "raced" \/ starters[c] # {} THEN "raced" ELSE "asked"]
  /\ UNCHANGED <<registry, jobs, wires, nodes, handlers, starters, lost, raised>>

\* nodeID in self.nodeID_to_local: a node that is not connected is skipped.
StopLookup(n) ==
  /\ ev.pc = "stop" /\ n \in ev.left
  /\ ev' = IF local[n] = None
             THEN [ev EXCEPT !.left = @ \ {n}]
             ELSE [pc |-> "read", comp |-> ev.comp, left |-> ev.left \ {n}, node |-> n]
  /\ UNCHANGED <<registry, jobs, stops, stopped, wires, nodes, handlers, starters, lost, raised>>

\* Then the entry is read; the liveness thread may have deleted it meanwhile.
StopRead ==
  /\ ev.pc = "read"
  /\ IF local[ev.node] = None
       THEN Raise(ev.comp) /\ ev' = Idle
       ELSE /\ ev' = [pc |-> "send", comp |-> ev.comp, left |-> ev.left, to |-> local[ev.node]]
            /\ UNCHANGED raised
  /\ UNCHANGED <<registry, jobs, stops, stopped, wires, nodes, handlers, starters, lost>>

\* Mutant: the assignment is cleaned up but no stop is sent.
StopSendNothing ==
  /\ ev.pc = "send"
  /\ workers' = [workers EXCEPT ![ev.to] = @ \ {ev.comp}]
  /\ ev' = [pc |-> "stop", comp |-> ev.comp, left |-> ev.left]
  /\ UNCHANGED <<local, cubeLoc, jobs, stops, stopped, wires, nodes, handlers, starters, lost, raised>>

\* The stop goes out, then cleanup_computation: it raises when the worker has
\* been removed, or has registered again without the assignment.
StopSend ==
  /\ ev.pc = "send"
  /\ toNode' = [toNode EXCEPT ![ev.to] = Append(@, [type |-> "STOP", comp |-> ev.comp])]
  /\ IF ev.to \in DOMAIN workers /\ ev.comp \in workers[ev.to]
       THEN /\ workers' = [workers EXCEPT ![ev.to] = @ \ {ev.comp}]
            /\ ev' = [pc |-> "stop", comp |-> ev.comp, left |-> ev.left]
            /\ UNCHANGED raised
       ELSE Raise(ev.comp) /\ ev' = Idle /\ UNCHANGED workers
  /\ UNCHANGED <<local, cubeLoc, jobs, stops, stopped, toCtl, nodes, handlers, starters, lost>>

\* Every node has been told: the computation is forgotten, the client gets OK.
StopEnd ==
  /\ ev.pc = "stop" /\ ev.left = {}
  /\ computations' = Restrict(computations, DOMAIN computations \ {ev.comp})
  /\ stopped' = [stopped EXCEPT ![ev.comp] = IF @ = "raced" THEN @ ELSE "clean"]
  /\ ev' = Idle
  /\ UNCHANGED <<registry, nextCompID, plan, stops, wires, nodes, handlers, starters, lost, raised>>

-------------------------------------------------------------------------------
(* Responses *)

\* handle_alter_response for a computation that is known.  RUNNING only if the
\* response matches the assignment; a stop's response names no operator.
Record(e, m) ==
  /\ computations' = [computations EXCEPT ![m.comp] = [@ EXCEPT ![NodeOf(e)] = m.type = "STARTED"]]
  /\ cubeLoc' = [cubeLoc EXCEPT ![m.comp] =
                   IF m.type = "STARTED" /\ CubeOn(m.comp, e) THEN NodeOf(e) ELSE @]

\* A worker that is not registered, or a node without an assignment, raises:
\* the connection is closed.
Response(e) ==
  /\ ev = Idle /\ e \in handlers /\ toCtl[e] # <<>>
  /\ LET m == Head(toCtl[e])
         known == m.type # "ERROR" /\ m.comp \in DOMAIN computations
         accepted == e \in DOMAIN workers /\ NodeOf(e) \in DOMAIN computations[m.comp]
     IN  IF known /\ ~accepted
           THEN ConnectionGone(e) /\ Raise(m.comp) /\ UNCHANGED computations
           ELSE /\ toCtl' = [toCtl EXCEPT ![e] = Tail(@)]
                /\ IF known THEN Record(e, m) ELSE UNCHANGED <<computations, cubeLoc>>
                /\ UNCHANGED <<workers, local, handlers, lost, raised>>
  /\ UNCHANGED <<nextCompID, plan, loop, toNode, nodes, starters>>

-------------------------------------------------------------------------------
(* A node's side *)

\* Its answer is lost when the connection is closed.
Reply(e, m) == toCtl' = [toCtl EXCEPT ![e] = IF e \in handlers THEN Append(@, m) ELSE @]

\* Next control message of the node's process
Received(e, type) ==
  /\ proc[NodeOf(e)] = e /\ halting[NodeOf(e)] = None
  /\ toNode[e] # <<>> /\ Head(toNode[e]).type = type
  /\ toNode' = [toNode EXCEPT ![e] = Tail(@)]

\* Node::handle_alter
NodeAlter(e) ==
  /\ Received(e, "ALTER")
  /\ LET c == Head(toNode[e]).comp IN
     /\ Reply(e, [type |-> "STARTED", comp |-> c])
     /\ ops' = [ops EXCEPT ![NodeOf(e)] = IF e \in plan[c].ops THEN @ \union {c} ELSE @]
     /\ cubes' = [cubes EXCEPT ![NodeOf(e)] = IF CubeOn(c, e) THEN @ \union {c} ELSE @]
  /\ UNCHANGED <<registry, jobs, loop, proc, halting, refused, handlers, starters, lost, raised>>

\* Mutant: the response of a failed ALTER is not marked as an error.
NodeAlterFailsSilently(e) ==
  /\ Received(e, "ALTER")
  /\ Reply(e, [type |-> "STARTED", comp |-> Head(toNode[e]).comp])
  /\ refused' = refused \union {Head(toNode[e]).comp}
  /\ UNCHANGED <<registry, jobs, loop, proc, ops, cubes, halting, handlers, starters, lost, raised>>

\* It fails: the operators go, a cube already created stays.
NodeAlterFails(e) ==
  /\ Received(e, "ALTER")
  /\ LET c == Head(toNode[e]).comp IN
     /\ Reply(e, [type |-> "ERROR", comp |-> c])
     /\ \/ UNCHANGED cubes
        \/ CubeOn(c, e) /\ cubes' = [cubes EXCEPT ![NodeOf(e)] = @ \union {c}]
  /\ refused' = refused \union {Head(toNode[e]).comp}
  /\ UNCHANGED <<registry, jobs, loop, proc, ops, halting, handlers, starters, lost, raised>>

\* Node::stop_computation stops the chains one by one and waits for each, with
\* the operator table locked ...
NodeStop(e) ==
  /\ Received(e, "STOP")
  /\ halting' = [halting EXCEPT ![NodeOf(e)] = Head(toNode[e]).comp]
  /\ UNCHANGED <<registry, jobs, loop, toCtl, proc, ops, cubes, refused, handlers, starters, lost, raised>>

\* ... then it takes the operators from the table, and the answer goes out.
NodeStopped(n) ==
  /\ halting[n] # None
  /\ Reply(proc[n], [type |-> "STOPPED", comp |-> halting[n]])
  /\ ops' = [ops EXCEPT ![n] = @ \ {halting[n]}]
  /\ halting' = [halting EXCEPT ![n] = None]
  /\ UNCHANGED <<registry, jobs, loop, toNode, proc, cubes, refused, handlers, starters, lost, raised>>

\* The process dies and another one connects.
Restart(n) ==
  /\ LET e == <<n, proc[n][2] + 1>> IN
     /\ n \in Unstable /\ e \in Endpoints
     /\ proc' = [proc EXCEPT ![n] = e]
     /\ handlers' = handlers \union {e}
  /\ ops' = [ops EXCEPT ![n] = {}] /\ cubes' = [cubes EXCEPT ![n] = {}]
  /\ halting' = [halting EXCEPT ![n] = None]
  /\ lost' = lost \union {n}
  /\ UNCHANGED <<registry, jobs, loop, wires, refused, starters, raised>>

-------------------------------------------------------------------------------
LoopStep ==
  \/ AlterPlan \/ AlterNoPlan \/ AlterAssign \/ AlterRaises
  \/ \E n \in Nodes : StopLookup(n)
  \/ StopRead \/ StopSend \/ StopEnd
  \/ \E e \in Endpoints : Response(e)

NodeStep(n) ==
  \E e \in Endpoints : NodeOf(e) = n /\ (NodeAlter(e) \/ NodeAlterFails(e) \/ NodeStop(e))

Next ==
  \/ LoopStep
  \/ \E e \in Endpoints : Heartbeat(e) \/ Timeout(e) \/ Closed(e)
  \/ AlterBegin
  \/ \E c \in Comps : StopBegin(c)
  \/ \E c \in Comps, e \in Endpoints : StartSend(c, e)
  \/ \E n \in Nodes : NodeStep(n) \/ NodeStopped(n) \/ Restart(n)

Spec == Init /\ [][Next]_vars

\* The threads of the controller and of the nodes go on with what they hold.
\* A stop_computation need not end: the wait for a chain that is unregistering
\* itself, and needs the operator table, is for ever.
Fairness ==
  /\ WF_vars(LoopStep)
  /\ \A c \in Comps : WF_vars(\E e \in Endpoints : StartSend(c, e))
  /\ \A n \in Nodes : WF_vars(NodeStep(n))

FairSpec == Spec /\ Fairness

-------------------------------------------------------------------------------
\* Type invariant: the registry, the jobs and what the event loop holds.
TypeOK ==
  /\ DOMAIN workers \subseteq Endpoints /\ \A e \in DOMAIN workers : workers[e] \subseteq Comps
  /\ local \in [Nodes -> Endpoints \union {None}]
  /\ cubeLoc \in [Comps -> Nodes \union {None}]
  /\ DOMAIN computations \subseteq 1 .. nextCompID - 1
  /\ ev.pc \in {"idle", "plan", "assign", "stop", "read", "send"}
  /\ ev.pc # "idle" => ev.comp \in DOMAIN computations
  /\ handlers \subseteq Endpoints
  /\ \A c \in Comps : starters[c] \subseteq Assigned(c)

\* Outside the handlers' windows the maps agree: nodeID_to_local names only a
\* registered worker of that node whose connection is open.  stop_computation
\* relies on it when it sends and cleans up without the lock.
LocalIsRegistered ==
  \A n \in Nodes : local[n] # None =>
    /\ NodeOf(local[n]) = n
    /\ local[n] \in DOMAIN workers
    /\ local[n] \in handlers

\* A fault stays with the computations it touches: a handler raises about a
\* computation only if one of the nodes it was planned onto was lost, or if it
\* got no plan (the topology failed validation, or no worker was left).  The
\* others are started, stopped and reported as if nothing had happened.
RaisesNeedFault == \A c \in raised : Hit(c) \/ Assigned(c) = {}

\* cube_locations "Only listed after cube create is acknowledged": a listed
\* cube exists on its node, unless the node's process was replaced.
ListedCubeExists ==
  \A c \in Comps : cubeLoc[c] # None =>
    c \in cubes[cubeLoc[c]] \/ proc[cubeLoc[c]] # <<cubeLoc[c], 1>>

\* Operators that no computation accounts for: either a stop is on its way or
\* at work, or it was asked for while the starting thread was still sending, or
\* a node that the computation was planned onto was lost.
OrphansExplained ==
  \A n \in Nodes : \A c \in ops[n] : c \notin DOMAIN computations =>
    \/ Hit(c) \/ stopped[c] = "raced" \/ halting[n] = c
    \/ \E i \in 1 .. Len(toNode[proc[n]]) : toNode[proc[n]][i] = [type |-> "STOP", comp |-> c]

\* The whole assignment is RUNNING.
Realised(c) ==
  /\ c \in DOMAIN computations
  /\ \A e \in Assigned(c) :
       NodeOf(e) \in DOMAIN computations[c] /\ computations[c][NodeOf(e)]

\* A started computation comes to run on every worker it was assigned to, and
\* the controller learns it, unless one of its own nodes is lost or hangs in a
\* stop_computation, one of its ALTERs fails, or it is stopped.
Starts ==
  \A c \in Comps :
    (c \in DOMAIN computations /\ starters[c] # {}) ~>
      \/ Hit(c) \/ c \in refused \/ stopped[c] # "no"
      \/ \E e \in Assigned(c) : halting[NodeOf(e)] # None
      \/ Realised(c)

\* A stop that was not overtaken by its own start ends the operators for good
\* wherever stop_computation does not hang, unless one of the computation's own
\* nodes is lost.
Stops ==
  \A c \in Comps :
    (stopped[c] = "clean") ~>
      [](Hit(c) \/ stopped[c] # "clean" \/ \A n \in Nodes : c \in ops[n] => halting[n] # None)

===============================================================================
