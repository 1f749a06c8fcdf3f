------------------------------ MODULE Dataplane ------------------------------
(***************************************************************************)
(* A connection between two nodes: the RemoteDestAdaptor at the end of the *)
(* sending node's chains, the IncomingConnectionState that heads the chain *)
(* on the receiving node, and the teardown of either side, with the        *)
(* threads that may meet in it: the strands of the chains, the adaptor's   *)
(* timer, the connection's receive handler and the control thread.         *)
(*                                                                         *)
(* An adaptor serves one source chain, or, on a node that forwards, the    *)
(* clones made for incoming connections; then the chain they were cloned   *)
(* from stays attached for ever (template).  The socket is abstracted to   *)
(* ConnectedSocket's promises: order, loss of a suffix when it fails, and  *)
(* loss of what a close overtakes.                                         *)
(***************************************************************************)
EXTENDS Naturals, FiniteSets, Sequences

CONSTANTS
  Chains,    \* chains that may end in the adaptor
  Emissions, \* bounds the calls of process
  BufMax     \* SIZE_TO_SEND: more tuples than this are sent at once

ASSUME DataplaneAssumption ==
  /\ Emissions \in Nat /\ BufMax \in Nat
  /\ IsFiniteSet(Chains) /\ Chains # {} /\ Chains \cap {"recv", "timer"} = {}

VARIABLES
  conn,      \* the adaptor's pointer: "none" yet, "set", or "null" after a reset
  sock,      \* its socket: "new", "up", "down" (failed), "shut" (close asked for), "closed"
  cb,        \* the receive callback that is armed: "none", "ready" or "noop"
  ready,     \* chainIsReady
  stopping,  \* is_stopping
  buf,       \* out_buffer_msg
  timer,     \* calls of force_send to come: waits for the timer, and cancelled waits
  noWindow,  \* no_window_started
  chains,    \* the chains in the adaptor's vector, without the template
  template,  \* the vector also holds the sourceless chain the others are clones of
  inMap,     \* DataplaneConnManager::adaptors has the adaptor
  cleanups,  \* deferred_cleanup has been posted
  pc,        \* per chain, where its strand is
  next,      \* per chain, the number of the emission at hand
  done,      \* chains whose source has stopped
  running,   \* OperatorChain::running
  stopReq,   \* do_stop waits for the strand
  table,     \* chains in chainSources
  bk, todo,  \* per thread, where it is in connection_broken, and the chains left
  control,   \* stop_computation: "idle", "locked" (operatorTableLock), "await", "done"
  out, back, \* messages in flight
  broken,    \* the connection has failed
  dropped,   \* the close overtook a message
  far,       \* receiving end: "none", "pending", "live", "ended" or "broken"
  exists,    \* the destination chain or cube is there
  accepted,  \* what process has put in the buffer
  delivered, \* what the destination chain has been given
  crashed    \* a null pointer was followed, or LOG(FATAL)

rda == <<cb, ready, noWindow, chains, template, inMap, cleanups>>
strands == <<pc, next, done, running, stopReq>>
tables == <<table, control>>
breaking == <<stopping, bk, todo, crashed>>
link == <<back, broken, dropped>>
receiver == <<far, exists, delivered>>
vars == <<conn, sock, rda, buf, timer, strands, tables, breaking, out, link, receiver, accepted>>

Threads == Chains \cup {"recv", "timer"}

Init ==
  /\ conn = "none" /\ sock = "new" /\ cb = "none" /\ ready = FALSE /\ stopping = FALSE
  /\ buf = <<>> /\ timer = 0 /\ noWindow = TRUE /\ inMap = TRUE /\ cleanups = FALSE
  /\ \/ template = TRUE /\ chains = Chains /\ table = {}
     \/ template = FALSE /\ chains = {CHOOSE c \in Chains : TRUE} /\ table = chains
  /\ pc = [c \in Chains |-> "idle"] /\ next = [c \in Chains |-> 0]
  /\ done = Chains \ chains /\ running = chains /\ stopReq = {}
  /\ bk = [th \in Threads |-> "out"] /\ todo = [th \in Threads |-> {}] /\ control = "idle"
  /\ out = <<>> /\ back = <<>> /\ broken = FALSE /\ dropped = FALSE
  /\ far = "none" /\ exists = FALSE
  /\ accepted = <<>> /\ delivered = <<>> /\ crashed = FALSE

\* A step that completes a send keeps the adaptor's mutex to itself; only a failed
\* send is seen with the mutex held.
MutexFree == \A th \in Threads \ {"recv"} : bk[th] = "out"

\* operatorTableLock: stop_computation holds it shared, unregister_chain wants it.
TableFree == control \notin {"locked", "await"}

Msg(kind, items) == [kind |-> kind, items |-> items]
Transmit(ms) == out' = IF broken THEN out ELSE out \o ms

-----------------------------------------------------------------------------
(* The handshake.                                                          *)

\* conn_created_cb
ConnCreated ==
  /\ sock = "new"
  /\ \/ /\ conn' = "set" /\ sock' = "up" /\ cb' = "ready"
        /\ out' = <<Msg("connect", <<>>)>>
     \/ sock' = "closed" /\ UNCHANGED <<conn, cb, out>>
  /\ UNCHANGED <<ready, noWindow, chains, template, inMap, cleanups, buf, timer, strands,
                 tables, breaking, link, receiver, accepted>>

\* Node::received_data_msg: the chain is there, or the connection waits for it.
ChainConnect ==
  /\ far = "none" /\ out # <<>>
  /\ out' = Tail(out)
  /\ IF exists THEN far' = "live" /\ back' = Append(back, "ready")
               ELSE far' = "pending" /\ UNCHANGED back
  /\ UNCHANGED <<conn, sock, rda, buf, timer, strands, tables, breaking, broken, dropped,
                 exists, delivered, accepted>>

\* Mutant: the pending connections are not looked up.
CreatedChainOnly ==
  /\ ~exists /\ exists' = TRUE
  /\ UNCHANGED <<conn, sock, rda, buf, timer, strands, tables, breaking, out, link, far,
                 delivered, accepted>>

\* handle_alter on the receiving node, to created_chain: jobStartLock keeps
\* received_data_msg out meanwhile.  The ALTER need not ever come.
CreatedChain ==
  /\ ~exists /\ exists' = TRUE
  /\ IF far = "pending" THEN far' = "live" /\ back' = Append(back, "ready")
                        ELSE UNCHANGED <<far, back>>
  /\ UNCHANGED <<conn, sock, rda, buf, timer, strands, tables, breaking, out, broken, dropped,
                 delivered, accepted>>

\* conn_ready_cb: any first message makes the chain ready.
ConnReady ==
  /\ cb = "ready" /\ sock = "up" /\ back # <<>>
  /\ back' = Tail(back) /\ ready' = TRUE
  /\ cb' = IF conn = "set" THEN "ready" ELSE "none"
  /\ UNCHANGED <<conn, sock, noWindow, chains, template, inMap, cleanups, buf, timer, strands,
                 tables, breaking, out, broken, dropped, receiver, accepted>>

-----------------------------------------------------------------------------
(* Failure: the socket fails, its receive callback is told, and            *)
(* connection_broken runs in steps.                                        *)

Break ==
  /\ ~broken /\ conn # "none" /\ broken' = TRUE
  /\ out' = <<>> /\ back' = <<>>
  /\ UNCHANGED <<conn, sock, rda, buf, timer, strands, tables, breaking, dropped, receiver, accepted>>

\* ConnectedSocket::fail closes the socket; from here send_msg reports errors.
SockFails ==
  /\ broken /\ sock = "up" /\ sock' = "down"
  /\ UNCHANGED <<conn, rda, buf, timer, strands, tables, breaking, out, link, receiver, accepted>>

Enter(th) ==
  IF stopping THEN UNCHANGED <<bk, todo>> ELSE bk' = [bk EXCEPT ![th] = "mark"] /\ UNCHANGED todo

\* do_send_unlocked after an error: connection_broken, which resets conn, and then
\* conn->close_async, for which conn is still there only when another thread has
\* entered connection_broken before and has not yet come to the reset.
SendFails(th) ==
  /\ Enter(th)
  /\ crashed' = (stopping /\ conn = "null")
  /\ sock' = IF stopping /\ conn = "set" THEN "shut" ELSE sock
  /\ UNCHANGED stopping

\* conn_ready_cb with an error
ConnReadyError ==
  /\ cb = "ready" /\ sock = "down"
  /\ cb' = "none"
  /\ Enter("recv")
  /\ UNCHANGED <<conn, sock, ready, noWindow, chains, template, inMap, cleanups, buf, timer,
                 strands, tables, stopping, crashed, out, link, receiver, accepted>>

\* A cancelled force_send still runs, for it takes no error code.
BrokenMark(th) ==
  /\ bk[th] = "mark"
  /\ bk' = [bk EXCEPT ![th] = "reset"] /\ stopping' = TRUE
  /\ UNCHANGED <<conn, sock, rda, buf, timer, strands, tables, todo, crashed, out, link, receiver, accepted>>

BrokenReset(th) ==
  /\ bk[th] = "reset"
  /\ bk' = [bk EXCEPT ![th] = "stop"] /\ todo' = [todo EXCEPT ![th] = chains]
  /\ conn' = "null" /\ cleanups' = TRUE
  /\ UNCHANGED <<sock, cb, ready, noWindow, chains, template, inMap, buf, timer, strands,
                 tables, stopping, crashed, out, link, receiver, accepted>>

\* The loop's next chain; chain_stopping may have taken it from the vector.
Current(th) == CHOOSE c \in todo[th] : TRUE

\* chains[i]->stop(): on the chain's own strand do_stop runs at once.
BrokenStop(th) ==
  LET c == Current(th)
      post == c \in running /\ c # th
  IN /\ bk[th] = "stop" /\ todo[th] # {}
     /\ IF c \notin chains
        THEN todo' = [todo EXCEPT ![th] = @ \ {c}] /\ UNCHANGED <<bk, running, stopReq, done>>
        ELSE /\ bk' = [bk EXCEPT ![th] = IF post THEN "await" ELSE "unregister"]
             /\ running' = running \ {c}
             /\ stopReq' = IF post THEN stopReq \cup {c} ELSE stopReq
             /\ done' = IF c = th THEN done \cup {c} ELSE done
             /\ UNCHANGED todo
     /\ UNCHANGED <<conn, sock, rda, buf, timer, pc, next, tables, stopping, crashed, out,
                    link, receiver, accepted>>

\* The stop has been carried out; Node::unregister_chain.
BrokenUnregister(th) ==
  LET c == Current(th) IN
  /\ \/ bk[th] = "unregister"
     \/ bk[th] = "await" /\ c \notin stopReq
  /\ TableFree
  /\ table' = table \ {c}
  /\ todo' = [todo EXCEPT ![th] = @ \ {c}] /\ bk' = [bk EXCEPT ![th] = "stop"]
  /\ UNCHANGED <<conn, sock, rda, buf, timer, strands, control, stopping, crashed, out, link,
                 receiver, accepted>>

\* chains.clear(), and back to the caller: do_send_unlocked now follows conn.
BrokenClear(th) ==
  /\ bk[th] = "stop" /\ todo[th] = {}
  /\ bk' = [bk EXCEPT ![th] = "out"]
  /\ chains' = {}
  /\ crashed' = (th # "recv")
  /\ UNCHANGED <<conn, sock, cb, ready, noWindow, template, inMap, cleanups, buf, timer, strands,
                 tables, stopping, todo, out, link, receiver, accepted>>

-----------------------------------------------------------------------------
(* The sending chains.                                                     *)

StrandIdle(c) == pc[c] = "idle" /\ bk[c] = "out"

Emitted == {e \in Chains \X (1 .. Emissions) : e[2] <= next[e[1]]}

\* process begins: is_stopping is tested without the mutex.
Process(c) ==
  /\ StrandIdle(c) /\ c \notin done /\ Cardinality(Emitted) < Emissions
  /\ next' = [next EXCEPT ![c] = @ + 1]
  /\ pc' = [pc EXCEPT ![c] = IF stopping THEN "idle" ELSE "wait"]
  /\ UNCHANGED <<conn, sock, rda, buf, timer, done, running, stopReq, tables, breaking,
                 out, link, receiver, accepted>>

\* Mutant: the wait has no limit.
WaitReadyForever(c) ==
  /\ pc[c] = "wait" /\ MutexFree /\ ready
  /\ pc' = [pc EXCEPT ![c] = "buffer"]
  /\ UNCHANGED <<conn, sock, rda, buf, timer, next, done, running, stopReq, tables,
                 breaking, out, link, receiver, accepted>>

\* wait_for_chain_ready: it goes on, or it times out or is woken by a stop.
WaitReady(c) ==
  /\ pc[c] = "wait" /\ MutexFree
  /\ \/ ready /\ pc' = [pc EXCEPT ![c] = "buffer"]
     \/ (~ready \/ stopping) /\ pc' = [pc EXCEPT ![c] = "idle"]
  /\ UNCHANGED <<conn, sock, rda, buf, timer, next, done, running, stopReq, tables,
                 breaking, out, link, receiver, accepted>>

\* Mutant: one tuple too many stays in the buffer.
MustSendLate(tuples, mark) == mark \/ Len(tuples) > BufMax + 1

\* A marker or a full buffer forces the data out.
MustSend(tuples, mark) == mark \/ Len(tuples) > BufMax

\* The rest of process, with the mutex: a tuple and perhaps a window marker.  The
\* first tuple in the buffer starts the timer.
Buffer(c) ==
  \E mark \in BOOLEAN :
    LET tuple == <<c, next[c], FALSE>>
        marker == IF mark THEN <<<<c, next[c], TRUE>>>> ELSE <<>>
        all == Append(buf, tuple)
        flush == MustSend(all, mark)
    IN /\ pc[c] = "buffer" /\ MutexFree
       /\ IF conn = "null" /\ (noWindow \/ flush)
          THEN crashed' = TRUE
               /\ UNCHANGED <<pc, accepted, buf, timer, noWindow, out, sock, stopping, bk, todo>>
          ELSE /\ accepted' = accepted \o <<tuple>> \o marker
               /\ pc' = [pc EXCEPT ![c] = "idle"]
               /\ buf' = IF flush THEN <<>> ELSE all
               /\ timer' = IF flush \/ buf # <<>> THEN timer ELSE timer + 1
               /\ noWindow' = mark
               /\ IF flush /\ sock # "up" THEN SendFails(c) ELSE UNCHANGED <<sock, breaking>>
               /\ IF flush /\ sock = "up"
                  THEN Transmit(<<Msg("data", all)>> \o (IF mark THEN <<Msg("marker", marker)>> ELSE <<>>))
                  ELSE UNCHANGED out
       /\ UNCHANGED <<conn, cb, ready, chains, template, inMap, cleanups, next, done,
                      running, stopReq, tables, link, receiver>>

\* Mutant: the message goes out before the buffer is cleared.
ForceSendKeeps ==
  /\ timer > 0 /\ MutexFree
  /\ timer' = timer - 1
  /\ IF buf = <<>> \/ stopping \/ sock # "up" THEN UNCHANGED out ELSE Transmit(<<Msg("data", buf)>>)
  /\ UNCHANGED <<conn, sock, rda, buf, strands, tables, breaking, link, receiver, accepted>>

\* Mutant: the buffer is cleared before the message goes out.
ForceSendEmpty ==
  /\ timer > 0 /\ MutexFree
  /\ timer' = timer - 1 /\ buf' = <<>>
  /\ IF buf = <<>> \/ stopping \/ sock # "up" THEN UNCHANGED out ELSE Transmit(<<Msg("data", <<>>)>>)
  /\ UNCHANGED <<conn, sock, rda, strands, tables, breaking, link, receiver, accepted>>

\* force_send, when the timer expires or was cancelled
ForceSend ==
  /\ timer > 0 /\ MutexFree
  /\ timer' = timer - 1
  /\ IF buf = <<>> \/ stopping THEN UNCHANGED <<buf, out, sock, breaking>>
     ELSE IF conn = "null" THEN crashed' = TRUE /\ UNCHANGED <<buf, out, sock, stopping, bk, todo>>
     ELSE /\ buf' = <<>>
          /\ IF sock = "up" THEN Transmit(<<Msg("data", buf)>>) /\ UNCHANGED <<sock, breaking>>
                            ELSE SendFails("timer") /\ UNCHANGED out
  /\ UNCHANGED <<conn, rda, strands, tables, link, receiver, accepted>>

-----------------------------------------------------------------------------
(* A chain stops: do_stop on its strand, posted by stop() or by its own    *)
(* source, and in it RemoteDestAdaptor::chain_stopping.                    *)

\* emit_wrapper unregisters the source chain that it has stopped.
AfterEnding == IF template THEN "idle" ELSE "unregister"

\* The source's own end ("ending") or the posted do_stop ("closing"): the test of conn.
StopChain(c) ==
  LET own == c \notin stopReq IN
  /\ StrandIdle(c) /\ (c \in stopReq \/ c \notin done)
  /\ done' = done \cup {c}
  /\ IF conn = "set" /\ sock \in {"up", "down"}
     THEN pc' = [pc EXCEPT ![c] = IF own THEN "ending" ELSE "closing"] /\ UNCHANGED stopReq
     ELSE pc' = [pc EXCEPT ![c] = IF own THEN AfterEnding ELSE "idle"] /\ stopReq' = stopReq \ {c}
  /\ UNCHANGED <<conn, sock, rda, buf, timer, next, running, tables, breaking, out, link,
                 receiver, accepted>>

LastData == IF buf = <<>> THEN <<>> ELSE <<Msg("data", buf)>>

\* Mutant: the end is announced before the buffer is sent.
FarewellFirst == <<Msg("end", <<>>)>> \o LastData

\* The buffered data, then NO_MORE_DATA.
Farewell == LastData \o <<Msg("end", <<>>)>>

\* The rest of chain_stopping.  The last chain pushes out the data, says that no
\* more will come and closes the connection.
ChainStopping(c) ==
  LET last == chains \ {c} = {} /\ ~template
      fails == last /\ ~stopping /\ buf # <<>> /\ sock # "up"
  IN /\ pc[c] \in {"closing", "ending"} /\ bk[c] = "out" /\ (last /\ ~stopping => MutexFree)
     /\ chains' = chains \ {c}
     /\ pc' = [pc EXCEPT ![c] = IF @ = "ending" THEN AfterEnding ELSE "idle"]
     /\ stopReq' = IF pc[c] = "closing" THEN stopReq \ {c} ELSE stopReq
     /\ IF last /\ conn = "null" THEN crashed' = TRUE /\ UNCHANGED <<stopping, bk, todo>>
        ELSE IF fails THEN SendFails(c) ELSE UNCHANGED breaking
     /\ IF last /\ conn = "set" /\ ~fails
        THEN /\ cb' = "noop" /\ sock' = "shut"
             /\ IF stopping THEN UNCHANGED <<buf, out>>
                ELSE /\ buf' = <<>>
                     /\ IF sock = "up" THEN Transmit(Farewell) ELSE UNCHANGED out
        ELSE UNCHANGED <<cb, sock, buf, out>>
     /\ UNCHANGED <<conn, ready, timer, noWindow, template, inMap, cleanups, next, done, running, tables, link,
                    receiver, accepted>>

\* ClientConnection::close_async has reached the socket: what was written before
\* is sent, what the close overtook is not.  It runs on the receive strand and posts
\* deferred_cleanup.
CloseSocket ==
  /\ sock = "shut" /\ bk["recv"] = "out" /\ sock' = "closed" /\ cleanups' = TRUE
  /\ \E n \in 0 .. Len(out) : out' = SubSeq(out, 1, n) /\ dropped' = (n < Len(out))
  /\ UNCHANGED <<conn, cb, ready, noWindow, chains, template, inMap, buf, timer, strands, tables,
                 breaking, back, broken, receiver, accepted>>

\* Node::unregister_chain
Unregister(c) ==
  /\ pc[c] = "unregister" /\ bk[c] = "out" /\ TableFree
  /\ pc' = [pc EXCEPT ![c] = "idle"] /\ table' = table \ {c}
  /\ UNCHANGED <<conn, sock, rda, buf, timer, next, done, running, stopReq, control, breaking,
                 out, link, receiver, accepted>>

\* stop_computation takes operatorTableLock and, under it, stops the chain.
StopComputation ==
  /\ control = "idle" /\ table # {}
  /\ control' = "locked"
  /\ UNCHANGED <<conn, sock, rda, buf, timer, strands, table, breaking, out, link, receiver, accepted>>

PurgeChains ==
  /\ control = "locked"
  /\ control' = IF table \cap running = {} THEN "done" ELSE "await"
  /\ running' = running \ table /\ stopReq' = stopReq \cup (table \cap running)
  /\ UNCHANGED <<conn, sock, rda, buf, timer, pc, next, done, table, breaking, out, link,
                 receiver, accepted>>

PurgeReturns ==
  /\ control = "await" /\ table \cap stopReq = {}
  /\ control' = "done" /\ table' = {}
  /\ UNCHANGED <<conn, sock, rda, buf, timer, strands, breaking, out, link, receiver, accepted>>

\* Mutant: only the pointer is tested, not is_connected().
DeferredCleanupPointer ==
  /\ cleanups /\ cleanups' = FALSE
  /\ IF conn = "set" THEN crashed' = TRUE /\ UNCHANGED inMap
                     ELSE inMap' = FALSE /\ UNCHANGED crashed
  /\ UNCHANGED <<conn, sock, cb, ready, noWindow, chains, template, buf, timer, strands, tables,
                 stopping, bk, todo, out, link, receiver, accepted>>

\* deferred_cleanup; it does not expect an adaptor in use.
DeferredCleanup ==
  /\ cleanups /\ cleanups' = FALSE
  /\ IF conn = "set" /\ sock \in {"up", "down"} THEN crashed' = TRUE /\ UNCHANGED inMap
                                                ELSE inMap' = FALSE /\ UNCHANGED crashed
  /\ UNCHANGED <<conn, sock, cb, ready, noWindow, chains, template, buf, timer, strands, tables,
                 stopping, bk, todo, out, link, receiver, accepted>>

-----------------------------------------------------------------------------
(* The receiving end: IncomingConnectionState::got_data_cb.                *)

GotData ==
  LET m == Head(out) IN
  /\ far = "live" /\ out # <<>>
  /\ out' = Tail(out)
  /\ delivered' = delivered \o m.items
  /\ far' = IF m.kind = "end" THEN "ended" ELSE far
  /\ back' = IF m.kind = "marker" THEN Append(back, "status") ELSE back
  /\ UNCHANGED <<conn, sock, rda, buf, timer, strands, tables, breaking, broken, dropped, exists, accepted>>

\* Mutant: an orderly close is not taken for an error.
GotErrorBroken ==
  /\ far = "live" /\ out = <<>> /\ broken
  /\ far' = "broken"
  /\ UNCHANGED <<conn, sock, rda, buf, timer, strands, tables, breaking, out, link, exists,
                 delivered, accepted>>

\* The read fails: the chain is torn down.
GotError ==
  /\ far = "live" /\ out = <<>> /\ (broken \/ sock = "closed")
  /\ far' = "broken"
  /\ UNCHANGED <<conn, sock, rda, buf, timer, strands, tables, breaking, out, link, exists,
                 delivered, accepted>>

-----------------------------------------------------------------------------
BrokenStep(th) ==
  \/ BrokenMark(th) \/ BrokenReset(th) \/ BrokenStop(th) \/ BrokenUnregister(th) \/ BrokenClear(th)

StrandStep(c) ==
  \/ WaitReady(c) \/ Buffer(c) \/ ChainStopping(c) \/ Unregister(c)
  \/ c \in stopReq /\ StopChain(c)

SocketStep == ConnCreated \/ ConnReady \/ SockFails \/ ConnReadyError \/ CloseSocket

\* What some thread has begun and must go on with.
Work ==
  \/ ForceSend \/ PurgeChains \/ PurgeReturns
  \/ \E th \in Threads : BrokenStep(th)
  \/ \E c \in Chains : StrandStep(c)

\* The receiving node goes on when the sending node is down.
Next ==
  \/ ChainConnect \/ CreatedChain \/ GotData \/ GotError \/ Break
  \/ /\ ~crashed
     /\ \/ SocketStep \/ StopComputation \/ DeferredCleanup \/ Work
        \/ \E c \in Chains : Process(c) \/ StopChain(c)

Spec == Init /\ [][Next]_vars

\* Handlers, timers and threads run.  No source has to emit or to end, the
\* connection need not break, and nobody has to create the destination or to stop
\* the computation.
Fairness ==
  /\ WF_vars(ChainConnect \/ GotData \/ GotError)
  /\ WF_vars(~crashed /\ (SocketStep \/ BrokenStep("recv")))
  /\ WF_vars(~crashed /\ (ForceSend \/ BrokenStep("timer")))
  /\ WF_vars(~crashed /\ (PurgeChains \/ PurgeReturns))
  /\ \A c \in Chains : WF_vars(~crashed /\ (StrandStep(c) \/ BrokenStep(c)))
FairSpec == Spec /\ Fairness

-----------------------------------------------------------------------------
Items == Chains \X (1 .. Emissions) \X BOOLEAN
Messages == [kind : {"connect", "data", "marker", "end"}, items : Seq(Items)]
Steps == {"out", "mark", "reset", "stop", "await", "unregister"}

\* Type invariant; the buffer never holds more than process lets stay in it.
TypeOK ==
  /\ conn \in {"none", "set", "null"} /\ sock \in {"new", "up", "down", "shut", "closed"}
  /\ cb \in {"none", "ready", "noop"} /\ control \in {"idle", "locked", "await", "done"}
  /\ {ready, stopping, noWindow, template, inMap, cleanups, broken, dropped, exists, crashed}
       \subseteq BOOLEAN
  /\ timer \in Nat
  /\ buf \in Seq(Items) /\ Len(buf) <= BufMax
  /\ chains \cup done \cup running \cup stopReq \cup table \subseteq Chains
  /\ pc \in [Chains -> {"idle", "wait", "buffer", "closing", "ending", "unregister"}]
  /\ next \in [Chains -> 0 .. Emissions]
  /\ bk \in [Threads -> Steps] /\ todo \in [Threads -> SUBSET Chains]
  /\ out \in Seq(Messages)
  /\ back \in Seq({"ready", "status"})
  /\ far \in {"none", "pending", "live", "ended", "broken"}
  /\ accepted \in Seq(Items) /\ delivered \in Seq(Items)

\* The connection keeps Delivery: what process took arrives in order and once, and
\* NO_MORE_DATA reaches the far end only behind the last of it.
Promise == INSTANCE Delivery WITH
  Item <- Items,
  state <- IF far \in {"ended", "broken"} THEN far ELSE "open"
KeepsDelivery == Promise!Spec

\* No message follows NO_MORE_DATA, whenever a cancelled force_send still runs:
\* got_data_cb has closed the connection then and arms no further receive, so that
\* what came behind would be lost without a trace.
NothingAfterEnd == far = "ended" => out = <<>>

\* An orderly teardown follows no null pointer and finds no adaptor in use, however
\* the chain's end, the timer and a stop of the computation interleave: the sending
\* node can only go down after the connection itself has failed.
CrashNeedsBreak == crashed => broken

\* What Work's actions test: a thread that has begun something goes on unless it waits
\* for the adaptor's mutex, for operatorTableLock or for a chain to stop.
Waiting ==
  \/ control = "await" \/ stopReq # {}
  \/ \E th \in Threads : bk[th] # "out"
  \/ \E c \in Chains : pc[c] # "idle"
BreakerCanGo(th) ==
  \/ bk[th] \in {"mark", "reset", "stop"}
  \/ bk[th] = "unregister" /\ TableFree
  \/ bk[th] = "await" /\ Current(th) \notin stopReq /\ TableFree
StrandCanGo(c) ==
  \/ pc[c] \in {"wait", "buffer"} /\ MutexFree
  \/ pc[c] \in {"closing", "ending"} /\ bk[c] = "out" /\ MutexFree
  \/ pc[c] = "unregister" /\ bk[c] = "out" /\ TableFree
  \/ c \in stopReq /\ StrandIdle(c)
CanWork ==
  \/ timer > 0 /\ MutexFree
  \/ control = "locked"
  \/ control = "await" /\ table \cap stopReq = {}
  \/ \E th \in Threads : BreakerCanGo(th)
  \/ \E c \in Chains : StrandCanGo(c)
GuardsEnable == CanWork /\ ~crashed => ENABLED Work

\* Threads wait for one another for ever only in two ways: stop_computation waits,
\* operatorTableLock held, for a strand that waits for that lock, or a failed send
\* holds the adaptor's mutex.  Whoever waits for neither can go on, if the io_service
\* has a thread for it (thread_pool_size).
StallShape ==
  /\ GuardsEnable
  /\ (Waiting /\ ~crashed /\ ~ENABLED Work) =>
       \/ control = "await" /\ \E c \in table : pc[c] = "unregister"
       \/ ~MutexFree

\* The handshake completes: once the adaptor is connected and the chain exists, the
\* adaptor learns of it, whichever came first, unless the connection ends before.
Handshake == (conn = "set" /\ exists) ~> (ready \/ broken \/ sock # "up")

\* What process has buffered arrives, if nothing breaks: the timer sends what no
\* later tuple, marker or end pushes out.
Arrives == []<>(delivered = accepted \/ broken \/ dropped)

\* When the socket is closed or has failed, the far end does not stay behind with a
\* chain that nobody feeds, even where the chain is created after the end of a
\* connection that waited for it.  Only a connection whose chain is never created
\* stays in the list of the pending ones: it has no receive to learn of its end.
FarEnds == (broken \/ sock = "closed") ~> [](far # "live" /\ (far = "pending" => ~exists))

\* "note that we hold the lock until we're done here, so we can't get destroyed
\* prematurely": deferred_cleanup does not take the adaptor out of the map while
\* connection_broken is at work.
HeldUntilDone == (\E th \in Threads : bk[th] \notin {"out", "mark"}) => inMap
=============================================================================
