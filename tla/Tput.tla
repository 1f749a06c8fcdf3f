-------------------------------- MODULE Tput --------------------------------
(***************************************************************************)
(* The distributed top-k query of src/src/dataplane/topk_tput.cc: a        *)
(* MultiRoundCoordinator asks MultiRoundSenders on other nodes, in three   *)
(* rounds, for the items with the greatest totals.  Round 1 collects each  *)
(* source's best items, round 2 the items above a threshold, and round 3   *)
(* the exact values of the candidates, which go on to the output cube.     *)
(* Connections are FIFO and may break.  The sort column is descending      *)
(* ("-count"), as in every configuration of the repository.  The sources'  *)
(* cubes do not change while the query runs, and every source is on a node *)
(* other than the coordinator's, so that its answer comes as a message.    *)
(***************************************************************************)
EXTENDS Integers, FiniteSets, Sequences, FiniteSetsExt

CONSTANTS
  Sources,  \* MultiRoundSenders, each with its chain into the coordinator
  Items,    \* cells of the rolled-up cubes
  MaxVal,   \* bounds the values
  K,        \* num_results
  Leavers   \* sources whose connection may break

ASSUME TputAssumption ==
  /\ K \in Nat \ {0} /\ MaxVal \in Nat
  /\ IsFiniteSet(Sources) /\ IsFiniteSet(Items) /\ Leavers \subseteq Sources

VARIABLES
  val,         \* per source and item: the value in its cube, 0 if it has no such cell
  future,      \* future_preds: the chains that are attached
  left,        \* sources whose chain has stopped
  preds,       \* predecessors: the chains the query was sent to
  phase,       \* ProtoState as a number, NOT_STARTED = 0 .. DONE = 4
  retry,       \* start_phase_1 found no predecessor and is on the timer
  responses,   \* responses_this_phase
  candidates,  \* per item heard of: its partial sum and the number of responses
  T1,          \* the threshold of round 2 times the number of predecessors
  down, up,    \* messages to and from each source
  sent,        \* per source: the items it has sent in rounds 1 and 2
  result,      \* what the output cube has for each item
  busy,        \* chains whose strand is still in the handler that called process
  toStop,      \* chains emit_data has still to stop; it holds the mutex meanwhile
  posted,      \* the stop that was posted to a busy strand, which emit_data awaits
  ended        \* emit_data returned -1

query == <<val, preds, phase, retry, responses, candidates, T1, sent, result>>
teardown == <<toStop, posted, ended>>
vars == <<query, future, left, down, up, busy, teardown>>

Init ==
  /\ val \in [Sources -> [Items -> 0 .. MaxVal]]
  /\ future = {} /\ left = {} /\ preds = {}
  /\ phase = 0 /\ retry = FALSE /\ responses = 0
  /\ candidates = [i \in {} |-> 0] /\ T1 = 0
  /\ down = [s \in Sources |-> <<>>] /\ up = [s \in Sources |-> <<>>]
  /\ sent = [s \in Sources |-> {}] /\ result = [i \in Items |-> 0]
  /\ busy = {} /\ toStop = {} /\ posted = {} /\ ended = FALSE

\* No emit_data is stopping chains with the coordinator's mutex held.
MutexFree == toStop = {}

-----------------------------------------------------------------------------
(* Chains come and go.                                                     *)

\* add_chain, when a source's connection is enabled.
AddChain(s) ==
  /\ MutexFree /\ s \notin future \cup left
  /\ future' = future \cup {s}
  /\ UNCHANGED <<query, left, down, up, busy, teardown>>

\* Mutant: the stopped chain stays in future_preds.
ChainStoppingKeeps(s) ==
  /\ MutexFree /\ s \in (Leavers \cap future) \ busy
  /\ left' = left \cup {s} /\ UNCHANGED future
  /\ down' = [down EXCEPT ![s] = <<>>] /\ up' = [up EXCEPT ![s] = <<>>]
  /\ UNCHANGED <<query, busy, teardown>>

\* The connection breaks with what is in flight; chain_stopping at the coordinator.
ChainStopping(s) ==
  /\ MutexFree /\ s \in (Leavers \cap future) \ busy
  /\ left' = left \cup {s} /\ future' = future \ {s}
  /\ down' = [down EXCEPT ![s] = <<>>] /\ up' = [up EXCEPT ![s] = <<>>]
  /\ UNCHANGED <<query, busy, teardown>>

-----------------------------------------------------------------------------
(* The sources.                                                            *)

Present(s) == {i \in Items : val[s][i] > 0}

\* Sets that a query of source s sorted by value, greatest first, may return as
\* its first n items: the order of equal values is the database's.
Best(s, n) ==
  {S \in SUBSET Present(s) :
     /\ Cardinality(S) = Min({n, Cardinality(Present(s))})
     /\ \A i \in S, j \in Present(s) \ S : val[s][i] >= val[s][j]}

\* The items a source sends for a message, given the best items it skips in
\* round 2: from there it takes a prefix of the sorted rest.  take_greatest is
\* read from the sort key of the message at hand.
Reply(s, m, skip) ==
  LET rest == Present(s) \ skip
      over == {i \in rest : val[s][i] * m.n >= m.tau}
      under == {i \in rest : val[s][i] * m.n <= m.tau}
  IN CASE m.round = 1 -> skip
       [] m.round = 2 /\ m.key = "-" -> over
       [] m.round = 2 /\ m.key # "-" -> IF under = rest THEN rest ELSE {}
       [] m.round = 3 -> m.query \cap Present(s)

\* Mutant: the marker overtakes the data.
MetaFromDownstreamEarly(s) ==
  LET m == Head(down[s]) IN
  /\ down[s] # <<>>
  /\ down' = [down EXCEPT ![s] = Tail(@)]
  /\ \E skip \in Best(s, m.k) :
       /\ up' = [up EXCEPT ![s] = @ \o <<[data |-> FALSE, round |-> m.round, items |-> {}],
                                         [data |-> TRUE, round |-> m.round, items |-> Reply(s, m, skip)]>>]
       /\ sent' = IF m.round = 3 THEN sent ELSE [sent EXCEPT ![s] = @ \cup Reply(s, m, skip)]
  /\ UNCHANGED <<val, future, left, preds, phase, retry, responses, candidates, T1, result, busy, teardown>>

\* MultiRoundSender::meta_from_downstream: the items, then the end of the round.
MetaFromDownstream(s) ==
  LET m == Head(down[s]) IN
  /\ down[s] # <<>>
  /\ down' = [down EXCEPT ![s] = Tail(@)]
  /\ \E skip \in Best(s, m.k) :
       /\ up' = [up EXCEPT ![s] = @ \o <<[data |-> TRUE, round |-> m.round, items |-> Reply(s, m, skip)],
                                         [data |-> FALSE, round |-> m.round, items |-> {}]>>]
       /\ sent' = IF m.round = 3 THEN sent ELSE [sent EXCEPT ![s] = @ \cup Reply(s, m, skip)]
  /\ UNCHANGED <<val, future, left, preds, phase, retry, responses, candidates, T1, result, busy, teardown>>

-----------------------------------------------------------------------------
(* The coordinator.                                                        *)

\* upwards_metadata to every predecessor; a chain that stopped passes nothing on.
ToPreds(P, m) == down' = [s \in Sources |-> IF s \in P \ left THEN Append(down[s], m) ELSE down[s]]

\* Mutant: without a predecessor, the query is not tried again.
StartPhase1Once ==
  /\ phase = 0 \/ retry
  /\ phase' = 1 /\ responses' = 0 /\ candidates' = [i \in {} |-> 0]
  /\ preds' = future
  /\ retry' = FALSE
  /\ ToPreds(future, [round |-> 1, key |-> "-", k |-> K, tau |-> 0, n |-> 0, query |-> {}])
  /\ UNCHANGED <<val, future, left, T1, up, sent, result, busy, teardown>>

\* start_phase_1, called by emit_data or, when there was no predecessor, by the timer.
StartPhase1 ==
  /\ phase = 0 \/ retry
  /\ phase' = 1 /\ responses' = 0 /\ candidates' = [i \in {} |-> 0]
  /\ preds' = future
  /\ retry' = (future = {})
  /\ ToPreds(future, [round |-> 1, key |-> "-", k |-> K, tau |-> 0, n |-> 0, query |-> {}])
  /\ UNCHANGED <<val, future, left, T1, up, sent, result, busy, teardown>>

\* calculate_tau
Tau ==
  LET vals == {candidates[i].val : i \in DOMAIN candidates}
      AtLeast(v) == {i \in DOMAIN candidates : candidates[i].val >= v}
  IN IF Cardinality(DOMAIN candidates) < K THEN Max(vals)
     ELSE Max({v \in vals : Cardinality(AtLeast(v)) >= K})

\* The message of round 2 has neither the sort key nor k.
StartPhase2 ==
  LET tau == Tau
      n == Cardinality(preds)
  IN /\ T1' = tau
     /\ phase' = 2
     /\ ToPreds(preds, [round |-> 2, key |-> "", k |-> 0, tau |-> tau, n |-> n, query |-> {}])
     /\ UNCHANGED <<candidates>>

\* Mutant: a candidate whose bound equals tau is left out.
MayBeTopStrict(i, n) ==
  LET c == candidates[i] IN
  IF c.responses > n THEN T1 > 0 \/ c.val > Tau
  ELSE (n - c.responses) * T1 + c.val * n > Tau * n

\* upper_bound >= tau, times n.  More responses than predecessors make the
\* unsigned difference wrap to a huge number, which counts unless T1 is zero.
MayBeTop(i, n) ==
  LET c == candidates[i] IN
  IF c.responses > n THEN T1 > 0 \/ c.val >= Tau
  ELSE (n - c.responses) * T1 + c.val * n >= Tau * n

\* The message of round 3 has no sort key and no k either.
StartPhase3 ==
  LET n == Cardinality(preds) IN
  /\ phase' = 3
  /\ ToPreds(preds, [round |-> 3, key |-> "", k |-> 0, tau |-> 0, n |-> n,
                     query |-> {i \in DOMAIN candidates : MayBeTop(i, n)}])
  /\ UNCHANGED <<candidates, T1>>

Complete ==
  /\ phase' = 4 /\ candidates' = [i \in {} |-> 0]
  /\ UNCHANGED <<T1, down>>

\* The end of a round: without candidates the query is over.
EndOfRound ==
  LET p == IF DOMAIN candidates = {} THEN 3 ELSE phase IN
  /\ responses' = 0
  /\ \/ p = 1 /\ StartPhase2
     \/ p = 2 /\ StartPhase3
     \/ p = 3 /\ Complete

\* process, the tuples: collected in rounds 1 and 2, otherwise passed on to the cube.
ProcessData(s) ==
  LET m == Head(up[s])
      Known(i) == i \in DOMAIN candidates
      Add(i) == [val |-> (IF Known(i) THEN candidates[i].val ELSE 0) + val[s][i],
                 responses |-> (IF Known(i) THEN candidates[i].responses ELSE 0) + 1]
  IN /\ MutexFree /\ s \notin busy /\ up[s] # <<>> /\ m.data
     /\ up' = [up EXCEPT ![s] = Tail(@)] /\ busy' = busy \cup {s}
     /\ IF phase \in {1, 2}
        THEN /\ candidates' = [i \in DOMAIN candidates \cup m.items |->
                                 IF i \in m.items THEN Add(i) ELSE candidates[i]]
             /\ UNCHANGED result
        ELSE /\ result' = [i \in Items |-> IF i \in m.items THEN result[i] + val[s][i] ELSE result[i]]
             /\ UNCHANGED candidates
     /\ UNCHANGED <<val, future, left, preds, phase, retry, responses, T1, down, sent, teardown>>

\* Mutant: the round ends with the first answer.
ProcessEndFirst(s) ==
  LET m == Head(up[s]) IN
  /\ MutexFree /\ s \notin busy /\ up[s] # <<>> /\ ~m.data
  /\ up' = [up EXCEPT ![s] = Tail(@)] /\ busy' = busy \cup {s}
  /\ IF m.round = phase
     THEN EndOfRound
     ELSE UNCHANGED <<phase, responses, candidates, T1, down>>
  /\ UNCHANGED <<val, future, left, preds, retry, sent, result, teardown>>

\* process, END_OF_WINDOW
ProcessEnd(s) ==
  LET m == Head(up[s]) IN
  /\ MutexFree /\ s \notin busy /\ up[s] # <<>> /\ ~m.data
  /\ up' = [up EXCEPT ![s] = Tail(@)] /\ busy' = busy \cup {s}
  /\ IF m.round # phase THEN UNCHANGED <<phase, responses, candidates, T1, down>>
     ELSE IF responses + 1 = Cardinality(preds) THEN EndOfRound
     ELSE responses' = responses + 1 /\ UNCHANGED <<phase, candidates, T1, down>>
  /\ UNCHANGED <<val, future, left, preds, retry, sent, result, teardown>>

\* got_data_cb, which called process, returns.
HandlerReturns(s) ==
  /\ s \in busy /\ busy' = busy \ {s}
  /\ UNCHANGED <<query, future, left, down, up, teardown>>

\* emit_data in phase DONE takes the mutex to stop the predecessors.
EmitData ==
  /\ phase = 4 /\ MutexFree /\ ~ended
  /\ IF preds = {} THEN ended' = TRUE /\ UNCHANGED toStop ELSE toStop' = preds /\ UNCHANGED ended
  /\ UNCHANGED <<query, future, left, down, up, busy, posted>>

\* Mutant: a chain that has stopped by itself is waited for.
StopPredWaits(s) ==
  /\ s \in toStop \cap future /\ posted = {}
  /\ IF s \in busy
     THEN posted' = {s} /\ UNCHANGED <<future, left, toStop, ended>>
     ELSE /\ toStop' = toStop \ {s} /\ ended' = (toStop' = {})
          /\ future' = future \ {s} /\ left' = left \cup {s}
          /\ UNCHANGED posted
  /\ UNCHANGED <<query, down, up, busy>>

\* OperatorChain::stop of a predecessor.  dispatch runs do_stop at once on an idle
\* strand; on a busy one it is posted, and its chain_stopping will need the mutex.
StopPred(s) ==
  /\ s \in toStop /\ posted = {}
  /\ IF s \in busy
     THEN posted' = {s} /\ UNCHANGED <<future, left, toStop, ended>>
     ELSE /\ toStop' = toStop \ {s} /\ ended' = (toStop' = {})
          /\ future' = future \ {s} /\ left' = left \cup {s}
          /\ UNCHANGED posted
  /\ UNCHANGED <<query, down, up, busy>>

Next ==
  \/ StartPhase1 \/ EmitData
  \/ \E s \in Sources : \/ AddChain(s) \/ ChainStopping(s) \/ MetaFromDownstream(s)
                       \/ ProcessData(s) \/ ProcessEnd(s) \/ HandlerReturns(s) \/ StopPred(s)

\* Timers and handlers run.  Every source connects in the end: without one the
\* query is put off for ever.  No connection has to break.
Fairness ==
  /\ WF_vars(StartPhase1) /\ WF_vars(EmitData)
  /\ \A s \in Sources : /\ WF_vars(AddChain(s)) /\ WF_vars(MetaFromDownstream(s)) /\ WF_vars(StopPred(s))
                        /\ WF_vars(ProcessData(s) \/ ProcessEnd(s) \/ HandlerReturns(s))

Spec == Init /\ [][Next]_vars
FairSpec == Spec /\ Fairness

-----------------------------------------------------------------------------
Message == [round : 1 .. 3, key : {"-", ""}, k : {0, K}, tau : Nat, n : 0 .. Cardinality(Sources),
            query : SUBSET Items]

\* Type invariant: the rounds' messages and counts, and which chains are where.
TypeOK ==
  /\ val \in [Sources -> [Items -> 0 .. MaxVal]]
  /\ future \subseteq Sources \ left /\ left \cup preds \cup busy \subseteq Sources
  /\ phase \in 0 .. 4 /\ retry \in BOOLEAN /\ T1 \in Nat
  /\ responses \in 0 .. Cardinality(preds)
  /\ DOMAIN candidates \subseteq Items
  /\ \A i \in DOMAIN candidates : candidates[i] \in [val : Nat, responses : Nat]
  /\ \A s \in Sources : \A n \in DOMAIN down[s] : down[s][n] \in Message
  /\ \A s \in Sources : \A n \in DOMAIN up[s] :
       up[s][n] \in [data : BOOLEAN, round : 1 .. 3, items : SUBSET Items]
  /\ sent \in [Sources -> SUBSET Items] /\ result \in [Items -> Nat]
  /\ toStop \subseteq preds /\ posted \subseteq toStop /\ ended \in BOOLEAN

Total(i) == MapThenSumSet(LAMBDA s : val[s][i], preds)

\* What the query answers is exact: when it is done, an item in the output cube
\* has its value summed over every source that was asked, once each.  It takes
\* the rounds being kept apart: round-1 and round-2 values must not reach the cube.
ExactTotals == phase = 4 => \A i \in Items : result[i] \in {0, Total(i)}

\* The rounds stay in step: whatever is in flight to or from a source belongs to
\* the coordinator's phase, so the test sender_round == phase discards nothing; and
\* as long as no source that was asked is lost, a round that is not over has a question
\* or an answer in flight, so the count of responses never waits for one too many.
InStep ==
  /\ \A s \in Sources :
       /\ \A n \in DOMAIN down[s] : down[s][n].round = phase
       /\ \A n \in DOMAIN up[s] : up[s][n].round = phase
  /\ phase \in 1 .. 3 /\ ~retry /\ preds \cap left = {} =>
       \E s \in preds : down[s] # <<>> \/ up[s] # <<>>

\* The answer is large enough: if some source alone has K items, so has the answer.
\* The bounds of start_phase_3 must leave at least K candidates.
AnswerSize ==
  (phase = 4 /\ \E s \in preds : Cardinality(Present(s)) >= K)
    => Cardinality({i \in Items : result[i] > 0}) >= K

\* The query ends, unless a source it was sent to is lost: then the coordinator
\* waits for an answer that cannot come (responses_this_phase never reaches
\* predecessors.size()).
Completes == <>(phase = 4 \/ preds \cap left # {})

\* The finished query is torn down, unless emit_data, mutex held, awaits a stop that
\* it posted to a chain whose handler had not returned: chain_stopping needs that
\* mutex.  No other state of the chains keeps the coordinator from ending.
EndsUnlessBusy == phase = 4 ~> (ended \/ posted # {})

\* "Sources send all items >= T and not in top k": once round 2 is over, every
\* item of a source that reaches the threshold has been sent.
RoundTwoComplete ==
  phase = 3 => \A s \in preds : \A i \in Present(s) :
                 val[s][i] * Cardinality(preds) >= T1 => i \in sent[s]
=============================================================================
