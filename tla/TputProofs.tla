----------------------------- MODULE TputProofs -----------------------------
(***************************************************************************)
(* Proofs about Tput, for any finite sets of sources and items, any values *)
(* and any K, although connections break and the coordinator starts over   *)
(* while it has no predecessor: the rounds of the query stay in step       *)
(* (IInv), the types hold (TypeInv), and the answer is exact and large     *)
(* enough (AnswerInv).                                                     *)
(***************************************************************************)
EXTENDS Tput, FiniteSetTheorems, WellFoundedInduction, TLAPS

USE ZenonT(3), SMTT(20), Z3T(20), ZenonT(20)

-----------------------------------------------------------------------------
(* The rounds: the inductive invariant.                                    *)

\* The chains and the phase; before the query and between two attempts at it
\* there are no predecessors.
RoundInv ==
  /\ preds \subseteq Sources /\ phase \in 0 .. 4 /\ retry \in BOOLEAN
  /\ phase = 0 \/ retry => preds = {}
  /\ retry => phase = 1
  /\ down = [s \in Sources |-> down[s]] /\ up = [s \in Sources |-> up[s]]

\* The sources with nothing in flight.
Quiet == {s \in Sources : down[s] = <<>> /\ up[s] = <<>>}

\* A source has been asked and has not read it; has answered, and its data and
\* end of round are on their way; or only the end of the round is.
Asked(s) == up[s] = <<>> /\ down[s] = <<down[s][1]>> /\ down[s][1].round = phase
Answered(s) ==
  /\ down[s] = <<>> /\ Len(up[s]) = 2 /\ up[s] = <<up[s][1], up[s][2]>>
  /\ up[s][1].data = TRUE /\ up[s][1].round = phase
  /\ up[s][2].data = FALSE /\ up[s][2].round = phase
Ending(s) ==
  /\ down[s] = <<>> /\ up[s] = <<up[s][1]>>
  /\ up[s][1].data = FALSE /\ up[s][1].round = phase

\* Only a predecessor has anything in flight, only during a round, and then one
\* question or one answer.
ChannelsInv ==
  \A s \in Sources \ Quiet :
    s \in preds /\ phase \in 1 .. 3 /\ (Asked(s) \/ Answered(s) \/ Ending(s))

\* Nobody is counted before the answer is complete: the round cannot end while a
\* predecessor has something in flight.
CountInv == responses \in Nat /\ responses <= Cardinality(preds \cap Quiet)

IInv == RoundInv /\ ChannelsInv /\ CountInv

-----------------------------------------------------------------------------
(* Channels of one and two messages.                                       *)

\* Sending into an empty channel, and reading its only message.
LEMMA OneMessage ==
  ASSUME NEW m
  PROVE  /\ <<m>> # <<>> /\ Len(<<m>>) = 1 /\ <<m>>[1] = m
         /\ Head(<<m>>) = m /\ Tail(<<m>>) = <<>> /\ Append(<<>>, m) = <<m>>
<1>1. <<m>> \in Seq({m}) /\ <<>> \in Seq({m})
  OBVIOUS
<1> QED
  BY <1>1

\* An answer is the data and then the end of the round.
LEMMA TwoMessages ==
  ASSUME NEW d, NEW e
  PROVE  /\ <<d, e>> # <<>> /\ Len(<<d, e>>) = 2 /\ <<d, e>>[1] = d /\ <<d, e>>[2] = e
         /\ Head(<<d, e>>) = d /\ Tail(<<d, e>>) = <<e>> /\ <<>> \o <<d, e>> = <<d, e>>
<1>1. <<d, e>> \in Seq({d, e}) /\ <<>> \in Seq({d, e})
  OBVIOUS
<1>2. Len(<<d, e>>) = 2 /\ <<d, e>>[1] = d /\ <<d, e>>[2] = e /\ <<d, e>> # <<>>
  OBVIOUS
<1>3. Head(<<d, e>>) = d
  BY <1>1, <1>2
<1>4. Tail(<<d, e>>) = <<e>>
  BY <1>1, <1>2
<1>5. <<>> \o <<d, e>> = <<d, e>>
  BY <1>1, <1>2
<1> QED
  BY <1>2, <1>3, <1>4, <1>5

\* Sets of predecessors are finite; one as large as preds is preds.
LEMMA PredsCount ==
  ASSUME RoundInv, NEW S \in SUBSET preds
  PROVE  /\ IsFiniteSet(S) /\ Cardinality(S) \in Nat /\ Cardinality(preds) \in Nat
         /\ Cardinality(S) <= Cardinality(preds)
         /\ Cardinality(S) = Cardinality(preds) => S = preds
<1>1. IsFiniteSet(preds)
  BY TputAssumption, FS_Subset DEF RoundInv
<1> QED
  BY <1>1, FS_Subset, FS_CardinalityType

-----------------------------------------------------------------------------
(* The rounds: the steps.                                                  *)

\* A step that leaves the round, the count and the channels alone.
LEMMA FrameStep ==
  ASSUME IInv, UNCHANGED <<preds, phase, retry, responses, down, up>>
  PROVE  IInv'
<1>1. Quiet' = Quiet
  BY DEF Quiet
<1>2. RoundInv'
  BY DEF IInv, RoundInv
<1>3. ChannelsInv'
  BY ZenonT(20), <1>1 DEF IInv, ChannelsInv, Asked, Answered, Ending
<1>4. CountInv'
  BY <1>1 DEF IInv, CountInv
<1> QED
  BY <1>2, <1>3, <1>4 DEF IInv

\* A step that changes the channels of one source, within the round: the channels of
\* the others stay as they are.
LEMMA ChannelStep ==
  ASSUME IInv, NEW s \in Sources, NEW d, NEW u,
         down' = [down EXCEPT ![s] = d], up' = [up EXCEPT ![s] = u],
         UNCHANGED <<preds, phase, retry>>,
         \/ d = <<>> /\ u = <<>>
         \/ s \in preds /\ phase \in 1 .. 3 /\ (Asked(s)' \/ Answered(s)' \/ Ending(s)')
  PROVE  /\ RoundInv' /\ ChannelsInv'
         /\ Quiet' = IF d = <<>> /\ u = <<>> THEN Quiet \cup {s} ELSE Quiet \ {s}
<1>1. down'[s] = d /\ up'[s] = u
  BY DEF IInv, RoundInv
<1>2. ASSUME NEW r \in Sources, r # s PROVE down'[r] = down[r] /\ up'[r] = up[r]
  BY <1>2 DEF IInv, RoundInv
<1>3. Quiet' = IF d = <<>> /\ u = <<>> THEN Quiet \cup {s} ELSE Quiet \ {s}
  BY <1>1, <1>2 DEF Quiet
<1>4. /\ down' = [r \in Sources |-> down'[r]]
      /\ up' = [r \in Sources |-> up'[r]]
  BY DEF IInv, RoundInv
<1>5. RoundInv'
  BY <1>4 DEF IInv, RoundInv
<1>6. ASSUME NEW r \in Sources, r \notin Quiet'
      PROVE  r \in preds' /\ phase' \in 1 .. 3 /\ (Asked(r)' \/ Answered(r)' \/ Ending(r)')
  <2>1. CASE r = s
    BY <2>1, <1>3, <1>6
  <2>2. CASE r # s
    <3>1. r \notin Quiet
      BY <2>2, <1>3, <1>6
    <3>2. r \in preds /\ phase \in 1 .. 3 /\ (Asked(r) \/ Answered(r) \/ Ending(r))
      BY <3>1 DEF IInv, ChannelsInv
    <3> QED
      BY <3>2, <1>2, <2>2 DEF Asked, Answered, Ending
  <2> QED
    BY <2>1, <2>2
<1>7. ChannelsInv'
  BY <1>6 DEF ChannelsInv
<1> QED
  BY <1>3, <1>5, <1>7

\* chain_stopping: what was in flight on the broken connection is gone.
LEMMA ChainStoppingStep ==
  ASSUME IInv, NEW s \in Sources, ChainStopping(s)
  PROVE  IInv'
<1>1. RoundInv' /\ ChannelsInv' /\ Quiet' = Quiet \cup {s}
  BY ChannelStep DEF ChainStopping, query
<1>2. preds \cap Quiet \subseteq preds \cap Quiet' /\ preds' = preds /\ responses' = responses
  BY <1>1 DEF ChainStopping, query
<1>3. IsFiniteSet(preds \cap Quiet') /\ Cardinality(preds \cap Quiet') \in Nat
  <2>1. preds \cap Quiet' \in SUBSET preds
    OBVIOUS
  <2> QED
    BY <2>1, PredsCount DEF IInv
<1>4. Cardinality(preds \cap Quiet) <= Cardinality(preds \cap Quiet')
  BY <1>2, <1>3, FS_Subset
<1>5. Cardinality(preds \cap Quiet) \in Nat
  <2>1. preds \cap Quiet \in SUBSET preds
    OBVIOUS
  <2> QED
    BY <2>1, PredsCount DEF IInv
<1>6. CountInv'
  BY <1>2, <1>3, <1>4, <1>5 DEF IInv, CountInv
<1> QED
  BY <1>1, <1>6 DEF IInv

\* MetaFromDownstream on the channels: the question becomes the answer.
LEMMA Replies ==
  ASSUME IInv, NEW s \in Sources, MetaFromDownstream(s)
  PROVE  /\ s \in preds /\ phase \in 1 .. 3 /\ Asked(s)
         /\ down' = [down EXCEPT ![s] = <<>>]
         /\ \E skip \in Best(s, down[s][1].k) : \E x, y :
              /\ x = [data |-> TRUE, round |-> phase, items |-> Reply(s, down[s][1], skip)]
              /\ y = [data |-> FALSE, round |-> phase, items |-> {}]
              /\ up' = [up EXCEPT ![s] = <<x, y>>]
<1>1. s \notin Quiet
  BY DEF MetaFromDownstream, Quiet
<1>2. s \in preds /\ phase \in 1 .. 3 /\ Asked(s)
  BY <1>1 DEF MetaFromDownstream, IInv, ChannelsInv, Answered, Ending
<1>3. Head(down[s]) = down[s][1] /\ Tail(down[s]) = <<>> /\ up[s] = <<>> /\ Head(down[s]).round = phase
  BY <1>2, OneMessage DEF Asked
<1>4. PICK m : m = down[s][1]
  OBVIOUS
<1>5. PICK skip \in Best(s, m.k) :
        up' = [up EXCEPT ![s] = up[s] \o
           <<[data |-> TRUE, round |-> m.round, items |-> Reply(s, m, skip)],
             [data |-> FALSE, round |-> m.round, items |-> {}]>>]
  BY <1>3, <1>4 DEF MetaFromDownstream
<1>6. PICK x, y : /\ x = [data |-> TRUE, round |-> phase, items |-> Reply(s, m, skip)]
                  /\ y = [data |-> FALSE, round |-> phase, items |-> {}]
  OBVIOUS
<1>7. up' = [up EXCEPT ![s] = up[s] \o <<x, y>>]
  BY <1>3, <1>4, <1>5, <1>6
<1>8. up[s] \o <<x, y>> = <<x, y>>
  BY SMTT(20), Z3T(20), SMTT(30), <1>3, TwoMessages
<1>9. up' = [up EXCEPT ![s] = <<x, y>>] /\ down' = [down EXCEPT ![s] = <<>>]
  BY <1>3, <1>7, <1>8 DEF MetaFromDownstream
<1> QED
  BY <1>2, <1>4, <1>6, <1>9

\* A source answers the one question it was asked, in the round it was asked in.
LEMMA MetaFromDownstreamStep ==
  ASSUME IInv, NEW s \in Sources, MetaFromDownstream(s)
  PROVE  IInv'
<1>1. s \in preds /\ phase \in 1 .. 3 /\ Asked(s) /\ down' = [down EXCEPT ![s] = <<>>]
  BY Replies
<1>2. PICK x, y : /\ x.data = TRUE /\ x.round = phase /\ y.data = FALSE /\ y.round = phase
                  /\ up' = [up EXCEPT ![s] = <<x, y>>]
  BY SMTT(20), Z3T(20), SMTT(30), Replies
<1>3. UNCHANGED <<preds, phase, retry, responses>>
  BY DEF MetaFromDownstream
<1>4. <<x, y>> # <<>> /\ Len(<<x, y>>) = 2 /\ <<x, y>>[1] = x /\ <<x, y>>[2] = y
  BY TwoMessages
<1>5. up'[s] = <<x, y>> /\ down'[s] = <<>>
  BY <1>1, <1>2 DEF IInv, RoundInv
<1>6. Answered(s)'
  BY <1>2, <1>3, <1>4, <1>5 DEF Answered
<1>7. RoundInv' /\ ChannelsInv' /\ Quiet' = Quiet \ {s}
  BY <1>1, <1>2, <1>3, <1>4, <1>6, ChannelStep
<1>8. s \notin Quiet
  BY <1>1, OneMessage DEF Asked, Quiet
<1>9. CountInv'
  BY <1>3, <1>7, <1>8 DEF IInv, CountInv
<1> QED
  BY <1>7, <1>9 DEF IInv

\* A round begins: with nothing in flight, every predecessor whose chain is up is
\* sent one message of the new round.
LEMMA BeginRound ==
  ASSUME NEW P \in SUBSET Sources, NEW m, ToPreds(P, m), m.round = phase', phase' \in 1 .. 3,
         \A r \in Sources : down[r] = <<>> /\ up'[r] = <<>>,
         up' = [r \in Sources |-> up'[r]],
         preds' = P, responses' = 0,
         retry' \in BOOLEAN, retry' => P = {} /\ phase' = 1
  PROVE  IInv'
<1>1. ASSUME NEW r \in Sources
      PROVE  down'[r] = <<>> \/ (r \in P /\ down'[r] = <<m>>)
  BY OneMessage DEF ToPreds
<1>2. down' = [r \in Sources |-> down'[r]]
  BY DEF ToPreds
<1>3. RoundInv'
  BY <1>2 DEF RoundInv
<1>4. ASSUME NEW r \in Sources, r \notin Quiet'
      PROVE  r \in preds' /\ phase' \in 1 .. 3 /\ Asked(r)'
  <2>1. r \in P /\ down'[r] = <<m>>
    BY <1>1, <1>4 DEF Quiet
  <2>2. <<m>>[1] = m
    OBVIOUS
  <2> QED
    BY <2>1, <2>2 DEF Asked
<1>5. ChannelsInv'
  BY <1>4 DEF ChannelsInv
<1>6. Cardinality(preds' \cap Quiet') \in Nat
  <2>1. IsFiniteSet(preds' \cap Quiet')
    BY TputAssumption, FS_Subset DEF Quiet
  <2> QED
    BY <2>1, FS_CardinalityType
<1>7. CountInv'
  BY <1>6 DEF CountInv
<1> QED
  BY <1>3, <1>5, <1>7 DEF IInv

\* start_phase_1: it runs before the first round, or again when nobody was asked.
LEMMA StartPhase1Step ==
  ASSUME IInv, StartPhase1, future \subseteq Sources
  PROVE  IInv'
<1>1. preds = {}
  BY DEF StartPhase1, IInv, RoundInv
<1>2. \A r \in Sources : down[r] = <<>> /\ up[r] = <<>>
  BY <1>1 DEF IInv, ChannelsInv, Quiet
<1>3. up' = up /\ up = [r \in Sources |-> up[r]]
  BY DEF StartPhase1, IInv, RoundInv
<1>4. PICK m : ToPreds(future, m) /\ m.round = 1
  BY DEF StartPhase1
<1>5. phase' = 1 /\ preds' = future /\ responses' = 0 /\ retry' = (future = {})
  BY DEF StartPhase1
<1>6. retry' \in BOOLEAN /\ (retry' => future = {} /\ phase' = 1)
  BY <1>5
<1>7. \A r \in Sources : down[r] = <<>> /\ up'[r] = <<>>
  BY <1>2, <1>3
<1>8. up' = [r \in Sources |-> up'[r]] /\ m.round = phase' /\ phase' \in 1 .. 3
  BY <1>3, <1>4, <1>5
<1> QED
  BY <1>4, <1>5, <1>6, <1>7, <1>8, BeginRound

\* ProcessData on the channels: the data is taken, the end of the round is left.
LEMMA Takes ==
  ASSUME IInv, NEW s \in Sources, ProcessData(s)
  PROVE  /\ s \in preds /\ phase \in 1 .. 3 /\ Answered(s) /\ Head(up[s]) = up[s][1]
         /\ down' = [down EXCEPT ![s] = <<>>] /\ up' = [up EXCEPT ![s] = <<up[s][2]>>]
<1>1. up[s] # <<>> /\ Head(up[s]).data /\ s \notin Quiet
  BY DEF ProcessData, Quiet
<1>2. s \in preds /\ phase \in 1 .. 3 /\ (Answered(s) \/ Ending(s))
  BY <1>1 DEF IInv, ChannelsInv, Asked
<1>3. ~Ending(s)
  BY <1>1, OneMessage DEF Ending
<1>4. PICK x, y : up[s] = <<x, y>> /\ down[s] = <<>>
  BY <1>2, <1>3 DEF Answered
<1>5. Tail(up[s]) = <<y>> /\ Head(up[s]) = x /\ up[s][1] = x /\ up[s][2] = y
  BY SMTT(20), Z3T(20), SMTT(30), <1>4, TwoMessages
<1>6. down' = [down EXCEPT ![s] = <<>>]
  BY <1>4 DEF ProcessData, IInv, RoundInv
<1>7. up' = [up EXCEPT ![s] = <<y>>]
  BY <1>5 DEF ProcessData
<1> QED
  BY <1>2, <1>3, <1>5, <1>6, <1>7

\* The coordinator takes the data; the end of the round is still to come.
LEMMA ProcessDataStep ==
  ASSUME IInv, NEW s \in Sources, ProcessData(s)
  PROVE  IInv'
<1>1. /\ s \in preds /\ phase \in 1 .. 3 /\ Answered(s)
      /\ down' = [down EXCEPT ![s] = <<>>] /\ up' = [up EXCEPT ![s] = <<up[s][2]>>]
  BY Takes
<1>2. PICK y : y = up[s][2] /\ y.data = FALSE /\ y.round = phase
  BY <1>1 DEF Answered
<1>3. UNCHANGED <<preds, phase, retry, responses>>
  BY DEF ProcessData
<1>4. up'[s] = <<y>> /\ down'[s] = <<>> /\ <<y>>[1] = y /\ <<y>> # <<>>
  BY <1>1, <1>2, OneMessage DEF IInv, RoundInv
<1>5. Ending(s)'
  BY <1>2, <1>3, <1>4 DEF Ending
<1>6. RoundInv' /\ ChannelsInv' /\ Quiet' = Quiet \ {s}
  BY <1>1, <1>2, <1>3, <1>4, <1>5, ChannelStep
<1>7. s \notin Quiet
  BY SMTT(20), Z3T(20), SMTT(30), <1>1, TwoMessages DEF Answered, Quiet
<1>8. CountInv'
  BY <1>3, <1>6, <1>7 DEF IInv, CountInv
<1> QED
  BY <1>6, <1>8 DEF IInv

\* The end of a round comes last from its source, and is of the coordinator's round.
LEMMA EndIsCurrent ==
  ASSUME IInv, NEW s \in Sources, ProcessEnd(s)
  PROVE  /\ s \in preds /\ s \notin Quiet /\ phase \in 1 .. 3
         /\ Head(up[s]).round = phase
         /\ up' = [up EXCEPT ![s] = <<>>] /\ down[s] = <<>>
<1>1. up[s] # <<>> /\ ~Head(up[s]).data /\ s \notin Quiet /\ up' = [up EXCEPT ![s] = Tail(up[s])]
  BY DEF ProcessEnd, Quiet
<1>2. s \in preds /\ phase \in 1 .. 3 /\ (Answered(s) \/ Ending(s))
  BY <1>1 DEF IInv, ChannelsInv, Asked
<1>3. ~Answered(s)
  BY SMTT(20), Z3T(20), SMTT(30), <1>1, TwoMessages DEF Answered
<1>4. PICK y : up[s] = <<y>> /\ down[s] = <<>> /\ y.round = phase
  BY <1>2, <1>3 DEF Ending
<1>5. Head(up[s]) = y /\ Tail(up[s]) = <<>>
  BY <1>4, OneMessage
<1> QED
  BY <1>1, <1>2, <1>4, <1>5

\* The last END_OF_WINDOW of a round finds every channel empty.
LEMMA RoundOver ==
  ASSUME IInv, NEW s \in Sources, ProcessEnd(s), responses + 1 = Cardinality(preds)
  PROVE  /\ EndOfRound /\ phase \in 1 .. 3 /\ preds' = preds
         /\ \A r \in Sources : down[r] = <<>> /\ up'[r] = <<>>
<1>1. /\ s \in preds /\ s \notin Quiet /\ phase \in 1 .. 3 /\ Head(up[s]).round = phase
      /\ up' = [up EXCEPT ![s] = <<>>] /\ down[s] = <<>>
  BY EndIsCurrent
<1>2. EndOfRound /\ preds' = preds
  BY <1>1 DEF ProcessEnd
<1>3. PICK Q \in SUBSET preds : Q = preds \cap Quiet
  OBVIOUS
<1>4. Q \cup {s} \in SUBSET preds /\ s \notin Q
  BY <1>1, <1>3
<1>5. IsFiniteSet(Q) /\ Cardinality(Q) \in Nat /\ Cardinality(Q \cup {s}) = Cardinality(Q) + 1
  BY <1>4, PredsCount, FS_AddElement DEF IInv
<1>6. Cardinality(preds) \in Nat /\ Cardinality(Q \cup {s}) <= Cardinality(preds)
  BY <1>4, PredsCount DEF IInv
<1>7. responses \in Nat /\ responses <= Cardinality(Q)
  BY <1>3 DEF IInv, CountInv
<1>8. Cardinality(Q \cup {s}) = Cardinality(preds)
  BY SMTT(20), Z3T(20), SMTT(30), <1>5, <1>6, <1>7
<1>9. Q \cup {s} = preds
  BY <1>4, <1>8, PredsCount DEF IInv
<1>10. \A r \in Sources : r # s => r \in Quiet
  BY <1>3, <1>9 DEF IInv, ChannelsInv
<1>11. \A r \in Sources : down[r] = <<>> /\ up'[r] = <<>>
  BY <1>1, <1>10 DEF Quiet, IInv, RoundInv
<1> QED
  BY <1>1, <1>2, <1>11

\* process, END_OF_WINDOW: the answer is counted, and the last of them ends the round.
\* Then nothing is in flight, since nobody was counted who had anything in flight.
LEMMA ProcessEndStep ==
  ASSUME IInv, NEW s \in Sources, ProcessEnd(s)
  PROVE  IInv'
<1>1. /\ s \in preds /\ s \notin Quiet /\ phase \in 1 .. 3 /\ Head(up[s]).round = phase
      /\ up' = [up EXCEPT ![s] = <<>>] /\ down[s] = <<>>
  BY EndIsCurrent
<1>2. UNCHANGED <<preds, retry>>
  BY DEF ProcessEnd
<1> DEFINE Q == preds \cap Quiet
<1>3. /\ IsFiniteSet(Q) /\ Cardinality(Q) \in Nat /\ Cardinality(preds) \in Nat
      /\ Cardinality(Q \cup {s}) = Cardinality(Q) + 1
  <2>1. Q \in SUBSET preds /\ s \notin Q
    BY <1>1
  <2> QED
    BY <2>1, PredsCount, FS_AddElement DEF IInv
<1>4. CASE responses + 1 # Cardinality(preds)
  <2>1. responses' = responses + 1 /\ down' = down /\ phase' = phase
    BY <1>1, <1>4 DEF ProcessEnd
  <2>2. down' = [down EXCEPT ![s] = <<>>]
    BY <1>1, <2>1 DEF IInv, RoundInv
  <2>3. RoundInv' /\ ChannelsInv' /\ Quiet' = Quiet \cup {s}
    BY <1>1, <1>2, <2>1, <2>2, ChannelStep
  <2>4. preds' \cap Quiet' = Q \cup {s}
    BY <1>1, <1>2, <2>3
  <2>5. responses \in Nat /\ responses <= Cardinality(Q)
    BY DEF IInv, CountInv
  <2>6. Cardinality(preds' \cap Quiet') = Cardinality(Q) + 1
    BY <1>3, <2>4
  <2>7. responses' \in Nat /\ responses' <= Cardinality(preds' \cap Quiet')
    <3> HIDE DEF Q
    <3> QED
      BY <1>3, <2>1, <2>5, <2>6
  <2>8. CountInv'
    BY <2>7 DEF CountInv
  <2> QED
    BY <2>3, <2>8 DEF IInv
<1>5. CASE responses + 1 = Cardinality(preds)
  <2>1. EndOfRound
    BY <1>1, <1>5 DEF ProcessEnd
  <2>4. \A r \in Sources : down[r] = <<>> /\ up'[r] = <<>>
    BY <1>5, RoundOver
  <2>5. up' = [r \in Sources |-> up'[r]]
    BY <1>1 DEF IInv, RoundInv
  <2>6. preds \in SUBSET Sources /\ retry' \in BOOLEAN /\ (retry' => preds = {} /\ FALSE)
    BY <1>1, <1>2 DEF IInv, RoundInv
  <2>7. responses' = 0
    BY <2>1 DEF EndOfRound
  <2>8. CASE StartPhase2
    <3>1. PICK m : m = [round |-> 2, key |-> "", k |-> 0, tau |-> Tau, n |-> Cardinality(preds),
                        query |-> {}]
      OBVIOUS
    <3>2. ToPreds(preds, m) /\ m.round = 2
      BY <2>8, <3>1 DEF StartPhase2, ToPreds
    <3>3. phase' = 2
      BY <2>8 DEF StartPhase2
    <3> QED
      BY SMTT(20), Z3T(20), SMTT(30), <1>2, <2>4, <2>5, <2>6, <2>7, <3>2, <3>3, BeginRound
  <2>9. CASE StartPhase3
    <3>1. PICK m : m = [round |-> 3, key |-> "", k |-> 0, tau |-> 0, n |-> Cardinality(preds),
                        query |-> {i \in DOMAIN candidates : MayBeTop(i, Cardinality(preds))}]
      OBVIOUS
    <3>2. ToPreds(preds, m) /\ m.round = 3
      BY <2>9, <3>1 DEF StartPhase3, ToPreds
    <3>3. phase' = 3
      BY <2>9 DEF StartPhase3
    <3> QED
      BY SMTT(20), Z3T(20), SMTT(30), <1>2, <2>4, <2>5, <2>6, <2>7, <3>2, <3>3, BeginRound
  <2>10. CASE Complete
    <3>1. phase' = 4 /\ down' = down
      BY <2>10 DEF Complete
    <3>2. Quiet' = Sources
      BY <2>4, <3>1 DEF Quiet
    <3>3. RoundInv'
      BY SMTT(20), Z3T(20), SMTT(30), <1>2, <2>5, <2>6, <3>1 DEF IInv, RoundInv
    <3>4. ChannelsInv'
      BY <3>2 DEF ChannelsInv
    <3>5. preds' \cap Quiet' = preds
      BY <1>2, <2>6, <3>2
    <3>6. Cardinality(preds' \cap Quiet') \in Nat
      BY <1>3, <3>5
    <3>7. responses' \in Nat /\ responses' <= Cardinality(preds' \cap Quiet')
      BY <2>7, <3>6
    <3>8. CountInv'
      BY <3>7 DEF CountInv
    <3> QED
      BY <3>3, <3>4, <3>8 DEF IInv
  <2> QED
    BY <2>1, <2>8, <2>9, <2>10 DEF EndOfRound
<1> QED
  BY <1>4, <1>5

-----------------------------------------------------------------------------
(* The rounds: the theorem.                                                *)

\* Only sources are attached.
LEMMA FutureStep ==
  ASSUME future \subseteq Sources, [Next]_vars
  PROVE  future' \subseteq Sources
<1>1. future' = future \/ (\E s \in Sources : future' = future \cup {s} \/ future' = future \ {s})
  BY ZenonT(20) DEF Next, vars, query, StartPhase1, EmitData, AddChain, ChainStopping, MetaFromDownstream,
         ProcessData, ProcessEnd, HandlerReturns, StopPred
<1> QED
  BY <1>1

\* Nothing is in flight before the query.
LEMMA InitInv == Init => IInv /\ future \subseteq Sources
<1> SUFFICES ASSUME Init PROVE IInv /\ future \subseteq Sources
  OBVIOUS
<1>1. Quiet = Sources
  BY DEF Init, Quiet
<1>2. RoundInv
  <2>1. down = [s \in Sources |-> down[s]] /\ up = [s \in Sources |-> up[s]]
    BY DEF Init
  <2>2. phase \in 0 .. 4 /\ preds = {}
    BY DEF Init
  <2>3. ~retry /\ retry \in BOOLEAN
    BY DEF Init
  <2> QED
    BY <2>1, <2>2, <2>3 DEF RoundInv
<1>3. ChannelsInv
  BY <1>1 DEF ChannelsInv
<1>4. preds \cap Quiet = {}
  BY DEF Init
<1>5. CountInv
  BY SMTT(20), Z3T(20), SMTT(30), <1>4, FS_EmptySet DEF Init, CountInv
<1> QED
  BY <1>2, <1>3, <1>5 DEF IInv, Init

\* Every step keeps the invariant.
LEMMA NextInv ==
  ASSUME IInv, future \subseteq Sources, [Next]_vars
  PROVE  IInv'
<1>1. CASE UNCHANGED vars
  BY <1>1, FrameStep DEF vars, query
<1>2. CASE StartPhase1
  BY <1>2, StartPhase1Step
<1>3. CASE EmitData
  BY <1>3, FrameStep DEF EmitData, query
<1>4. ASSUME NEW s \in Sources, AddChain(s) PROVE IInv'
  BY <1>4, FrameStep DEF AddChain, query
<1>5. ASSUME NEW s \in Sources, ChainStopping(s) PROVE IInv'
  BY <1>5, ChainStoppingStep
<1>6. ASSUME NEW s \in Sources, MetaFromDownstream(s) PROVE IInv'
  BY <1>6, MetaFromDownstreamStep
<1>7. ASSUME NEW s \in Sources, ProcessData(s) PROVE IInv'
  BY <1>7, ProcessDataStep
<1>8. ASSUME NEW s \in Sources, ProcessEnd(s) PROVE IInv'
  BY <1>8, ProcessEndStep
<1>9. ASSUME NEW s \in Sources, HandlerReturns(s) PROVE IInv'
  BY <1>9, FrameStep DEF HandlerReturns, query
<1>10. ASSUME NEW s \in Sources, StopPred(s) PROVE IInv'
  BY <1>10, FrameStep DEF StopPred, query
<1> QED
  BY <1>1, <1>2, <1>3, <1>4, <1>5, <1>6, <1>7, <1>8, <1>9, <1>10 DEF Next

-----------------------------------------------------------------------------
(* The rounds: none waits for an answer that is not coming.                *)

\* A round is under way and no source that was asked is lost.
Running == phase \in 1 .. 3 /\ ~retry /\ preds \cap left = {}

\* Then the answers that are counted are those of the quiet predecessors, and some
\* are missing.
OweInv ==
  /\ future \subseteq Sources \ left
  /\ phase \in 1 .. 3 /\ ~retry => preds # {}
  /\ Running => responses = Cardinality(preds \cap Quiet) /\ responses < Cardinality(preds)

\* A step within the round that makes nobody quiet, and answers nothing.
LEMMA OweFrame ==
  ASSUME OweInv, UNCHANGED <<preds, phase, retry, responses>>, left \subseteq left',
         future' \subseteq Sources \ left', preds \cap left' = {} => preds \cap Quiet' = preds \cap Quiet
  PROVE  OweInv'
<1>1. Running' => Running /\ preds' \cap Quiet' = preds \cap Quiet
  BY DEF Running
<1> QED
  BY <1>1 DEF OweInv

\* A round begins with every predecessor asked.
LEMMA OweBegin ==
  ASSUME NEW P \in SUBSET Sources, NEW m, ToPreds(P, m),
         \A r \in Sources : down[r] = <<>>,
         preds' = P, responses' = 0, left' = left, future' \subseteq Sources \ left,
         ~retry' => P # {}
  PROVE  OweInv'
<1>1. ASSUME Running' PROVE preds' \cap Quiet' = {}
  <2>1. ASSUME NEW r \in P PROVE down'[r] # <<>>
    BY <1>1, <2>1, OneMessage DEF ToPreds, Running
  <2> QED
    BY <2>1 DEF Quiet
<1>2. ASSUME Running' PROVE Cardinality(preds') \in Nat \ {0} /\ Cardinality(preds' \cap Quiet') = 0
  <2>1. IsFiniteSet(preds') /\ preds' # {}
    BY <1>2, TputAssumption, FS_Subset DEF Running
  <2>2. Cardinality(preds') \in Nat /\ Cardinality(preds') # 0
    BY <2>1, FS_EmptySet, FS_CardinalityType
  <2> QED
    BY <1>1, <1>2, <2>2, FS_EmptySet
<1>3. Running' => responses' = Cardinality(preds' \cap Quiet') /\ responses' < Cardinality(preds')
  BY SMTT(20), Z3T(20), SMTT(30), <1>2
<1> QED
  BY <1>3 DEF OweInv

\* process, END_OF_WINDOW: the source that is counted has become quiet.
LEMMA OweEnd ==
  ASSUME IInv, OweInv, NEW s \in Sources, ProcessEnd(s)
  PROVE  OweInv'
<1>1. /\ s \in preds /\ s \notin Quiet /\ phase \in 1 .. 3 /\ Head(up[s]).round = phase
      /\ up' = [up EXCEPT ![s] = <<>>] /\ down[s] = <<>>
  BY EndIsCurrent
<1>2. UNCHANGED <<preds, retry, future, left>>
  BY DEF ProcessEnd
<1>3. CASE responses + 1 # Cardinality(preds)
  <2>1. responses' = responses + 1 /\ down' = down /\ phase' = phase
    BY <1>1, <1>3 DEF ProcessEnd
  <2>2. down' = [down EXCEPT ![s] = <<>>]
    BY <1>1, <2>1 DEF IInv, RoundInv
  <2>3. Quiet' = Quiet \cup {s}
    BY <1>1, <1>2, <2>1, <2>2, ChannelStep
  <2>4. PICK Q \in SUBSET preds : Q = preds \cap Quiet
    OBVIOUS
  <2>5. preds' \cap Quiet' = Q \cup {s} /\ s \notin Q
    BY <1>1, <1>2, <2>3, <2>4
  <2>6. Cardinality(Q \cup {s}) = Cardinality(Q) + 1 /\ Cardinality(Q) \in Nat /\ Cardinality(preds) \in Nat
    BY <2>5, PredsCount, FS_AddElement DEF IInv
  <2>7. Running' => responses = Cardinality(Q) /\ responses < Cardinality(preds)
    BY <1>2, <2>1, <2>4 DEF Running, OweInv
  <2>8. Running' => responses' = Cardinality(preds' \cap Quiet') /\ responses' < Cardinality(preds')
    <3>1. Cardinality(preds' \cap Quiet') = Cardinality(Q) + 1 /\ Cardinality(preds') = Cardinality(preds)
      BY <1>2, <2>5, <2>6
    <3> QED
      BY SMTT(20), Z3T(20), SMTT(30), <1>3, <2>1, <2>6, <2>7, <3>1
  <2> QED
    BY <1>1, <1>2, <2>8 DEF OweInv
<1>4. CASE responses + 1 = Cardinality(preds)
  <2>1. /\ EndOfRound /\ \A r \in Sources : down[r] = <<>>
    BY <1>4, RoundOver
  <2>2. responses' = 0 /\ (StartPhase2 \/ StartPhase3 \/ Complete)
    BY <2>1 DEF EndOfRound
  <2>3. CASE Complete
    BY <1>2, <2>3 DEF Complete, OweInv, Running
  <2>4. CASE StartPhase2 \/ StartPhase3
    <3>1. PICK m : ToPreds(preds, m)
      BY Zenon, <2>4 DEF StartPhase2, StartPhase3
    <3>2. preds \in SUBSET Sources /\ future' \subseteq Sources \ left /\ preds # {}
      BY <1>1, <1>2 DEF IInv, RoundInv, OweInv
    <3> QED
      BY <1>2, <2>1, <2>2, <3>1, <3>2, OweBegin
  <2> QED
    BY <2>2, <2>3, <2>4
<1> QED
  BY <1>3, <1>4

\* Every step keeps OweInv.
LEMMA OweStep ==
  ASSUME IInv, OweInv, [Next]_vars
  PROVE  OweInv'
<1>1. ASSUME UNCHANGED <<preds, phase, retry, responses, down, up>>, left \subseteq left',
             future' \subseteq Sources \ left'
      PROVE  OweInv'
  <2>1. Quiet' = Quiet
    BY <1>1 DEF Quiet
  <2> QED
    BY <1>1, <2>1, OweFrame
<1>2. CASE StartPhase1
  <2>1. \A r \in Sources : down[r] = <<>>
    BY <1>2 DEF StartPhase1, IInv, RoundInv, ChannelsInv, Quiet
  <2>2. PICK m : ToPreds(future, m)
    BY <1>2 DEF StartPhase1
  <2>3. /\ preds' = future /\ responses' = 0 /\ retry' = (future = {}) /\ UNCHANGED <<future, left>>
        /\ future \subseteq Sources \ left
    BY <1>2 DEF StartPhase1, OweInv
  <2>4. future \in SUBSET Sources /\ future' \subseteq Sources \ left /\ (~retry' => future # {})
    BY <2>3
  <2> QED
    BY <2>1, <2>2, <2>3, <2>4, OweBegin
<1>3. CASE UNCHANGED vars \/ EmitData
  BY Zenon, <1>1, <1>3 DEF vars, query, EmitData, OweInv
<1>4. ASSUME NEW s \in Sources, AddChain(s) \/ HandlerReturns(s) \/ StopPred(s) PROVE OweInv'
  <2>1. UNCHANGED <<preds, phase, retry, responses, down, up>>
    BY <1>4 DEF AddChain, HandlerReturns, StopPred, query
  <2>2. \/ future' = future \cup {s} /\ left' = left /\ s \notin left
        \/ future' = future \ {s} /\ left' = left \cup {s}
        \/ UNCHANGED <<future, left>>
    BY Zenon, <1>4 DEF AddChain, HandlerReturns, StopPred
  <2>3. left \subseteq left' /\ future' \subseteq Sources \ left'
    BY <2>2 DEF OweInv
  <2> QED
    BY <1>1, <2>1, <2>3
<1>5. ASSUME NEW s \in Sources, ChainStopping(s) PROVE OweInv'
  <2>1. /\ UNCHANGED <<preds, phase, retry, responses>> /\ left' = left \cup {s} /\ future' = future \ {s}
        /\ down' = [down EXCEPT ![s] = <<>>] /\ up' = [up EXCEPT ![s] = <<>>]
    BY <1>5 DEF ChainStopping, query
  <2>2. Quiet' = Quiet \cup {s}
    BY <2>1, ChannelStep
  <2>3. future' \subseteq Sources \ left' /\ left \subseteq left'
    BY <2>1 DEF OweInv
  <2>4. preds \cap left' = {} => preds \cap Quiet' = preds \cap Quiet
    BY <2>1, <2>2
  <2> QED
    BY <2>1, <2>3, <2>4, OweFrame
<1>6. ASSUME NEW s \in Sources, MetaFromDownstream(s) \/ ProcessData(s) PROVE OweInv'
  <2>1. UNCHANGED <<preds, phase, retry, responses, left, future>>
    BY <1>6 DEF MetaFromDownstream, ProcessData
  <2>2. ASSUME NEW r \in Sources, r # s PROVE down'[r] = down[r] /\ up'[r] = up[r]
    BY <1>6, <2>2 DEF MetaFromDownstream, ProcessData, IInv, RoundInv
  <2>3. s \notin Quiet
    BY <1>6 DEF MetaFromDownstream, ProcessData, Quiet
  <2>4. up'[s] # <<>>
    <3>1. CASE MetaFromDownstream(s)
      <4>1. PICK x, y : up' = [up EXCEPT ![s] = <<x, y>>]
        BY SMTT(20), Z3T(20), SMTT(30), <3>1, Replies
      <4> QED
        BY <4>1, TwoMessages DEF IInv, RoundInv
    <3>2. CASE ProcessData(s)
      <4>1. up' = [up EXCEPT ![s] = <<up[s][2]>>]
        BY <3>2, Takes
      <4> QED
        BY <4>1, OneMessage DEF IInv, RoundInv
    <3> QED
      BY <1>6, <3>1, <3>2
  <2>5. Quiet' = Quiet
    BY <2>2, <2>3, <2>4 DEF Quiet
  <2> QED
    BY <2>1, <2>5, OweFrame DEF OweInv
<1>7. ASSUME NEW s \in Sources, ProcessEnd(s) PROVE OweInv'
  BY <1>7, OweEnd
<1> QED
  BY <1>2, <1>3, <1>4, <1>5, <1>6, <1>7 DEF Next

\* What is in flight belongs to the coordinator's phase: MultiRoundCoordinator's
\* counting of END_OF_WINDOW lets no answer of one round reach the next, and as long as
\* no predecessor is lost it waits only while one of them has something in flight.
THEOREM RoundsInStep == Spec => []InStep
<1>1. ASSUME IInv, NEW s \in Sources
      PROVE  /\ \A n \in DOMAIN down[s] : down[s][n].round = phase
             /\ \A n \in DOMAIN up[s] : up[s][n].round = phase
  <2>1. CASE s \in Quiet
    BY <2>1 DEF Quiet
  <2>2. CASE Asked(s)
    BY <2>2 DEF Asked
  <2>3. CASE Answered(s)
    BY <2>3 DEF Answered
  <2>4. CASE Ending(s)
    BY <2>4 DEF Ending
  <2> QED
    BY <1>1, <2>1, <2>2, <2>3, <2>4 DEF IInv, ChannelsInv
<1>2. ASSUME IInv, OweInv, Running PROVE \E s \in preds : down[s] # <<>> \/ up[s] # <<>>
  <2>1. preds \cap Quiet # preds
    <3>1. responses = Cardinality(preds \cap Quiet) /\ responses < Cardinality(preds)
      BY <1>2 DEF OweInv
    <3>2. Cardinality(preds) \in Nat
      BY <1>2, PredsCount DEF IInv
    <3> QED
      BY SMTT(20), Z3T(20), SMTT(30), <3>1, <3>2
  <2> QED
    BY <1>2, <2>1 DEF Quiet, IInv, RoundInv
<1>3. IInv /\ OweInv => InStep
  BY <1>1, <1>2 DEF InStep, Running
<1>4. IInv /\ OweInv /\ [Next]_vars => IInv' /\ OweInv'
  BY NextInv, OweStep DEF OweInv
<1>5. Init => OweInv
  BY SMTT(20), Z3T(20), SMTT(30) DEF Init, OweInv, Running
<1> QED
  BY <1>3, <1>4, <1>5, InitInv, PTL DEF Spec

-----------------------------------------------------------------------------
(* Least and greatest numbers; sums over finite sets.                      *)

\* A set of numbers that is not empty has a least one.
LEMMA Least ==
  ASSUME NEW T \in SUBSET Nat, T # {}
  PROVE  \E x \in T : \A y \in T : x <= y
<1>1. OpToRel(<, Nat) = {ss \in Nat \X Nat : ss[1] < ss[2]}
  BY DEF OpToRel
<1>2. PICK x \in T : \A y \in T : ~(<<y, x>> \in OpToRel(<, Nat))
  BY WFMin, NatLessThanWellFounded
<1>3. \A y \in T : ~(y < x)
  BY <1>1, <1>2
<1> QED
  BY SMTT(20), Z3T(20), SMTT(30), <1>3

\* A finite set of numbers that is not empty has a greatest one: what Max chooses.
LEMMA Greatest ==
  ASSUME NEW T \in SUBSET Nat, IsFiniteSet(T), T # {}
  PROVE  Max(T) \in T /\ \A y \in T : y <= Max(T)
<1> DEFINE HasMax(S) == \E x \in S : \A y \in S : x >= y
           Bad == {n \in Nat : \E S \in SUBSET Nat :
                     IsFiniteSet(S) /\ Cardinality(S) = n /\ S # {} /\ ~HasMax(S)}
<1>1. ASSUME Bad # {} PROVE FALSE
  <2>1. PICK n \in Bad : \A k \in Bad : n <= k
    BY <1>1, Least
  <2>2. PICK S \in SUBSET Nat : IsFiniteSet(S) /\ Cardinality(S) = n /\ S # {} /\ ~HasMax(S)
    BY <2>1
  <2>3. PICK a \in S : TRUE
    BY <2>2
  <2>4. IsFiniteSet(S \ {a}) /\ Cardinality(S \ {a}) = n - 1 /\ n - 1 \in Nat
    <3>1. IsFiniteSet(S \ {a}) /\ Cardinality(S \ {a}) = n - 1
      BY <2>2, <2>3, FS_RemoveElement
    <3>2. Cardinality(S \ {a}) \in Nat
      BY <3>1, FS_CardinalityType
    <3> QED
      BY <3>1, <3>2
  <2>5. CASE S \ {a} = {}
    <3>1. \A y \in S : a >= y
      BY SMTT(20), Z3T(20), SMTT(30), <2>3, <2>5
    <3> QED
      BY <2>2, <2>3, <3>1
  <2>6. CASE S \ {a} # {}
    <3>1. n - 1 \notin Bad
      BY SMTT(20), Z3T(20), SMTT(30), <2>1, <2>4
    <3>2. HasMax(S \ {a})
      BY <2>4, <2>6, <3>1
    <3>3. PICK x \in S \ {a} : \A y \in S \ {a} : x >= y
      BY <3>2
    <3>4. HasMax(S)
      <4>1. x \in Nat /\ a \in Nat
        BY <2>3, <3>3
      <4>2. CASE x >= a
        <5>1. \A y \in S : x >= y
          BY <3>3, <4>2
        <5> QED
          BY <5>1, <3>3
      <4>3. CASE a > x
        <5>1. \A y \in S : a >= y
          BY SMTT(20), Z3T(20), SMTT(30), <3>3, <4>1, <4>3
        <5> QED
          BY <5>1, <2>3
      <4> QED
        BY SMTT(20), Z3T(20), SMTT(30), <4>1, <4>2, <4>3
    <3> QED
      BY <2>2, <3>4
  <2> QED
    BY <2>5, <2>6
<1>2. HasMax(T)
  <2>1. Cardinality(T) \in Nat
    BY FS_CardinalityType
  <2> QED
    BY <1>1, <2>1
<1>3. Max(T) \in T /\ \A y \in T : Max(T) >= y
  BY <1>2 DEF Max
<1>4. Max(T) \in Nat
  BY <1>3
<1> QED
  BY <1>3, <1>4

\* The element a sum over P takes first.
Pick(P) == CHOOSE x \in P : TRUE

\* sum is the recursive function with which MapThenSumSet sums f over S.
SumStep(sum, f, P) == IF P = {} THEN 0 ELSE f[Pick(P)] + sum[P \ {Pick(P)}]
IsSum(sum, f, S) == sum = [P \in SUBSET S |-> SumStep(sum, f, P)]

\* There is such a function: it is built up with the size of the subsets.
LEMMA SumExists ==
  ASSUME NEW S, IsFiniteSet(S), NEW f \in [S -> Nat]
  PROVE  \E sum \in [SUBSET S -> Nat] : IsSum(sum, f, S)
<1> DEFINE Up(n) == {P \in SUBSET S : Cardinality(P) <= n}
           Good(n) == \E g \in [Up(n) -> Nat] : \A P \in Up(n) : g[P] = SumStep(g, f, P)
           Bad == {n \in Nat : ~Good(n)}
<1>0. \A P \in SUBSET S : IsFiniteSet(P) /\ Cardinality(P) \in Nat /\ (Cardinality(P) = 0 <=> P = {})
  BY FS_Subset, FS_CardinalityType, FS_EmptySet
<1>1. ASSUME NEW P \in SUBSET S, P # {}
      PROVE  /\ Pick(P) \in P /\ f[Pick(P)] \in Nat /\ P \ {Pick(P)} \in SUBSET S
             /\ Cardinality(P \ {Pick(P)}) = Cardinality(P) - 1
  <2>1. Pick(P) \in P
    BY <1>1 DEF Pick
  <2>2. Cardinality(P \ {Pick(P)}) = Cardinality(P) - 1
    BY <1>0, <2>1, FS_RemoveElement
  <2> QED
    BY <2>1, <2>2
<1>2. Good(0)
  <2>1. Up(0) = {{}}
    <3>1. \A P \in SUBSET S : P \in Up(0) <=> P = {}
      BY SMTT(20), Z3T(20), SMTT(30), <1>0
    <3> QED
      BY <3>1
  <2>2. PICK g : g = [P \in Up(0) |-> 0]
    OBVIOUS
  <2>3. g \in [Up(0) -> Nat] /\ \A P \in Up(0) : g[P] = SumStep(g, f, P)
    BY <2>1, <2>2 DEF SumStep
  <2> QED
    BY <2>3
<1>3. ASSUME NEW n \in Nat, Good(n) PROVE Good(n + 1)
  <2>1. PICK g \in [Up(n) -> Nat] : \A P \in Up(n) : g[P] = SumStep(g, f, P)
    BY <1>3
  <2>2. PICK h : h = [P \in Up(n + 1) |-> SumStep(g, f, P)]
    OBVIOUS
  <2>3. Up(n) \subseteq Up(n + 1)
    BY SMTT(20), Z3T(20), SMTT(30), <1>0
  <2>4. ASSUME NEW P \in Up(n + 1), P # {} PROVE P \ {Pick(P)} \in Up(n) /\ f[Pick(P)] \in Nat
    BY SMTT(20), Z3T(20), SMTT(30), <1>0, <1>1, <2>4
  <2>5. ASSUME NEW P \in Up(n) PROVE h[P] = g[P]
    BY <2>1, <2>2, <2>3
  <2>6. ASSUME NEW P \in Up(n + 1) PROVE h[P] \in Nat /\ h[P] = SumStep(h, f, P)
    <3>1. h[P] = SumStep(g, f, P)
      BY <2>2
    <3>2. CASE P = {}
      BY SMTT(20), Z3T(20), SMTT(30), <3>1, <3>2 DEF SumStep
    <3>3. CASE P # {}
      <4>1. P \ {Pick(P)} \in Up(n) /\ f[Pick(P)] \in Nat
        BY <2>4, <3>3
      <4>2. g[P \ {Pick(P)}] \in Nat /\ h[P \ {Pick(P)}] = g[P \ {Pick(P)}]
        BY <2>1, <2>5, <4>1
      <4> HIDE DEF Up
      <4> QED
        BY SMTT(20), Z3T(20), SMTT(30), <3>1, <3>3, <4>1, <4>2 DEF SumStep
    <3> QED
      BY <3>2, <3>3
  <2>7. h \in [Up(n + 1) -> Nat]
    BY <2>2, <2>6
  <2> QED
    BY <2>6, <2>7
<1> HIDE DEF Good
<1>4. Bad = {}
  <2> SUFFICES ASSUME Bad # {} PROVE FALSE
    OBVIOUS
  <2>1. PICK n \in Bad : \A k \in Bad : n <= k
    BY Least
  <2>2. n # 0
    BY <1>2, <2>1
  <2>3. n - 1 \in Nat /\ n - 1 \notin Bad
    BY <2>1, <2>2
  <2>4. PICK k \in Nat : k = n - 1
    BY <2>3
  <2>5. Good(k + 1)
    BY <1>3, <2>3, <2>4
  <2>6. k + 1 = n
    BY <2>1, <2>4
  <2> QED
    BY <2>1, <2>5, <2>6
<1>5. PICK n \in Nat : n = Cardinality(S)
  BY FS_CardinalityType
<1>6. Up(n) = SUBSET S
  BY <1>0, <1>5, FS_Subset
<1>7. Good(n)
  BY <1>4
<1>8. PICK g \in [SUBSET S -> Nat] : \A P \in SUBSET S : g[P] = SumStep(g, f, P)
  BY <1>6, <1>7 DEF Good
<1>9. g = [P \in SUBSET S |-> SumStep(g, f, P)]
  BY <1>8
<1> QED
  BY <1>8, <1>9 DEF IsSum

\* What a sum is expected to do.
AddsUp(sum, f, S) ==
  /\ sum[{}] = 0
  /\ \A P \in SUBSET S : sum[P] \in Nat
  /\ \A P \in SUBSET S : \A x \in S \ P : sum[P \cup {x}] = sum[P] + f[x]

\* A sum grows by the value of what is added, whichever element it takes first.
LEMMA SumAdd ==
  ASSUME NEW S, IsFiniteSet(S), NEW f \in [S -> Nat], NEW sum, IsSum(sum, f, S)
  PROVE  AddsUp(sum, f, S)
<1> DEFINE Untyped == {n \in Nat : \E P \in SUBSET S : Cardinality(P) = n /\ sum[P] \notin Nat}
           Bad == {n \in Nat : \E P \in SUBSET S : \E x \in S \ P :
                     Cardinality(P) = n /\ sum[P \cup {x}] # sum[P] + f[x]}
<1>0. \A P \in SUBSET S : IsFiniteSet(P) /\ Cardinality(P) \in Nat /\ sum[P] = SumStep(sum, f, P)
  BY FS_Subset, FS_CardinalityType DEF IsSum
<1>1. sum[{}] = 0
  BY <1>0 DEF SumStep
<1>2. ASSUME NEW P \in SUBSET S, P # {}
      PROVE  /\ Pick(P) \in P /\ Cardinality(P \ {Pick(P)}) = Cardinality(P) - 1
             /\ sum[P] = f[Pick(P)] + sum[P \ {Pick(P)}]
  <2>1. Pick(P) \in P
    BY <1>2 DEF Pick
  <2> QED
    BY <1>0, <1>2, <2>1, FS_RemoveElement DEF SumStep
<1>3. \A P \in SUBSET S : sum[P] \in Nat
  <2> SUFFICES ASSUME Untyped # {} PROVE FALSE
    BY <1>0
  <2>1. PICK n \in Untyped : \A k \in Untyped : n <= k
    BY Least
  <2>2. PICK P \in SUBSET S : Cardinality(P) = n /\ sum[P] \notin Nat
    BY <2>1
  <2>3. P # {}
    BY SMTT(20), Z3T(20), SMTT(30), <1>1, <2>2
  <2>4. P \ {Pick(P)} \in SUBSET S /\ Cardinality(P \ {Pick(P)}) = n - 1
    BY <1>2, <2>2, <2>3
  <2>5. n - 1 \in Nat /\ n - 1 \notin Untyped
    BY SMTT(20), Z3T(20), SMTT(30), <1>0, <2>1, <2>4
  <2>6. sum[P \ {Pick(P)}] \in Nat
    BY <2>4, <2>5
  <2>7. f[Pick(P)] \in Nat
    BY <1>2, <2>3
  <2> QED
    BY Z3T(20), SMTT(20), Z3T(30), <1>2, <2>2, <2>3, <2>6, <2>7
<1>4. Bad = {}
  <2> SUFFICES ASSUME Bad # {} PROVE FALSE
    OBVIOUS
  <2>1. PICK n \in Bad : \A k \in Bad : n <= k
    BY Least
  <2>2. PICK P \in SUBSET S, x \in S :
          x \notin P /\ Cardinality(P) = n /\ sum[P \cup {x}] # sum[P] + f[x]
    BY <2>1
  <2>3. PICK y : y = Pick(P \cup {x})
    OBVIOUS
  <2>4. P \cup {x} \in SUBSET S /\ P \cup {x} # {}
    BY <2>2
  <2>5. y \in P \cup {x} /\ sum[P \cup {x}] = f[y] + sum[(P \cup {x}) \ {y}]
    BY <1>2, <2>3, <2>4
  <2>6. f[x] \in Nat /\ f[y] \in Nat /\ sum[P] \in Nat
    BY <1>3, <2>2, <2>5
  <2>7. CASE y = x
    <3>1. (P \cup {x}) \ {y} = P
      BY <2>2, <2>7
    <3>2. sum[P \cup {x}] = f[x] + sum[P]
      BY <2>5, <2>7, <3>1
    <3>3. f[x] + sum[P] = sum[P] + f[x]
      BY SMTT(20), Z3T(20), SMTT(30), <2>6
    <3> QED
      BY <2>2, <3>2, <3>3
  <2>8. CASE y # x
    <3>1. y \in P
      BY <2>5, <2>8
    <3>2. PICK Q \in SUBSET S : Q = P \ {y}
      BY <2>2
    <3>3. (P \cup {x}) \ {y} = Q \cup {x} /\ Q \cup {y} = P /\ x \in S \ Q /\ y \in S \ Q
      BY <2>2, <2>8, <3>1, <3>2
    <3>4. Cardinality(Q) = n - 1 /\ n - 1 \in Nat
      BY Z3T(20), SMTT(20), Z3T(30), <1>0, <2>1, <2>2, <3>1, <3>2, FS_RemoveElement
    <3>5. n - 1 \notin Bad
      BY SMTT(20), Z3T(20), SMTT(30), <2>1, <3>4
    <3>6. sum[Q \cup {x}] = sum[Q] + f[x] /\ sum[Q \cup {y}] = sum[Q] + f[y]
      BY <3>3, <3>4, <3>5
    <3>7. sum[Q] \in Nat
      BY <1>3
    <3>8. sum[P \cup {x}] = f[y] + (sum[Q] + f[x]) /\ sum[P] = sum[Q] + f[y]
      BY <2>5, <3>3, <3>6
    <3>9. f[y] + (sum[Q] + f[x]) = (sum[Q] + f[y]) + f[x]
      BY SMTT(20), Z3T(20), SMTT(30), <2>6, <3>7
    <3> QED
      BY <2>2, <3>8, <3>9
  <2> QED
    BY <2>7, <2>8
<1>5. ASSUME NEW P \in SUBSET S, NEW x \in S \ P PROVE sum[P \cup {x}] = sum[P] + f[x]
  BY ZenonT(20), <1>0, <1>4
<1> QED
  BY <1>1, <1>3, <1>5 DEF AddsUp
-----------------------------------------------------------------------------
(* The answer: the inductive invariant.                                    *)

\* The recursive function with which Total(i) is summed, at a part of preds.
Sums(sum, i) ==
  sum = [P \in SUBSET preds |->
           IF P = {} THEN 0
           ELSE val[CHOOSE s \in P : TRUE][i] + sum[P \ {CHOOSE s \in P : TRUE}]]
Part(i, P) == (CHOOSE sum : Sums(sum, i))[P]

\* emit_data stops chains only when the query is over.
StopInv == toStop # {} => phase = 4

\* D are the predecessors whose data of this round the coordinator has: of those with
\* something in flight, the ones with only the end of the round to come.  It has
\* counted nobody else.
Delivered(D) ==
  /\ D \subseteq preds
  /\ \A s \in preds \ Quiet : s \in D <=> Ending(s)
  /\ responses <= Cardinality(D \cap Quiet)

\* Candidates come from a predecessor that has the item.
Sound == \A i \in DOMAIN candidates : candidates[i].val > 0 /\ \E s \in preds : val[s][i] > 0

\* A predecessor has K items; there are K candidates.
Large == \E s \in preds : Cardinality(Present(s)) >= K
Wide == Cardinality(DOMAIN candidates) >= K

\* Round 1: a source that has K items is asked for K and sends them.
FirstRound(D) ==
  /\ \A s \in D : Cardinality(Present(s)) >= K => Wide
  /\ \A s \in preds : Asked(s) => down[s][1].k = K
  /\ \A s \in preds :
       Answered(s) /\ Cardinality(Present(s)) >= K => Cardinality(up[s][1].items) >= K

\* Round 3: everybody is asked for the items q, and the output cube has the sums
\* over what has been delivered.
LastRound(D, q) ==
  /\ q \subseteq Items /\ (Large => Cardinality(q) >= K)
  /\ \A i \in q : \E s \in preds : val[s][i] > 0
  /\ \A i \in Items : result[i] = IF i \in q THEN Part(i, D) ELSE 0
  /\ \A s \in preds : Asked(s) => down[s][1].query = q
  /\ \A s \in preds : Answered(s) => up[s][1].items = q \cap Present(s)

\* The query round by round.
AnswerInv ==
  /\ Sound
  /\ \A s \in preds : Answered(s) => up[s][1].items \subseteq Present(s)
  /\ phase = 1 => \E D \in SUBSET preds : Delivered(D) /\ FirstRound(D)
  /\ phase \in {2, 3} => T1 > 0 /\ (Large => Wide)
  /\ phase = 3 => \E D \in SUBSET preds, q \in SUBSET Items : Delivered(D) /\ LastRound(D, q)
  /\ phase < 3 => \A i \in Items : result[i] = 0
  /\ ExactTotals /\ AnswerSize
\* Total(i) is summed over the predecessors one by one, in any order.
LEMMA TotalOf ==
  ASSUME preds \subseteq Sources, val \in [Sources -> [Items -> 0 .. MaxVal]], NEW i \in Items
  PROVE  /\ Total(i) = Part(i, preds) /\ Part(i, {}) = 0
         /\ \A P \in SUBSET preds : Part(i, P) \in Nat
         /\ \A P \in SUBSET preds : \A s \in preds \ P : Part(i, P \cup {s}) = Part(i, P) + val[s][i]
<1>1. Total(i) = Part(i, preds)
  BY Zenon DEF Total, MapThenSumSet, MapThenFoldSet, Part, Sums
<1>2. PICK f : f = [s \in preds |-> val[s][i]]
  OBVIOUS
<1>3. f \in [preds -> Nat] /\ \A s \in preds : f[s] = val[s][i]
  BY SMTT(20), Z3T(20), SMTT(30), <1>2
<1>4. IsFiniteSet(preds)
  BY TputAssumption, FS_Subset
<1>5. ASSUME NEW sum PROVE Sums(sum, i) <=> IsSum(sum, f, preds)
  <2>1. ASSUME NEW P \in SUBSET preds
        PROVE  SumStep(sum, f, P) = IF P = {} THEN 0
                 ELSE val[CHOOSE s \in P : TRUE][i] + sum[P \ {CHOOSE s \in P : TRUE}]
    <3>1. CASE P = {}
      BY <3>1 DEF SumStep
    <3>2. CASE P # {}
      <4>1. Pick(P) \in P
        BY <3>2 DEF Pick
      <4>2. f[Pick(P)] = val[Pick(P)][i]
        BY <1>3, <4>1
      <4> QED
        BY <3>2, <4>2 DEF SumStep, Pick
    <3> QED
      BY <3>1, <3>2
  <2> QED
    BY <2>1, Zenon DEF Sums, IsSum
<1>6. \E sum : Sums(sum, i)
  BY <1>3, <1>4, <1>5, SumExists
<1>7. PICK sum : sum = CHOOSE x : Sums(x, i)
  OBVIOUS
<1>8. Sums(sum, i)
  BY <1>6, <1>7
<1>9. IsSum(sum, f, preds)
  BY <1>5, <1>8
<1>10. \A P : Part(i, P) = sum[P]
  BY <1>7 DEF Part
<1>11. AddsUp(sum, f, preds)
  BY <1>3, <1>4, <1>9, SumAdd
<1>12. ASSUME NEW P \in SUBSET preds, NEW s \in preds \ P
       PROVE  Part(i, P \cup {s}) = Part(i, P) + val[s][i]
  BY ZenonT(40), <1>3, <1>10, <1>11 DEF AddsUp
<1> QED
  BY <1>1, <1>10, <1>11, <1>12 DEF AddsUp

\* The sum only depends on the predecessors and their values.
LEMMA PartFixed ==
  ASSUME preds' = preds, val' = val, NEW i, NEW P
  PROVE  Part(i, P)' = Part(i, P) /\ Total(i)' = Total(i)
<1>1. Part(i, P)' = Part(i, P)
  BY ZenonT(20) DEF Part, Sums
<1>2. Total(i)' = Total(i)
  BY ZenonT(20) DEF Total, MapThenSumSet, MapThenFoldSet
<1> QED
  BY <1>1, <1>2
-----------------------------------------------------------------------------
(* Thresholds, questions and answers.                                      *)

\* calculate_tau: with candidates there is a threshold, the value of one of them;
\* K candidates reach it if there are K.
LEMMA TauIs ==
  ASSUME DOMAIN candidates \subseteq Items, DOMAIN candidates # {},
         \A i \in DOMAIN candidates : candidates[i].val \in Nat
  PROVE  /\ \E i \in DOMAIN candidates : Tau = candidates[i].val
         /\ Wide => Cardinality({i \in DOMAIN candidates : candidates[i].val >= Tau}) >= K
<1> DEFINE C == DOMAIN candidates
           V == {candidates[i].val : i \in C}
           AtLeast(v) == {i \in C : candidates[i].val >= v}
           U == {v \in V : Cardinality(AtLeast(v)) >= K}
<1>1. IsFiniteSet(C) /\ Cardinality(C) \in Nat /\ K \in Nat
  BY TputAssumption, FS_Subset, FS_CardinalityType
<1>2. V \in SUBSET Nat /\ V # {}
  OBVIOUS
<1>3. IsFiniteSet(V)
  <2>1. PICK f : f = [i \in C |-> candidates[i].val]
    OBVIOUS
  <2>2. f \in Surjection(C, V)
    BY <2>1 DEF Surjection
  <2> QED
    BY <1>1, <2>2, FS_Surjection
<1>4. CASE Cardinality(C) < K
  <2>1. Tau = Max(V)
    BY <1>4 DEF Tau
  <2>2. Max(V) \in V
    BY <1>2, <1>3, Greatest
  <2>3. ~Wide
    BY <1>1, <1>4 DEF Wide
  <2> QED
    BY <2>1, <2>2, <2>3
<1>5. CASE ~(Cardinality(C) < K)
  <2>1. Tau = Max(U)
    BY <1>5 DEF Tau
  <2>2. PICK v \in V : \A w \in V : v <= w
    BY <1>2, Least
  <2>3. AtLeast(v) = C
    BY <2>2
  <2>4. v \in U
    BY SMTT(20), Z3T(20), SMTT(30), <1>1, <1>5, <2>2, <2>3
  <2>5. U \in SUBSET Nat /\ U # {} /\ IsFiniteSet(U)
    BY <1>2, <1>3, <2>4, FS_Subset
  <2>6. Max(U) \in U
    BY <2>5, Greatest
  <2> QED
    BY <2>1, <2>6
<1> QED
  BY <1>4, <1>5

\* A source only sends items it has; in round 1 its best, in round 3 those asked for.
LEMMA ReplyIs ==
  ASSUME NEW s, NEW m, m.round \in 1 .. 3, NEW skip \in SUBSET Present(s)
  PROVE  /\ Reply(s, m, skip) \subseteq Present(s)
         /\ m.round = 1 => Reply(s, m, skip) = skip
         /\ m.round = 3 => Reply(s, m, skip) = m.query \cap Present(s)
<1>1. CASE m.round = 1
  BY SMTT(20), Z3T(20), SMTT(30), <1>1 DEF Reply
<1>2. CASE m.round = 2 /\ m.key = "-"
  BY SMTT(20), Z3T(20), SMTT(30), <1>2 DEF Reply
<1>3. CASE m.round = 2 /\ m.key # "-"
  BY SMTT(20), Z3T(20), SMTT(30), <1>3 DEF Reply
<1>4. CASE m.round = 3
  BY SMTT(20), Z3T(20), SMTT(30), <1>4 DEF Reply
<1> QED
  BY SMTT(20), Z3T(20), SMTT(30), <1>1, <1>2, <1>3, <1>4

\* The best K items of a source that has K are K items.
LEMMA BestIs ==
  ASSUME NEW s, NEW S \in Best(s, K), Cardinality(Present(s)) >= K
  PROVE  Cardinality(S) >= K
<1>1. IsFiniteSet(Present(s)) /\ Cardinality(Present(s)) \in Nat /\ K \in Nat
  BY TputAssumption, FS_Subset, FS_CardinalityType DEF Present
<1>2. Cardinality(S) = Min({K, Cardinality(Present(s))})
  BY DEF Best
<1>3. Min({K, Cardinality(Present(s))}) \in {K, Cardinality(Present(s))}
  <2>1. \E x \in {K, Cardinality(Present(s))} : \A y \in {K, Cardinality(Present(s))} : x <= y
    BY SMTT(20), Z3T(20), SMTT(30), <1>1
  <2> QED
    BY <2>1 DEF Min
<1> QED
  BY <1>1, <1>2, <1>3

-----------------------------------------------------------------------------
(* Types.                                                                  *)

\* TypeOK but for the messages and the count of answers.
StateTypes ==
  /\ val \in [Sources -> [Items -> 0 .. MaxVal]]
  /\ future \subseteq Sources \ left /\ left \cup preds \cup busy \subseteq Sources
  /\ phase \in 0 .. 4 /\ retry \in BOOLEAN /\ T1 \in Nat
  /\ DOMAIN candidates \subseteq Items
  /\ \A i \in DOMAIN candidates : candidates[i] \in [val : Nat, responses : Nat]
  /\ sent \in [Sources -> SUBSET Items] /\ result \in [Items -> Nat]
  /\ toStop \subseteq preds /\ posted \subseteq toStop /\ ended \in BOOLEAN

\* The messages in flight.
Answer == [data : BOOLEAN, round : 1 .. 3, items : SUBSET Items]
ChannelTypes ==
  \A s \in Sources : /\ \A n \in DOMAIN down[s] : down[s][n] \in Message
                     /\ \A n \in DOMAIN up[s] : up[s][n] \in Answer

TypeInv == StateTypes /\ ChannelTypes /\ StopInv

\* A step that changes the channels of one source.
LEMMA ChannelTypesStep ==
  ASSUME IInv, ChannelTypes, NEW s \in Sources, NEW d, NEW u,
         down' = [down EXCEPT ![s] = d], up' = [up EXCEPT ![s] = u],
         \A n \in DOMAIN d : d[n] \in Message, \A n \in DOMAIN u : u[n] \in Answer
  PROVE  ChannelTypes'
<1>1. down'[s] = d /\ up'[s] = u
  BY DEF IInv, RoundInv
<1>2. ASSUME NEW r \in Sources, r # s PROVE down'[r] = down[r] /\ up'[r] = up[r]
  BY <1>2 DEF IInv, RoundInv
<1>3. ASSUME NEW r \in Sources
      PROVE  /\ \A n \in DOMAIN down'[r] : down'[r][n] \in Message
             /\ \A n \in DOMAIN up'[r] : up'[r][n] \in Answer
  <2>1. CASE r = s
    BY <1>1, <2>1
  <2>2. CASE r # s
    BY <1>2, <2>2 DEF ChannelTypes
  <2> QED
    BY <2>1, <2>2
<1> QED
  BY <1>3 DEF ChannelTypes

\* A round begins with a message to each predecessor and nothing else in flight.
LEMMA BeginTypes ==
  ASSUME NEW P, NEW m \in Message, ToPreds(P, m),
         \A r \in Sources : down[r] = <<>> /\ up'[r] = <<>>
  PROVE  ChannelTypes'
<1>1. ASSUME NEW r \in Sources PROVE \A n \in DOMAIN down'[r] : down'[r][n] \in Message
  <2>1. down'[r] = <<>> \/ down'[r] = <<m>>
    BY OneMessage DEF ToPreds
  <2> QED
    BY <2>1
<1>2. \A r \in Sources : DOMAIN up'[r] = {}
  OBVIOUS
<1> QED
  BY <1>1, <1>2 DEF ChannelTypes

\* A threshold, and with it the message of round 2, is a number.
LEMMA TauType ==
  ASSUME StateTypes, DOMAIN candidates # {}
  PROVE  Tau \in Nat
<1>1. \A i \in DOMAIN candidates : candidates[i].val \in Nat
  BY DEF StateTypes
<1> QED
  BY <1>1, TauIs DEF StateTypes

\* The messages of rounds 2 and 3.
LEMMA MessageIs ==
  ASSUME NEW tau \in Nat, NEW n \in 0 .. Cardinality(Sources), NEW q \in SUBSET Items
  PROVE  /\ [round |-> 2, key |-> "", k |-> 0, tau |-> tau, n |-> n, query |-> {}] \in Message
         /\ [round |-> 3, key |-> "", k |-> 0, tau |-> 0, n |-> n, query |-> q] \in Message
BY SMTT(20), Z3T(20), SMTT(30) DEF Message

\* Types through the end of a round.
LEMMA EndOfRoundTypes ==
  ASSUME IInv, TypeInv, EndOfRound, phase \in 1 .. 3, preds' = preds,
         UNCHANGED <<val, future, left, retry, sent, result, teardown>>, busy' \subseteq Sources,
         \A r \in Sources : down[r] = <<>> /\ up'[r] = <<>>
  PROVE  TypeInv'
<1>1. Cardinality(preds) \in 0 .. Cardinality(Sources)
  <2>1. IsFiniteSet(Sources) /\ preds \in SUBSET Sources
    BY TputAssumption DEF TypeInv, StateTypes
  <2> QED
    BY SMTT(20), Z3T(20), SMTT(30), <2>1, FS_Subset, FS_CardinalityType
<1>2. toStop' = {} /\ posted' = {} /\ ended' \in BOOLEAN
  BY SMTT(20), Z3T(20), SMTT(30) DEF TypeInv, StateTypes, StopInv, teardown
<1>3. CASE StartPhase2 /\ DOMAIN candidates # {}
  <2>1. Tau \in Nat
    BY <1>3, TauType DEF TypeInv
  <2>2. PICK m : m = [round |-> 2, key |-> "", k |-> 0, tau |-> Tau, n |-> Cardinality(preds),
                      query |-> {}]
    OBVIOUS
  <2>3. m \in Message
    BY <1>1, <2>1, <2>2, MessageIs
  <2>4. ToPreds(preds, m)
    BY <1>3, <2>2 DEF StartPhase2, ToPreds
  <2>5. ChannelTypes'
    BY <2>3, <2>4, BeginTypes
  <2>6. phase' = 2 /\ T1' = Tau /\ candidates' = candidates
    BY <1>3 DEF StartPhase2
  <2>7. StateTypes'
    BY SMTT(20), Z3T(20), SMTT(30), <1>2, <2>1, <2>6 DEF TypeInv, StateTypes
  <2> QED
    BY <1>2, <2>5, <2>7 DEF TypeInv, StopInv
<1>4. CASE StartPhase3
  <2>1. PICK m : m = [round |-> 3, key |-> "", k |-> 0, tau |-> 0, n |-> Cardinality(preds),
                      query |-> {i \in DOMAIN candidates : MayBeTop(i, Cardinality(preds))}]
    OBVIOUS
  <2>2. {i \in DOMAIN candidates : MayBeTop(i, Cardinality(preds))} \in SUBSET Items
    BY DEF TypeInv, StateTypes
  <2>3. m \in Message
    BY <1>1, <2>1, <2>2, MessageIs
  <2>4. ToPreds(preds, m)
    BY <1>4, <2>1 DEF StartPhase3, ToPreds
  <2>5. ChannelTypes'
    BY <2>3, <2>4, BeginTypes
  <2>6. phase' = 3 /\ T1' = T1 /\ candidates' = candidates
    BY <1>4 DEF StartPhase3
  <2>7. StateTypes'
    BY SMTT(20), Z3T(20), SMTT(30), <1>2, <2>6 DEF TypeInv, StateTypes
  <2> QED
    BY <1>2, <2>5, <2>7 DEF TypeInv, StopInv
<1>5. CASE Complete
  <2>1. phase' = 4 /\ T1' = T1 /\ DOMAIN candidates' = {} /\ down' = down
    BY <1>5 DEF Complete
  <2>2. \A r \in Sources : DOMAIN down'[r] = {} /\ DOMAIN up'[r] = {}
    BY <2>1
  <2>3. StateTypes'
    BY SMTT(20), Z3T(20), SMTT(30), <1>2, <2>1 DEF TypeInv, StateTypes
  <2> QED
    BY <1>2, <2>2, <2>3 DEF TypeInv, StopInv, ChannelTypes
<1>6. CASE DOMAIN candidates = {}
  <2>1. Complete
    BY <1>6 DEF EndOfRound
  <2> QED
    BY <1>5, <2>1
<1>7. CASE DOMAIN candidates # {}
  <2>1. StartPhase2 \/ StartPhase3 \/ Complete
    BY <1>7 DEF EndOfRound
  <2> QED
    BY <1>3, <1>4, <1>5, <1>7, <2>1
<1> QED
  BY <1>6, <1>7

\* start_phase_1 and the chains that come and go keep the types.
LEMMA ChainTypes ==
  ASSUME IInv, TypeInv
  PROVE  /\ StartPhase1 => TypeInv'
         /\ \A s \in Sources : AddChain(s) \/ ChainStopping(s) => TypeInv'
<1>1. ASSUME StartPhase1 PROVE TypeInv'
  <2>1. preds = {} /\ phase # 4
    BY <1>1 DEF StartPhase1, IInv, RoundInv
  <2>2. \A r \in Sources : down[r] = <<>> /\ up'[r] = <<>>
    BY <1>1, <2>1 DEF StartPhase1, IInv, ChannelsInv, Quiet
  <2>3. PICK m : m = [round |-> 1, key |-> "-", k |-> K, tau |-> 0, n |-> 0, query |-> {}]
    OBVIOUS
  <2>4. Cardinality(Sources) \in Nat
    BY TputAssumption, FS_CardinalityType
  <2>5. m \in Message
    BY <2>3, <2>4 DEF Message
  <2>6. ToPreds(future, m)
    BY <1>1, <2>3 DEF StartPhase1
  <2>7. ChannelTypes'
    BY <2>2, <2>5, <2>6, BeginTypes
  <2>8. toStop' = {} /\ posted' = {}
    BY <1>1, <2>1 DEF StartPhase1, TypeInv, StateTypes, StopInv, teardown
  <2>9. retry' \in BOOLEAN /\ ended' \in BOOLEAN
    BY <1>1 DEF StartPhase1, TypeInv, StateTypes, teardown
  <2>10. phase' = 1 /\ DOMAIN candidates' = {} /\ preds' = future
    BY <1>1 DEF StartPhase1
  <2>11. UNCHANGED <<val, future, left, T1, sent, result, busy>>
    BY <1>1 DEF StartPhase1
  <2>12. StateTypes'
    BY SMTT(20), Z3T(20), SMTT(30), <2>8, <2>9, <2>10, <2>11 DEF TypeInv, StateTypes
  <2> QED
    BY <2>7, <2>8, <2>12 DEF TypeInv, StopInv
<1>2. ASSUME NEW s \in Sources, AddChain(s) PROVE TypeInv'
  <2>1. StateTypes'
    BY <1>2 DEF TypeInv, StateTypes, AddChain, query, teardown
  <2> QED
    BY <1>2, <2>1 DEF TypeInv, ChannelTypes, StopInv, AddChain, query, teardown
<1>3. ASSUME NEW s \in Sources, ChainStopping(s) PROVE TypeInv'
  <2>1. StateTypes'
    BY <1>3 DEF TypeInv, StateTypes, ChainStopping, query, teardown
  <2>2. down' = [down EXCEPT ![s] = <<>>] /\ up' = [up EXCEPT ![s] = <<>>]
    BY <1>3 DEF ChainStopping
  <2>3. \A n \in DOMAIN <<>> : <<>>[n] \in Message /\ <<>>[n] \in Answer
    OBVIOUS
  <2>4. ChannelTypes'
    BY <2>2, <2>3, ChannelTypesStep DEF TypeInv
  <2> QED
    BY <1>3, <2>1, <2>4 DEF TypeInv, StopInv, ChainStopping, query, teardown
<1> QED
  BY <1>1, <1>2, <1>3

\* So does the teardown.
LEMMA TeardownTypes ==
  ASSUME TypeInv
  PROVE  /\ EmitData => TypeInv'
         /\ \A s \in Sources : HandlerReturns(s) \/ StopPred(s) => TypeInv'
<1>1. ASSUME UNCHANGED <<down, up>> PROVE ChannelTypes'
  BY <1>1 DEF TypeInv, ChannelTypes
<1>2. ASSUME EmitData PROVE TypeInv'
  <2>1. toStop' \subseteq preds /\ posted' \subseteq toStop' /\ ended' \in BOOLEAN
    BY <1>2 DEF EmitData, TypeInv, StateTypes, MutexFree
  <2>2. UNCHANGED <<query, future, left, down, up, busy>> /\ phase' = 4
    BY <1>2 DEF EmitData, query
  <2>3. StateTypes'
    BY <2>1, <2>2 DEF TypeInv, StateTypes, query
  <2> QED
    BY <1>1, <2>2, <2>3 DEF TypeInv, StopInv
<1>3. ASSUME NEW s \in Sources, HandlerReturns(s) PROVE TypeInv'
  <2>1. busy' = busy \ {s} /\ UNCHANGED <<query, future, left, down, up, teardown>>
    BY <1>3 DEF HandlerReturns
  <2>2. StateTypes'
    BY <2>1 DEF TypeInv, StateTypes, query, teardown
  <2> QED
    BY <1>1, <2>1, <2>2 DEF TypeInv, StopInv, query, teardown
<1>4. ASSUME NEW s \in Sources, StopPred(s) PROVE TypeInv'
  <2>1. UNCHANGED <<query, down, up, busy>> /\ s \in toStop /\ posted = {}
    BY <1>4 DEF StopPred
  <2>2. CASE s \in busy
    <3>1. posted' = {s} /\ UNCHANGED <<future, left, toStop, ended>>
      BY <1>4, <2>2 DEF StopPred
    <3>2. StateTypes'
      BY <2>1, <3>1 DEF TypeInv, StateTypes, query
    <3> QED
      BY <1>1, <2>1, <3>1, <3>2 DEF TypeInv, StopInv, query
  <2>3. CASE s \notin busy
    <3>1. /\ toStop' = toStop \ {s} /\ posted' = posted
          /\ future' = future \ {s} /\ left' = left \cup {s}
      BY <1>4, <2>3 DEF StopPred
    <3>2. ended' \in BOOLEAN
      BY <1>4, <2>3 DEF StopPred
    <3>3. StateTypes'
      BY <2>1, <3>1, <3>2 DEF TypeInv, StateTypes, query
    <3> QED
      BY <1>1, <2>1, <3>1, <3>3 DEF TypeInv, StopInv, query
  <2> QED
    BY <2>2, <2>3
<1> QED
  BY <1>2, <1>3, <1>4

\* In rounds 1 and 2 the data becomes candidates.
LEMMA Collects ==
  ASSUME IInv, NEW s \in Sources, ProcessData(s), phase \in {1, 2},
         NEW items, items = up[s][1].items
  PROVE  /\ result' = result /\ DOMAIN candidates' = DOMAIN candidates \cup items
         /\ \A i \in DOMAIN candidates \ items : candidates'[i] = candidates[i]
         /\ \A i \in DOMAIN candidates \cap items : candidates'[i] =
              [val |-> candidates[i].val + val[s][i], responses |-> candidates[i].responses + 1]
         /\ \A i \in items \ DOMAIN candidates :
              candidates'[i] = [val |-> 0 + val[s][i], responses |-> 0 + 1]
<1>1. Head(up[s]).items = items
  BY Takes
<1>2. /\ result' = result
      /\ candidates' = [i \in DOMAIN candidates \cup items |->
           IF i \in items
           THEN [val |-> (IF i \in DOMAIN candidates THEN candidates[i].val ELSE 0) + val[s][i],
                 responses |-> (IF i \in DOMAIN candidates THEN candidates[i].responses ELSE 0) + 1]
           ELSE candidates[i]]
  BY <1>1 DEF ProcessData
<1>3. ASSUME NEW i \in items
      PROVE  candidates'[i] =
               [val |-> (IF i \in DOMAIN candidates THEN candidates[i].val ELSE 0) + val[s][i],
                responses |-> (IF i \in DOMAIN candidates THEN candidates[i].responses ELSE 0) + 1]
  BY <1>2
<1>4. \A i \in DOMAIN candidates \cap items : candidates'[i] =
        [val |-> candidates[i].val + val[s][i], responses |-> candidates[i].responses + 1]
  BY <1>3
<1>5. \A i \in items \ DOMAIN candidates :
        candidates'[i] = [val |-> 0 + val[s][i], responses |-> 0 + 1]
  BY <1>3
<1> QED
  BY <1>2, <1>4, <1>5

\* The sources' answers, and what the coordinator makes of them, keep the types.
LEMMA RoundTypes ==
  ASSUME IInv, TypeInv, NEW s \in Sources
  PROVE  MetaFromDownstream(s) \/ ProcessData(s) \/ ProcessEnd(s) => TypeInv'
<1>0. \A n \in DOMAIN <<>> : <<>>[n] \in Message /\ <<>>[n] \in Answer
  OBVIOUS
<1>1. ASSUME MetaFromDownstream(s) PROVE TypeInv'
  <2>1. phase \in 1 .. 3 /\ Asked(s) /\ down' = [down EXCEPT ![s] = <<>>]
    BY <1>1, Replies
  <2>2. PICK m : m = down[s][1] /\ m.round \in 1 .. 3
    BY <2>1 DEF Asked
  <2>3. PICK skip, x, y :
          /\ skip \in Best(s, m.k)
          /\ x = [data |-> TRUE, round |-> phase, items |-> Reply(s, m, skip)]
          /\ y = [data |-> FALSE, round |-> phase, items |-> {}]
          /\ up' = [up EXCEPT ![s] = <<x, y>>]
    BY SMTT(20), Z3T(20), SMTT(30), <1>1, <2>2, Replies
  <2>4. Reply(s, m, skip) \in SUBSET Items
    <3>1. skip \in SUBSET Present(s)
      BY <2>3 DEF Best
    <3> QED
      BY <2>2, <3>1, ReplyIs DEF Present
  <2>5. x \in Answer /\ y \in Answer
    BY <2>1, <2>3, <2>4 DEF Answer
  <2>6. \A n \in DOMAIN <<x, y>> : <<x, y>>[n] \in Answer
    BY <2>5
  <2>7. ChannelTypes'
    BY <1>0, <2>1, <2>3, <2>6, ChannelTypesStep DEF TypeInv
  <2>8. Head(down[s]) = m
    BY <2>1, <2>2, OneMessage DEF Asked
  <2>9. sent' \in [Sources -> SUBSET Items]
    <3>1. PICK sk \in Best(s, m.k) :
            sent' = IF m.round = 3 THEN sent ELSE [sent EXCEPT ![s] = sent[s] \cup Reply(s, m, sk)]
      BY <1>1, <2>8 DEF MetaFromDownstream
    <3>2. Reply(s, m, sk) \in SUBSET Items
      <4>1. sk \in SUBSET Present(s)
        BY <3>1 DEF Best
      <4> QED
        BY <2>2, <4>1, ReplyIs DEF Present
    <3> QED
      BY <3>1, <3>2 DEF TypeInv, StateTypes
  <2>10. StateTypes'
    BY <1>1, <2>9 DEF TypeInv, StateTypes, MetaFromDownstream, teardown
  <2> QED
    BY <1>1, <2>7, <2>10 DEF TypeInv, StopInv, MetaFromDownstream, teardown
<1>2. ASSUME ProcessData(s) PROVE TypeInv'
  <2>1. /\ Answered(s) /\ Head(up[s]) = up[s][1]
        /\ down' = [down EXCEPT ![s] = <<>>] /\ up' = [up EXCEPT ![s] = <<up[s][2]>>]
    BY <1>2, Takes
  <2>2. DOMAIN up[s] = {1, 2}
    BY <2>1 DEF Answered
  <2>3. PICK x, y : x = up[s][1] /\ y = up[s][2] /\ x \in Answer /\ y \in Answer
    BY <2>2 DEF TypeInv, ChannelTypes
  <2>4. \A n \in DOMAIN <<y>> : <<y>>[n] \in Answer
    BY <2>3
  <2>5. ChannelTypes'
    BY <1>0, <2>1, <2>3, <2>4, ChannelTypesStep DEF TypeInv
  <2>6. x.items \subseteq Items /\ \A i \in Items : val[s][i] \in Nat
    BY SMTT(20), Z3T(20), SMTT(30), <2>3 DEF Answer, TypeInv, StateTypes
  <2>7. /\ DOMAIN candidates' \subseteq Items
        /\ \A i \in DOMAIN candidates' : candidates'[i] \in [val : Nat, responses : Nat]
        /\ result' \in [Items -> Nat]
    <3>1. CASE phase \in {1, 2}
      <4>1. /\ result' = result /\ DOMAIN candidates' = DOMAIN candidates \cup x.items
            /\ \A i \in DOMAIN candidates \ x.items : candidates'[i] = candidates[i]
            /\ \A i \in DOMAIN candidates \cap x.items : candidates'[i] =
                 [val |-> candidates[i].val + val[s][i], responses |-> candidates[i].responses + 1]
            /\ \A i \in x.items \ DOMAIN candidates :
                 candidates'[i] = [val |-> 0 + val[s][i], responses |-> 0 + 1]
        BY <1>2, <2>3, <3>1, Collects
      <4>2. ASSUME NEW i \in DOMAIN candidates' PROVE candidates'[i] \in [val : Nat, responses : Nat]
        <5>1. CASE i \in DOMAIN candidates
          <6>1. candidates[i] \in [val : Nat, responses : Nat] /\ val[s][i] \in Nat
            BY <2>6, <5>1 DEF TypeInv, StateTypes
          <6>2. CASE i \in x.items
            <7>1. candidates[i].val + val[s][i] \in Nat /\ candidates[i].responses + 1 \in Nat
              BY <6>1
            <7>2. candidates'[i] = [val |-> candidates[i].val + val[s][i],
                                    responses |-> candidates[i].responses + 1]
              BY <4>1, <5>1, <6>2
            <7> QED
              BY <7>1, <7>2
          <6>3. CASE i \notin x.items
            BY <4>1, <5>1, <6>1, <6>3
          <6> QED
            BY <6>2, <6>3
        <5>2. CASE i \notin DOMAIN candidates
          <6>1. i \in x.items
            BY <4>1, <5>2
          <6>2. candidates'[i] = [val |-> 0 + val[s][i], responses |-> 0 + 1]
            BY <4>1, <5>2, <6>1
          <6>3. 0 + val[s][i] \in Nat /\ 0 + 1 \in Nat
            BY <2>6, <6>1
          <6> QED
            BY <6>2, <6>3
        <5> QED
          BY <5>1, <5>2
      <4> QED
        BY <2>6, <4>1, <4>2 DEF TypeInv, StateTypes
    <3>2. CASE phase \notin {1, 2}
      BY SMTT(20), Z3T(20), SMTT(30), <1>2, <2>6, <3>2 DEF ProcessData, TypeInv, StateTypes
    <3> QED
      BY <3>1, <3>2
  <2>8. StateTypes'
    BY <1>2, <2>7 DEF TypeInv, StateTypes, ProcessData, teardown
  <2> QED
    BY <1>2, <2>5, <2>8 DEF TypeInv, StopInv, ProcessData, teardown
<1>3. ASSUME ProcessEnd(s) PROVE TypeInv'
  <2>1. busy' \subseteq Sources /\ UNCHANGED <<val, future, left, retry, sent, result, teardown, preds>>
    BY <1>3 DEF ProcessEnd, TypeInv, StateTypes
  <2>2. CASE responses + 1 = Cardinality(preds)
    BY <1>3, <2>1, <2>2, RoundOver, EndOfRoundTypes
  <2>3. CASE responses + 1 # Cardinality(preds)
    <3>1. Head(up[s]).round = phase /\ up' = [up EXCEPT ![s] = <<>>] /\ down[s] = <<>>
      BY <1>3, EndIsCurrent
    <3>2. UNCHANGED <<phase, candidates, T1, down>>
      BY <1>3, <2>3, <3>1 DEF ProcessEnd
    <3>3. down' = [down EXCEPT ![s] = <<>>]
      BY <3>1, <3>2 DEF IInv, RoundInv
    <3>4. ChannelTypes'
      BY <1>0, <3>1, <3>3, ChannelTypesStep DEF TypeInv
    <3>5. StateTypes'
      BY <2>1, <3>2 DEF TypeInv, StateTypes, teardown
    <3> QED
      BY <2>1, <3>2, <3>4, <3>5 DEF TypeInv, StopInv, teardown
  <2> QED
    BY <2>2, <2>3
<1> QED
  BY <1>1, <1>2, <1>3

\* TypeInv is inductive, given IInv.
LEMMA TypesKept == Spec => [](IInv /\ TypeInv)
<1>1. Init => IInv /\ TypeInv
  <2> SUFFICES ASSUME Init PROVE TypeInv
    BY InitInv
  <2>1. StateTypes
    <3>1. retry \in BOOLEAN /\ ended \in BOOLEAN
      BY DEF Init
    <3>2. DOMAIN candidates = {} /\ result \in [Items -> Nat] /\ sent \in [Sources -> SUBSET Items]
      BY DEF Init
    <3> QED
      BY SMTT(20), Z3T(20), SMTT(30), <3>1, <3>2 DEF Init, StateTypes
  <2>2. ChannelTypes
    BY SMTT(20), Z3T(20), SMTT(30) DEF Init, ChannelTypes
  <2> QED
    BY <2>1, <2>2 DEF Init, TypeInv, StopInv
<1>2. IInv /\ TypeInv /\ [Next]_vars => IInv' /\ TypeInv'
  <2> SUFFICES ASSUME IInv, TypeInv, [Next]_vars PROVE IInv' /\ TypeInv'
    OBVIOUS
  <2>1. IInv'
    BY NextInv DEF TypeInv, StateTypes
  <2>2. CASE UNCHANGED vars
    <3>1. StateTypes'
      BY <2>2 DEF vars, query, teardown, TypeInv, StateTypes
    <3> QED
      BY <2>1, <2>2, <3>1 DEF vars, query, teardown, TypeInv, ChannelTypes, StopInv
  <2>3. CASE StartPhase1
    BY <2>1, <2>3, ChainTypes
  <2>4. CASE EmitData
    BY <2>1, <2>4, TeardownTypes
  <2>5. ASSUME NEW s \in Sources, AddChain(s) \/ ChainStopping(s) PROVE TypeInv'
    BY <2>5, ChainTypes
  <2>6. ASSUME NEW s \in Sources, MetaFromDownstream(s) \/ ProcessData(s) \/ ProcessEnd(s) PROVE TypeInv'
    BY <2>6, RoundTypes
  <2>7. ASSUME NEW s \in Sources, HandlerReturns(s) \/ StopPred(s) PROVE TypeInv'
    BY <2>7, TeardownTypes
  <2> QED
    BY <2>1, <2>2, <2>3, <2>4, <2>5, <2>6, <2>7 DEF Next
<1> QED
  BY <1>1, <1>2, PTL DEF Spec

\* Every message, count and threshold of the query is one: calculate_tau always finds
\* a value, no answer is counted twice, and only predecessors are ever stopped.
THEOREM TypeCorrect == Spec => []TypeOK
<1>1. IInv /\ TypeInv => TypeOK
  <2> SUFFICES ASSUME IInv, TypeInv PROVE TypeOK
    OBVIOUS
  <2>1. responses \in 0 .. Cardinality(preds)
    <3>1. preds \cap Quiet \in SUBSET preds
      OBVIOUS
    <3>2. /\ Cardinality(preds \cap Quiet) \in Nat /\ Cardinality(preds) \in Nat
          /\ Cardinality(preds \cap Quiet) <= Cardinality(preds)
      BY <3>1, PredsCount DEF IInv
    <3> QED
      BY <3>2 DEF IInv, CountInv
  <2> QED
    BY <2>1 DEF TypeInv, StateTypes, ChannelTypes, Answer, TypeOK
<1> QED
  BY <1>1, TypesKept, PTL
-----------------------------------------------------------------------------
(* The answer: steps within a round.                                       *)

\* What a source has, and what is promised of the answer, when values, predecessors,
\* phase and result stay.
LEMMA PromiseFixed ==
  ASSUME UNCHANGED <<val, preds>>
  PROVE  /\ \A s : Present(s)' = Present(s)
         /\ Large' = Large
         /\ UNCHANGED <<phase, result>> => (ExactTotals => ExactTotals') /\ (AnswerSize => AnswerSize')
<1>1. \A s : Present(s)' = Present(s)
  BY DEF Present
<1>2. Large' = Large
  BY <1>1 DEF Large
<1>3. ASSUME UNCHANGED <<phase, result>>, ExactTotals PROVE ExactTotals'
  <2>1. \A i \in Items : Total(i)' = Total(i)
    BY PartFixed
  <2> QED
    BY <1>3, <2>1 DEF ExactTotals
<1>4. ASSUME UNCHANGED <<phase, result>>, AnswerSize PROVE AnswerSize'
  BY <1>1, <1>4 DEF AnswerSize
<1> QED
  BY <1>1, <1>2, <1>3, <1>4

\* A step that leaves the query and the channels alone.
LEMMA AnswerFrame ==
  ASSUME AnswerInv, UNCHANGED <<query, down, up>>
  PROVE  AnswerInv'
<1>0. /\ UNCHANGED <<val, preds, phase, responses, candidates, T1, result, down, up>>
      /\ \A s : Present(s)' = Present(s) /\ Large' = Large /\ Wide' = Wide
      /\ ExactTotals' /\ AnswerSize'
  BY PromiseFixed DEF query, Wide, AnswerInv
<1>1. \A s : Asked(s)' = Asked(s) /\ Answered(s)' = Answered(s) /\ Ending(s)' = Ending(s)
  BY ZenonT(20), <1>0 DEF Asked, Answered, Ending
<1>2. Quiet' = Quiet
  BY <1>0 DEF Quiet
<1>3. ASSUME NEW D, Delivered(D) PROVE Delivered(D)'
  BY <1>0, <1>1, <1>2, <1>3 DEF Delivered
<1>4. ASSUME NEW D, FirstRound(D) PROVE FirstRound(D)'
  BY <1>0, <1>1, <1>4 DEF FirstRound
<1>5. ASSUME NEW D, NEW q, LastRound(D, q) PROVE LastRound(D, q)'
  <2>1. \A i : Part(i, D)' = Part(i, D)
    BY <1>0, PartFixed
  <2> QED
    BY <1>0, <1>1, <1>5, <2>1 DEF LastRound
<1>6. Sound'
  BY <1>0 DEF AnswerInv, Sound
<1> QED
  BY ZenonT(20), <1>0, <1>1, <1>3, <1>4, <1>5, <1>6 DEF AnswerInv

\* A step that changes the channels of s leaves the others as they are.
LEMMA OthersKeep ==
  ASSUME IInv, NEW s \in Sources, NEW d, NEW u, UNCHANGED phase,
         down' = [down EXCEPT ![s] = d], up' = [up EXCEPT ![s] = u]
  PROVE  /\ down'[s] = d /\ up'[s] = u
         /\ \A r \in Sources \ {s} :
              /\ down'[r] = down[r] /\ up'[r] = up[r] /\ (r \in Quiet' <=> r \in Quiet)
              /\ Asked(r)' = Asked(r) /\ Answered(r)' = Answered(r) /\ Ending(r)' = Ending(r)
         /\ s \in Quiet' <=> d = <<>> /\ u = <<>>
<1>1. down'[s] = d /\ up'[s] = u
  BY DEF IInv, RoundInv
<1>2. ASSUME NEW r \in Sources \ {s} PROVE down'[r] = down[r] /\ up'[r] = up[r]
  BY <1>2 DEF IInv, RoundInv
<1>3. ASSUME NEW r \in Sources \ {s}
      PROVE  /\ (r \in Quiet' <=> r \in Quiet)
             /\ Asked(r)' = Asked(r) /\ Answered(r)' = Answered(r) /\ Ending(r)' = Ending(r)
  BY <1>2 DEF Quiet, Asked, Answered, Ending
<1>4. s \in Quiet' <=> d = <<>> /\ u = <<>>
  BY <1>1 DEF Quiet
<1> QED
  BY <1>1, <1>2, <1>3, <1>4

\* Who has delivered, when the channels of s change and E is D or D with s.
LEMMA DeliveredStep ==
  ASSUME IInv, NEW s \in Sources, NEW d, NEW u, UNCHANGED <<phase, preds>>,
         down' = [down EXCEPT ![s] = d], up' = [up EXCEPT ![s] = u],
         NEW D, Delivered(D), NEW E \in SUBSET preds, E \ {s} = D \ {s},
         s \in preds \ Quiet' => (s \in E <=> Ending(s)'),
         responses' <= Cardinality(E \cap Quiet')
  PROVE  Delivered(E)'
<1>1. ASSUME NEW r \in preds \ Quiet' PROVE r \in E <=> Ending(r)'
  <2>1. CASE r = s
    BY <2>1
  <2>2. CASE r # s
    <3>1. r \in Sources \ {s} /\ r \in preds
      BY <2>2 DEF IInv, RoundInv
    <3>2. (r \in Quiet' <=> r \in Quiet) /\ Ending(r)' = Ending(r)
      BY <3>1, OthersKeep
    <3>3. r \in D <=> Ending(r)
      BY <3>1, <3>2 DEF Delivered
    <3> QED
      BY <2>2, <3>2, <3>3
  <2> QED
    BY <2>1, <2>2
<1> QED
  BY <1>1 DEF Delivered

\* A step that changes the channels of s and collects nothing: s is not asked; if it
\* has just answered, it answered what the round wants.
LEMMA AnswerKeep ==
  ASSUME IInv, AnswerInv, NEW s \in Sources, NEW d, NEW u,
         UNCHANGED <<val, preds, phase, candidates, T1, result>>,
         down' = [down EXCEPT ![s] = d], up' = [up EXCEPT ![s] = u],
         ~Asked(s)',
         \A D : Delivered(D) => Delivered(D)',
         Answered(s)' => up'[s][1].items \subseteq Present(s),
         phase = 1 /\ Answered(s)' /\ Cardinality(Present(s)) >= K => Cardinality(up'[s][1].items) >= K,
         \A D, q : phase = 3 /\ LastRound(D, q) /\ Answered(s)' => up'[s][1].items = q \cap Present(s)
  PROVE  AnswerInv'
<1>0. /\ \A r : Present(r)' = Present(r) /\ Large' = Large /\ Wide' = Wide
      /\ ExactTotals' /\ AnswerSize'
  BY PromiseFixed DEF Wide, AnswerInv
<1>1. \A r \in Sources \ {s} : /\ down'[r] = down[r] /\ up'[r] = up[r]
                               /\ Asked(r)' = Asked(r) /\ Answered(r)' = Answered(r)
  BY OthersKeep
<1>2. preds \subseteq Sources
  BY DEF IInv, RoundInv
<1>3. Sound'
  BY DEF AnswerInv, Sound
<1>4. ASSUME NEW r \in preds, Answered(r)' PROVE up'[r][1].items \subseteq Present(r)
  <2>1. CASE r = s
    BY <1>4, <2>1
  <2>2. CASE r # s
    BY <1>1, <1>2, <1>4, <2>2 DEF AnswerInv
  <2> QED
    BY <2>1, <2>2
<1>5. ASSUME phase = 1, NEW D \in SUBSET preds, FirstRound(D) PROVE FirstRound(D)'
  <2>1. \A r \in D : Cardinality(Present(r)) >= K => Wide
    BY <1>5 DEF FirstRound
  <2>2. ASSUME NEW r \in preds, Asked(r)' PROVE down'[r][1].k = K
    <3>1. r \in Sources \ {s}
      BY <1>2, <2>2
    <3> QED
      BY <1>1, <1>5, <2>2, <3>1 DEF FirstRound
  <2>3. ASSUME NEW r \in preds, Answered(r)', Cardinality(Present(r)) >= K
        PROVE  Cardinality(up'[r][1].items) >= K
    <3>1. CASE r = s
      BY <1>5, <2>3, <3>1
    <3>2. CASE r # s
      BY ZenonT(20), <1>1, <1>2, <1>5, <2>3, <3>2 DEF FirstRound
    <3> QED
      BY <3>1, <3>2
  <2> QED
    BY <1>0, <2>1, <2>2, <2>3 DEF FirstRound
<1>6. ASSUME phase = 3, NEW D, NEW q, LastRound(D, q) PROVE LastRound(D, q)'
  <2>1. \A i : Part(i, D)' = Part(i, D)
    BY PartFixed
  <2>2. ASSUME NEW r \in preds, Asked(r)' PROVE down'[r][1].query = q
    <3>1. r \in Sources \ {s}
      BY <1>2, <2>2
    <3> QED
      BY <1>1, <1>6, <2>2, <3>1 DEF LastRound
  <2>3. ASSUME NEW r \in preds, Answered(r)' PROVE up'[r][1].items = q \cap Present(r)
    <3>1. CASE r = s
      BY <1>6, <2>3, <3>1
    <3>2. CASE r # s
      BY ZenonT(20), <1>1, <1>2, <1>6, <2>3, <3>2 DEF LastRound
    <3> QED
      BY <3>1, <3>2
  <2> QED
    BY ZenonT(20), <1>0, <1>6, <2>1, <2>2, <2>3 DEF LastRound
<1>7. phase = 1 => \E D \in SUBSET preds : Delivered(D)' /\ FirstRound(D)'
  BY <1>5 DEF AnswerInv
<1>8. phase = 3 => \E D \in SUBSET preds, q \in SUBSET Items : Delivered(D)' /\ LastRound(D, q)'
  BY <1>6 DEF AnswerInv
<1>9. /\ phase \in {2, 3} => T1 > 0 /\ (Large => Wide)
      /\ phase < 3 => \A i \in Items : result[i] = 0
  BY DEF AnswerInv
<1> QED
  BY ZenonT(20), <1>0, <1>3, <1>4, <1>7, <1>8, <1>9 DEF AnswerInv

\* chain_stopping: what was in flight is lost, and nobody counts as delivered for it.
LEMMA ChainStoppingAnswer ==
  ASSUME IInv, AnswerInv, NEW s \in Sources, ChainStopping(s)
  PROVE  AnswerInv'
<1>1. /\ down' = [down EXCEPT ![s] = <<>>] /\ up' = [up EXCEPT ![s] = <<>>]
      /\ UNCHANGED <<val, preds, phase, responses, candidates, T1, result>>
  BY DEF ChainStopping, query
<1>2. down'[s] = <<>> /\ up'[s] = <<>> /\ s \in Quiet'
  BY <1>1, OthersKeep
<1>3. ~Asked(s)' /\ ~Answered(s)'
  BY <1>2 DEF Asked, Answered
<1>4. Quiet \subseteq Quiet'
  BY <1>1, <1>2, OthersKeep DEF Quiet
<1>5. ASSUME NEW D, Delivered(D) PROVE Delivered(D)'
  <2>1. D \cap Quiet' \in SUBSET preds /\ D \cap Quiet \in SUBSET (D \cap Quiet')
    BY <1>4, <1>5 DEF Delivered
  <2>2. IsFiniteSet(D \cap Quiet') /\ Cardinality(D \cap Quiet') \in Nat
    BY <2>1, PredsCount DEF IInv
  <2>3. /\ Cardinality(D \cap Quiet) <= Cardinality(D \cap Quiet') /\ Cardinality(D \cap Quiet) \in Nat
    BY ZenonT(20), <2>1, <2>2, FS_Subset, FS_CardinalityType
  <2>4. responses \in Nat /\ responses <= Cardinality(D \cap Quiet)
    BY <1>5 DEF Delivered, IInv, CountInv
  <2>5. responses' <= Cardinality(D \cap Quiet')
    BY SMTT(20), Z3T(20), SMTT(30), <1>1, <2>2, <2>3, <2>4
  <2>6. D \in SUBSET preds
    BY <1>5 DEF Delivered
  <2> QED
    BY ZenonT(20), <1>1, <1>2, <1>5, <2>5, <2>6, DeliveredStep
<1> QED
  BY <1>1, <1>3, <1>5, AnswerKeep

\* A source answers: in round 1 with K items if it has them, in round 3 with q.
LEMMA MetaFromDownstreamAnswer ==
  ASSUME IInv, AnswerInv, NEW s \in Sources, MetaFromDownstream(s)
  PROVE  AnswerInv'
<1>1. s \in preds /\ phase \in 1 .. 3 /\ Asked(s) /\ down' = [down EXCEPT ![s] = <<>>]
  BY Replies
<1>2. PICK m : m = down[s][1] /\ m.round = phase
  BY <1>1 DEF Asked
<1>3. PICK skip, x, y :
        /\ skip \in Best(s, m.k)
        /\ x = [data |-> TRUE, round |-> phase, items |-> Reply(s, m, skip)]
        /\ y = [data |-> FALSE, round |-> phase, items |-> {}]
        /\ up' = [up EXCEPT ![s] = <<x, y>>]
  BY SMTT(20), Z3T(20), SMTT(30), <1>2, Replies
<1>4. skip \in SUBSET Present(s)
  BY <1>3 DEF Best
<1>5. UNCHANGED <<val, preds, phase, responses, candidates, T1, result>>
  BY DEF MetaFromDownstream
<1>6. /\ down'[s] = <<>> /\ up'[s] = <<x, y>>
      /\ <<x, y>> # <<>> /\ <<x, y>>[1] = x /\ Len(<<x, y>>) = 2
  BY ZenonT(20), <1>1, <1>3, <1>5, OthersKeep, TwoMessages
<1>7. ~Asked(s)' /\ ~Ending(s)' /\ s \notin Quiet' /\ s \notin Quiet
  <2>1. ~Asked(s)' /\ s \notin Quiet'
    BY <1>6 DEF Asked, Quiet
  <2>2. ~Ending(s)'
    BY SMTT(20), Z3T(20), SMTT(30), <1>6, OneMessage DEF Ending
  <2>3. s \notin Quiet
    BY <1>1, OneMessage DEF Asked, Quiet
  <2> QED
    BY <2>1, <2>2, <2>3
<1>8. /\ up'[s][1].items = Reply(s, m, skip)
  BY <1>3, <1>6
<1>9. /\ Reply(s, m, skip) \subseteq Present(s)
      /\ phase = 1 => Reply(s, m, skip) = skip
      /\ phase = 3 => Reply(s, m, skip) = m.query \cap Present(s)
  BY <1>1, <1>2, <1>4, ReplyIs
<1>10. ASSUME NEW D, Delivered(D) PROVE Delivered(D)'
  <2>1. \A r \in Sources : r \in Quiet' <=> r \in Quiet
    BY ZenonT(20), <1>1, <1>3, <1>5, <1>7, OthersKeep
  <2>2. Quiet' = Quiet
    BY <2>1 DEF Quiet
  <2>3. D \in SUBSET preds /\ responses' <= Cardinality(D \cap Quiet')
    BY <1>5, <1>10, <2>2 DEF Delivered
  <2>4. s \notin D
    <3>1. ~Ending(s)
      BY <1>1, OneMessage DEF Asked, Ending
    <3> QED
      BY ZenonT(20), <1>1, <1>7, <1>10, <3>1 DEF Delivered
  <2> QED
    BY ZenonT(20), <1>1, <1>3, <1>5, <1>7, <1>10, <2>3, <2>4, DeliveredStep
<1>11. ASSUME phase = 1, Cardinality(Present(s)) >= K PROVE Cardinality(up'[s][1].items) >= K
  <2>1. m.k = K
    BY <1>1, <1>2, <1>11 DEF AnswerInv, FirstRound
  <2> QED
    BY ZenonT(20), <1>3, <1>8, <1>9, <1>11, <2>1, BestIs
<1>12. ASSUME NEW D, NEW q, phase = 3, LastRound(D, q) PROVE up'[s][1].items = q \cap Present(s)
  <2>1. m.query = q
    BY <1>1, <1>2, <1>12 DEF LastRound
  <2> QED
    BY ZenonT(20), <1>8, <1>9, <1>12, <2>1
<1>13. up'[s][1].items \subseteq Present(s)
  BY <1>8, <1>9
<1> HIDE DEF LastRound
<1> QED
  BY ZenonT(20), <1>1, <1>3, <1>5, <1>7, <1>10, <1>11, <1>12, <1>13, AnswerKeep

\* An END_OF_WINDOW that is not the last of its round: one more is counted, of a
\* source that has delivered.
LEMMA ProcessEndAnswer ==
  ASSUME IInv, AnswerInv, NEW s \in Sources, ProcessEnd(s), responses + 1 # Cardinality(preds)
  PROVE  AnswerInv'
<1>1. /\ s \in preds /\ s \notin Quiet /\ Head(up[s]).round = phase
      /\ up' = [up EXCEPT ![s] = <<>>] /\ down[s] = <<>> /\ phase \in 1 .. 3
  BY EndIsCurrent
<1>2. /\ responses' = responses + 1
      /\ UNCHANGED <<val, preds, phase, candidates, T1, result, down>>
  BY <1>1 DEF ProcessEnd
<1>3. down' = [down EXCEPT ![s] = <<>>]
  BY <1>1, <1>2 DEF IInv, RoundInv
<1>4. down'[s] = <<>> /\ up'[s] = <<>> /\ s \in Quiet'
  BY <1>1, <1>2, <1>3, OthersKeep
<1>5. ~Asked(s)' /\ ~Answered(s)'
  BY <1>4 DEF Asked, Answered
<1>6. Ending(s)
  <2>1. up[s] # <<>> /\ ~Head(up[s]).data
    BY DEF ProcessEnd
  <2>2. ~Asked(s)
    BY <2>1 DEF Asked
  <2>3. ~Answered(s)
    BY SMTT(20), Z3T(20), SMTT(30), <2>1, TwoMessages DEF Answered
  <2> QED
    BY <1>1, <2>2, <2>3 DEF IInv, ChannelsInv
<1>7. ASSUME NEW D, Delivered(D) PROVE Delivered(D)'
  <2>1. s \in D /\ D \in SUBSET preds /\ D \cap Quiet \in SUBSET preds
    BY <1>1, <1>6, <1>7 DEF Delivered
  <2>2. \A r \in Sources : r \in Quiet' <=> (r \in Quiet \/ r = s)
    BY ZenonT(20), <1>1, <1>2, <1>3, <1>4, OthersKeep
  <2>3. D \cap Quiet' = (D \cap Quiet) \cup {s} /\ s \notin D \cap Quiet
    BY <1>1, <2>1, <2>2 DEF Quiet
  <2>4. IsFiniteSet(D \cap Quiet) /\ Cardinality(D \cap Quiet) \in Nat
    BY <2>1, PredsCount DEF IInv
  <2>5. Cardinality(D \cap Quiet') = Cardinality(D \cap Quiet) + 1
    BY <2>3, <2>4, FS_AddElement
  <2>6. responses \in Nat /\ responses <= Cardinality(D \cap Quiet)
    BY <1>7 DEF Delivered, IInv, CountInv
  <2>7. responses' <= Cardinality(D \cap Quiet')
    BY SMTT(20), Z3T(20), SMTT(30), <1>2, <2>4, <2>5, <2>6
  <2> QED
    BY <1>1, <1>2, <1>3, <1>4, <1>7, <2>1, <2>7, DeliveredStep
<1> QED
  BY ZenonT(20), <1>1, <1>2, <1>3, <1>5, <1>7, AnswerKeep

\* process, the tuples: s has delivered.
LEMMA ProcessDataDelivers ==
  ASSUME IInv, NEW s \in Sources, ProcessData(s)
  PROVE  /\ ~Asked(s)' /\ ~Answered(s)'
         /\ \A D : Delivered(D) => s \notin D /\ Delivered(D \cup {s})'
<1>1. /\ s \in preds /\ phase \in 1 .. 3 /\ Answered(s)
      /\ down' = [down EXCEPT ![s] = <<>>] /\ up' = [up EXCEPT ![s] = <<up[s][2]>>]
  BY Takes
<1>2. UNCHANGED <<phase, preds, responses>>
  BY DEF ProcessData
<1>3. PICK y : y = up[s][2] /\ y.data = FALSE /\ y.round = phase
  BY <1>1 DEF Answered
<1>4. down'[s] = <<>> /\ up'[s] = <<y>> /\ <<y>> # <<>> /\ Len(<<y>>) = 1 /\ <<y>>[1] = y
  BY ZenonT(20), <1>1, <1>2, <1>3, OthersKeep, OneMessage
<1>5. Ending(s)' /\ ~Asked(s)' /\ ~Answered(s)'
  BY <1>2, <1>3, <1>4 DEF Ending, Asked, Answered
<1>6. s \notin Quiet /\ s \notin Quiet' /\ ~Ending(s)
  <2>1. s \notin Quiet'
    BY ZenonT(20), <1>4 DEF Quiet
  <2>2. s \notin Quiet
    BY SMTT(20), Z3T(20), SMTT(30), <1>1, TwoMessages DEF Answered, Quiet
  <2>3. ~Ending(s)
    BY <1>1, OneMessage DEF Answered, Ending
  <2> QED
    BY <2>1, <2>2, <2>3
<1>7. Quiet' = Quiet
  <2>1. \A r \in Sources : r \in Quiet' <=> r \in Quiet
    BY <1>1, <1>2, <1>6, OthersKeep
  <2> QED
    BY <2>1 DEF Quiet
<1>8. ASSUME NEW D, Delivered(D) PROVE s \notin D /\ Delivered(D \cup {s})'
  <2>1. s \notin D
    BY <1>1, <1>6, <1>8 DEF Delivered
  <2>2. (D \cup {s}) \cap Quiet' = D \cap Quiet
    BY <1>6, <1>7
  <2>3. responses' <= Cardinality((D \cup {s}) \cap Quiet')
    BY <1>2, <1>8, <2>2 DEF Delivered
  <2>4. PICK E \in SUBSET preds : E = D \cup {s}
    BY <1>1, <1>8 DEF Delivered
  <2>5. E \ {s} = D \ {s} /\ s \in E /\ responses' <= Cardinality(E \cap Quiet')
    BY <2>3, <2>4
  <2>6. Delivered(E)'
    BY ZenonT(20), <1>1, <1>2, <1>5, <1>8, <2>5, DeliveredStep
  <2> QED
    BY <2>1, <2>4, <2>6
<1> QED
  BY <1>5, <1>8

\* Rounds 1 and 2: the items of an answer become candidates.
LEMMA CollectAnswer ==
  ASSUME IInv, TypeInv, AnswerInv, NEW s \in Sources, ProcessData(s), phase \in {1, 2}
  PROVE  AnswerInv'
<1>1. /\ s \in preds /\ Answered(s)
      /\ down' = [down EXCEPT ![s] = <<>>] /\ up' = [up EXCEPT ![s] = <<up[s][2]>>]
  BY Takes
<1>2. UNCHANGED <<val, preds, phase, responses, T1>>
  BY DEF ProcessData
<1>3. PICK items \in SUBSET Present(s) : items = up[s][1].items
  BY <1>1 DEF AnswerInv
<1>4. /\ result' = result /\ DOMAIN candidates' = DOMAIN candidates \cup items
      /\ \A i \in DOMAIN candidates \ items : candidates'[i] = candidates[i]
      /\ \A i \in DOMAIN candidates \cap items : candidates'[i] =
           [val |-> candidates[i].val + val[s][i], responses |-> candidates[i].responses + 1]
      /\ \A i \in items \ DOMAIN candidates :
           candidates'[i] = [val |-> 0 + val[s][i], responses |-> 0 + 1]
  BY Z3T(20), SMTT(20), Z3T(30), <1>3, Collects
<1>5. \A i \in items : val[s][i] > 0 /\ val[s][i] \in Nat
  BY SMTT(20), Z3T(20), SMTT(30), <1>3 DEF Present, TypeInv, StateTypes
<1>6. ASSUME NEW i \in DOMAIN candidates'
      PROVE  candidates'[i].val > 0 /\ \E r \in preds : val[r][i] > 0
  <2>1. CASE i \in items \ DOMAIN candidates
    <3>1. candidates'[i].val = 0 + val[s][i]
      BY SMTT(20), Z3T(20), SMTT(30), <1>4, <2>1
    <3> QED
      BY <1>1, <1>5, <2>1, <3>1
  <2>2. CASE i \in items \cap DOMAIN candidates
    <3>1. candidates'[i].val = candidates[i].val + val[s][i]
      BY SMTT(20), Z3T(20), SMTT(30), <1>4, <2>2
    <3>2. candidates[i].val \in Nat
      BY <2>2 DEF TypeInv, StateTypes
    <3> QED
      BY <1>1, <1>5, <2>2, <3>1, <3>2
  <2>3. CASE i \in DOMAIN candidates \ items
    BY <1>4, <2>3 DEF AnswerInv, Sound
  <2> QED
    BY <1>4, <2>1, <2>2, <2>3
<1>7. Sound'
  BY <1>2, <1>6 DEF Sound
<1>8. (Wide => Wide') /\ (Cardinality(items) >= K => Wide')
  <2>1. IsFiniteSet(DOMAIN candidates') /\ K \in Nat
    <3>1. DOMAIN candidates' \in SUBSET Items
      BY <1>3, <1>4 DEF Present, TypeInv, StateTypes
    <3> QED
      BY <3>1, TputAssumption, FS_Subset
  <2>2. items \in SUBSET DOMAIN candidates' /\ DOMAIN candidates \in SUBSET DOMAIN candidates'
    BY <1>4
  <2>3. /\ Cardinality(items) \in Nat /\ Cardinality(DOMAIN candidates) \in Nat
        /\ Cardinality(DOMAIN candidates') \in Nat
        /\ Cardinality(items) <= Cardinality(DOMAIN candidates')
        /\ Cardinality(DOMAIN candidates) <= Cardinality(DOMAIN candidates')
    BY <2>1, <2>2, FS_Subset, FS_CardinalityType
  <2> QED
    BY <2>1, <2>3 DEF Wide
<1>9. \A r \in Sources \ {s} : /\ down'[r] = down[r] /\ up'[r] = up[r]
                               /\ Asked(r)' = Asked(r) /\ Answered(r)' = Answered(r)
  BY ZenonT(20), <1>1, <1>2, OthersKeep
<1>10. preds \subseteq Sources /\ ~Asked(s)' /\ ~Answered(s)'
  BY ProcessDataDelivers DEF IInv, RoundInv
<1>11. (\A r : Present(r)' = Present(r)) /\ Large' = Large
  BY <1>2, PromiseFixed
<1>12. \A r \in preds : Answered(r)' => up'[r][1].items \subseteq Present(r)
  BY <1>9, <1>10 DEF AnswerInv
<1>13. ASSUME phase = 1 PROVE \E D \in SUBSET preds : Delivered(D)' /\ FirstRound(D)'
  <2>1. PICK D \in SUBSET preds : Delivered(D) /\ FirstRound(D)
    BY <1>13 DEF AnswerInv
  <2>2. Delivered(D \cup {s})'
    BY <2>1, ProcessDataDelivers
  <2>3. \A r \in D \cup {s} : Cardinality(Present(r)) >= K => Wide'
    BY <1>1, <1>3, <1>8, <2>1 DEF FirstRound
  <2>4. \A r \in preds : Asked(r)' => down'[r][1].k = K
    BY <1>9, <1>10, <2>1 DEF FirstRound
  <2>5. \A r \in preds : Answered(r)' /\ Cardinality(Present(r)) >= K => Cardinality(up'[r][1].items) >= K
    BY <1>9, <1>10, <2>1 DEF FirstRound
  <2>6. FirstRound(D \cup {s})'
    BY ZenonT(20), <1>2, <1>11, <2>3, <2>4, <2>5 DEF FirstRound
  <2>7. D \cup {s} \in SUBSET preds
    BY <1>1
  <2> QED
    BY <2>2, <2>6, <2>7
<1>14. phase = 2 => T1 > 0 /\ (Large => Wide')
  BY <1>8 DEF AnswerInv
<1>15. \A i \in Items : result'[i] = 0
  BY SMTT(20), Z3T(20), SMTT(30), <1>4 DEF AnswerInv
<1>16. ExactTotals' /\ AnswerSize'
  BY <1>2 DEF ExactTotals, AnswerSize
<1> QED
  BY SMTT(20), Z3T(20), SMTT(30), <1>2, <1>7, <1>11, <1>12, <1>13, <1>14, <1>15, <1>16 DEF AnswerInv

\* Round 3: the values of an answer are added to what the output cube has.
LEMMA DeliverAnswer ==
  ASSUME IInv, TypeInv, AnswerInv, NEW s \in Sources, ProcessData(s), phase = 3
  PROVE  AnswerInv'
<1>1. /\ s \in preds /\ Answered(s) /\ Head(up[s]) = up[s][1]
      /\ down' = [down EXCEPT ![s] = <<>>] /\ up' = [up EXCEPT ![s] = <<up[s][2]>>]
  BY Takes
<1>2. UNCHANGED <<val, preds, phase, responses, T1, candidates>>
  <2>1. phase \notin {1, 2}
    OBVIOUS
  <2> QED
    BY <2>1 DEF ProcessData
<1>3. PICK D \in SUBSET preds, q \in SUBSET Items : Delivered(D) /\ LastRound(D, q)
  BY DEF AnswerInv
<1>4. PICK items : items = up[s][1].items /\ items = q \cap Present(s)
  BY <1>1, <1>3 DEF LastRound
<1>5. \A i \in Items : result'[i] = IF i \in items THEN result[i] + val[s][i] ELSE result[i]
  <2>1. phase \notin {1, 2}
    OBVIOUS
  <2>2. Head(up[s]).items = items
    BY <1>1, <1>4, Zenon
  <2>3. result' = [i \in Items |-> IF i \in items THEN result[i] + val[s][i] ELSE result[i]]
    BY <2>1, <2>2 DEF ProcessData
  <2> QED
    BY <2>3
<1>6. Delivered(D \cup {s})' /\ s \notin D /\ D \cup {s} \in SUBSET preds
  BY <1>1, <1>3, ProcessDataDelivers
<1>7. preds \subseteq Sources /\ val \in [Sources -> [Items -> 0 .. MaxVal]]
  BY DEF TypeInv, StateTypes
<1>8. ASSUME NEW i \in Items PROVE result'[i] = IF i \in q THEN Part(i, D \cup {s}) ELSE 0
  <2>1. Part(i, D) \in Nat /\ Part(i, D \cup {s}) = Part(i, D) + val[s][i]
    BY ZenonT(20), <1>1, <1>6, <1>7, TotalOf
  <2>2. result[i] = IF i \in q THEN Part(i, D) ELSE 0
    BY <1>3 DEF LastRound
  <2>3. val[s][i] \in Nat
    BY <1>7
  <2>4. CASE i \in items
    BY <1>4, <1>5, <2>1, <2>2, <2>4
  <2>5. CASE i \in q \ items
    <3>1. val[s][i] = 0
      BY SMTT(20), Z3T(20), SMTT(30), <1>4, <2>3, <2>5 DEF Present
    <3>2. Part(i, D \cup {s}) = Part(i, D)
      BY <2>1, <3>1
    <3> QED
      BY <1>5, <2>2, <2>5, <3>2
  <2>6. CASE i \notin q
    BY <1>4, <1>5, <2>2, <2>6
  <2> QED
    BY <2>4, <2>5, <2>6
<1>9. \A r \in Sources \ {s} : /\ down'[r] = down[r] /\ up'[r] = up[r]
                               /\ Asked(r)' = Asked(r) /\ Answered(r)' = Answered(r)
  BY ZenonT(20), <1>1, <1>2, OthersKeep
<1>10. ~Asked(s)' /\ ~Answered(s)'
  BY ProcessDataDelivers
<1>11. (\A r : Present(r)' = Present(r)) /\ Large' = Large
  BY <1>2, PromiseFixed
<1>12. \A r \in preds : Answered(r)' => up'[r][1].items \subseteq Present(r)
  BY <1>7, <1>9, <1>10 DEF AnswerInv
<1>13. LastRound(D \cup {s}, q)'
  <2>1. \A i : Part(i, D \cup {s})' = Part(i, D \cup {s})
    BY <1>2, PartFixed
  <2>2. /\ (Large => Cardinality(q) >= K)
        /\ \A i \in q : \E r \in preds : val[r][i] > 0
    BY <1>3 DEF LastRound
  <2>3. \A r \in preds : Asked(r)' => down'[r][1].query = q
    BY <1>3, <1>7, <1>9, <1>10 DEF LastRound
  <2>4. \A r \in preds : Answered(r)' => up'[r][1].items = q \cap Present(r)
    BY <1>3, <1>7, <1>9, <1>10 DEF LastRound
  <2> QED
    BY ZenonT(20), <1>2, <1>8, <1>11, <2>1, <2>2, <2>3, <2>4 DEF LastRound
<1>14. Sound' /\ T1 > 0 /\ (Large => Wide) /\ Wide' = Wide
  BY <1>2 DEF AnswerInv, Sound, Wide
<1>15. ExactTotals' /\ AnswerSize'
  BY <1>2 DEF ExactTotals, AnswerSize
<1>16. \E E \in SUBSET preds, p \in SUBSET Items : Delivered(E)' /\ LastRound(E, p)'
  BY <1>6, <1>13
<1> QED
  BY <1>2, <1>11, <1>12, <1>14, <1>15, <1>16 DEF AnswerInv
-----------------------------------------------------------------------------
(* The answer: the rounds begin and end.                                   *)

\* start_phase_1: nobody has anything in flight, and every predecessor is asked for K.
LEMMA StartPhase1Answer ==
  ASSUME IInv, TypeInv, AnswerInv, StartPhase1
  PROVE  AnswerInv'
<1>1. preds = {} /\ phase \in {0, 1}
  BY DEF StartPhase1, IInv, RoundInv
<1>2. \A r \in Sources : down[r] = <<>> /\ up'[r] = <<>>
  BY <1>1 DEF StartPhase1, IInv, ChannelsInv, Quiet
<1>3. /\ phase' = 1 /\ responses' = 0 /\ DOMAIN candidates' = {} /\ preds' = future
      /\ result' = result /\ future \subseteq Sources
  BY DEF StartPhase1, TypeInv, StateTypes
<1>4. PICK m : m = [round |-> 1, key |-> "-", k |-> K, tau |-> 0, n |-> 0, query |-> {}]
  OBVIOUS
<1>5. ToPreds(future, m) /\ m.k = K
  BY <1>4 DEF StartPhase1
<1>6. \A r \in Sources : down'[r] = <<>> \/ down'[r] = <<m>>
  BY <1>2, <1>5, OneMessage DEF ToPreds
<1>7. ASSUME NEW r \in Sources PROVE ~Answered(r)' /\ ~Ending(r)' /\ (Asked(r)' => down'[r][1].k = K)
  <2>1. ~Answered(r)' /\ ~Ending(r)'
    BY <1>2 DEF Answered, Ending
  <2>2. Asked(r)' => down'[r] = <<m>>
    BY <1>6 DEF Asked
  <2> QED
    BY SMTT(20), Z3T(20), SMTT(30), <1>5, <2>1, <2>2
<1>8. Delivered({})'
  <2>1. {} \cap Quiet' = {} /\ Cardinality({}) = 0
    BY FS_EmptySet
  <2> QED
    BY <1>3, <1>7, <2>1 DEF Delivered
<1>9. FirstRound({})'
  BY <1>3, <1>7 DEF FirstRound
<1>10. \A i \in Items : result'[i] = 0
  BY SMTT(20), Z3T(20), SMTT(30), <1>1, <1>3 DEF AnswerInv
<1>11. Sound' /\ ExactTotals' /\ AnswerSize'
  BY <1>3 DEF Sound, ExactTotals, AnswerSize
<1>12. \E D \in SUBSET preds' : Delivered(D)' /\ FirstRound(D)'
  BY <1>8, <1>9
<1>13. \A r \in preds' : ~Answered(r)'
  BY <1>3, <1>7
<1> QED
  BY SMTT(20), Z3T(20), SMTT(30), <1>3, <1>10, <1>11, <1>12, <1>13 DEF AnswerInv

\* When the last END_OF_WINDOW of a round is processed, everybody has delivered.
LEMMA AllDelivered ==
  ASSUME IInv, NEW s \in Sources, ProcessEnd(s), responses + 1 = Cardinality(preds),
         NEW D, Delivered(D)
  PROVE  D = preds
<1>1. s \in preds /\ s \notin Quiet
  BY EndIsCurrent
<1>2. Ending(s)
  <2>1. up[s] # <<>> /\ ~Head(up[s]).data
    BY DEF ProcessEnd
  <2>2. ~Asked(s)
    BY <2>1 DEF Asked
  <2>3. ~Answered(s)
    BY SMTT(20), Z3T(20), SMTT(30), <2>1, TwoMessages DEF Answered
  <2> QED
    BY <1>1, <2>2, <2>3 DEF IInv, ChannelsInv
<1>3. s \in D /\ D \subseteq preds
  BY <1>1, <1>2 DEF Delivered
<1>4. PICK E \in SUBSET preds : E = D \cap Quiet
  BY <1>3
<1>5. E \cup {s} \in SUBSET preds /\ s \notin E
  BY <1>1, <1>4
<1>6. IsFiniteSet(E) /\ Cardinality(E) \in Nat /\ Cardinality(E \cup {s}) = Cardinality(E) + 1
  BY <1>5, PredsCount, FS_AddElement DEF IInv
<1>7. Cardinality(preds) \in Nat /\ Cardinality(E \cup {s}) <= Cardinality(preds)
  BY <1>5, PredsCount DEF IInv
<1>8. responses \in Nat /\ responses <= Cardinality(E)
  BY <1>4 DEF Delivered, IInv, CountInv
<1>9. Cardinality(E \cup {s}) = Cardinality(preds)
  BY SMTT(20), Z3T(20), SMTT(30), <1>6, <1>7, <1>8
<1>10. E \cup {s} = preds
  BY <1>5, <1>9, PredsCount DEF IInv
<1> QED
  BY <1>3, <1>4, <1>10

\* A round begins: nobody has delivered, and everybody asked was asked this.
LEMMA BeginAnswer ==
  ASSUME NEW m, ToPreds(preds, m), preds' = preds, preds \subseteq Sources, responses' = 0,
         \A r \in Sources : down[r] = <<>> /\ up'[r] = <<>>
  PROVE  /\ \A r \in preds : ~Answered(r)' /\ (Asked(r)' => down'[r][1] = m)
         /\ Delivered({})'
<1>1. \A r \in Sources : down'[r] = <<>> \/ down'[r] = <<m>>
  BY OneMessage DEF ToPreds
<1>2. ASSUME NEW r \in preds
      PROVE  ~Answered(r)' /\ ~Ending(r)' /\ (Asked(r)' => down'[r][1] = m)
  <2>1. ~Answered(r)' /\ ~Ending(r)'
    BY DEF Answered, Ending
  <2>2. Asked(r)' => down'[r] = <<m>>
    BY <1>1 DEF Asked
  <2> QED
    BY <2>1, <2>2
<1>3. Delivered({})'
  <2>1. {} \cap Quiet' = {} /\ Cardinality({}) = 0
    BY FS_EmptySet
  <2> QED
    BY <1>2, <2>1 DEF Delivered
<1> QED
  BY <1>2, <1>3

\* The bound of a candidate that reaches tau reaches it too.
LEMMA BoundReaches ==
  ASSUME NEW n \in Nat, NEW r \in Nat, r <= n, NEW t \in Nat, NEW v \in Nat, NEW tau \in Nat, v >= tau
  PROVE  (n - r) * t + v * n >= tau * n
<1>1. PICK a \in Nat, b \in Nat : a = n - r /\ b = v - tau
  OBVIOUS
<1>2. a * t \in Nat /\ b * n \in Nat /\ tau * n \in Nat
  OBVIOUS
<1>3. v * n = tau * n + b * n
  BY <1>1
<1> QED
  BY <1>1, <1>2, <1>3

\* A predecessor that has K items has made at least K candidates by the end of round 1.
LEMMA LargeIsWide ==
  ASSUME IInv, AnswerInv, NEW s \in Sources, ProcessEnd(s), responses + 1 = Cardinality(preds),
         phase \in 1 .. 3, Large
  PROVE  Wide
<1>1. CASE phase = 1
  <2>1. PICK D \in SUBSET preds : Delivered(D) /\ FirstRound(D)
    BY <1>1 DEF AnswerInv
  <2>2. D = preds
    BY <2>1, AllDelivered
  <2> QED
    BY <2>1, <2>2 DEF FirstRound, Large
<1>2. CASE phase \in {2, 3}
  BY <1>2 DEF AnswerInv
<1> QED
  BY <1>1, <1>2

\* start_phase_2: the threshold is the value of a candidate.
LEMMA StartPhase2Answer ==
  ASSUME IInv, TypeInv, AnswerInv, NEW s \in Sources, ProcessEnd(s), responses + 1 = Cardinality(preds),
         phase = 1, DOMAIN candidates # {}, StartPhase2
  PROVE  AnswerInv'
<1>1. /\ EndOfRound /\ preds' = preds /\ preds \subseteq Sources
      /\ \A r \in Sources : down[r] = <<>> /\ up'[r] = <<>>
  BY ZenonT(20), RoundOver DEF IInv, RoundInv
<1>2. /\ responses' = 0 /\ phase' = 2 /\ T1' = Tau
      /\ UNCHANGED <<val, candidates, result>>
  BY <1>1 DEF EndOfRound, StartPhase2, ProcessEnd
<1>3. PICK m : m = [round |-> 2, key |-> "", k |-> 0, tau |-> Tau, n |-> Cardinality(preds),
                    query |-> {}]
  OBVIOUS
<1>4. ToPreds(preds, m)
  BY <1>3 DEF StartPhase2, ToPreds
<1>5. \A r \in preds : ~Answered(r)'
  BY ZenonT(20), <1>1, <1>2, <1>4, BeginAnswer
<1>6. Tau > 0
  <2>1. \A i \in DOMAIN candidates : candidates[i].val \in Nat
    BY DEF TypeInv, StateTypes
  <2>2. PICK i \in DOMAIN candidates : Tau = candidates[i].val
    BY <2>1, TauIs DEF TypeInv, StateTypes
  <2> QED
    BY <2>2 DEF AnswerInv, Sound
<1>7. Large' => Wide'
  <2>1. Large' = Large /\ Wide' = Wide
    BY <1>1, <1>2, PromiseFixed DEF Wide
  <2>2. Large => Wide
    BY LargeIsWide
  <2> QED
    BY <2>1, <2>2
<1>8. Sound' /\ ExactTotals' /\ AnswerSize' /\ \A i \in Items : result'[i] = 0
  BY SMTT(20), Z3T(20), SMTT(30), <1>1, <1>2 DEF AnswerInv, Sound, ExactTotals, AnswerSize
<1> QED
  BY SMTT(20), Z3T(20), SMTT(30), <1>1, <1>2, <1>5, <1>6, <1>7, <1>8 DEF AnswerInv

\* start_phase_3: the candidates whose bound reaches tau are K if there are K.
LEMMA StartPhase3Answer ==
  ASSUME IInv, TypeInv, AnswerInv, NEW s \in Sources, ProcessEnd(s), responses + 1 = Cardinality(preds),
         phase = 2, DOMAIN candidates # {}, StartPhase3
  PROVE  AnswerInv'
<1>1. /\ EndOfRound /\ preds' = preds /\ preds \subseteq Sources
      /\ \A r \in Sources : down[r] = <<>> /\ up'[r] = <<>>
  BY RoundOver DEF IInv, RoundInv
<1>2. /\ responses' = 0 /\ phase' = 3
      /\ UNCHANGED <<val, candidates, result, T1>>
  BY <1>1 DEF EndOfRound, StartPhase3, ProcessEnd
<1>3. PICK n : n = Cardinality(preds)
  OBVIOUS
<1>4. PICK q \in SUBSET Items : q = {i \in DOMAIN candidates : MayBeTop(i, n)}
  BY DEF TypeInv, StateTypes
<1>5. PICK m : m = [round |-> 3, key |-> "", k |-> 0, tau |-> 0, n |-> n, query |-> q]
  OBVIOUS
<1>6. ToPreds(preds, m) /\ m.query = q
  BY <1>3, <1>4, <1>5 DEF StartPhase3
<1>7. (\A r \in preds : ~Answered(r)' /\ (Asked(r)' => down'[r][1] = m)) /\ Delivered({})'
  BY ZenonT(20), <1>1, <1>2, <1>6, BeginAnswer
<1>8. ASSUME Large PROVE Cardinality(q) >= K
  <2>1. \A i \in DOMAIN candidates : candidates[i].val \in Nat /\ candidates[i].responses \in Nat
    BY DEF TypeInv, StateTypes
  <2>2. Wide /\ T1 > 0 /\ T1 \in Nat
    BY <1>8 DEF AnswerInv, TypeInv, StateTypes
  <2>3. PICK R : R = {i \in DOMAIN candidates : candidates[i].val >= Tau}
    OBVIOUS
  <2>4. Tau \in Nat /\ Cardinality(R) >= K
    BY ZenonT(20), <2>1, <2>2, <2>3, TauIs, TauType DEF TypeInv, StateTypes
  <2>5. n \in Nat
    BY <1>3, PredsCount DEF IInv
  <2>6. ASSUME NEW i \in R PROVE MayBeTop(i, n)
    <3>1. PICK c : c = candidates[i] /\ c.val \in Nat /\ c.responses \in Nat /\ c.val >= Tau
      BY <2>1, <2>3
    <3>2. CASE c.responses > n
      BY <2>2, <3>1, <3>2 DEF MayBeTop
    <3>3. CASE ~(c.responses > n)
      <4>1. c.responses <= n
        BY SMTT(20), Z3T(20), SMTT(30), <2>5, <3>1, <3>3
      <4>2. (n - c.responses) * T1 + c.val * n >= Tau * n
        BY <2>2, <2>4, <2>5, <3>1, <4>1, BoundReaches
      <4> QED
        BY ZenonT(20), <3>1, <3>3, <4>2 DEF MayBeTop
    <3> QED
      BY <3>2, <3>3
  <2>7. R \in SUBSET q /\ IsFiniteSet(q) /\ K \in Nat
    BY ZenonT(20), <1>4, <2>3, <2>6, TputAssumption, FS_Subset
  <2>8. Cardinality(R) <= Cardinality(q) /\ Cardinality(R) \in Nat /\ Cardinality(q) \in Nat
    BY <2>7, FS_Subset, FS_CardinalityType
  <2> QED
    BY SMTT(20), Z3T(20), SMTT(30), <2>4, <2>7, <2>8
<1>9. \A i \in q : \E r \in preds : val[r][i] > 0
  BY <1>4 DEF AnswerInv, Sound
<1>10. ASSUME NEW i \in Items PROVE result'[i] = IF i \in q THEN Part(i, {})' ELSE 0
  <2>1. result'[i] = 0
    BY <1>2 DEF AnswerInv
  <2>2. Part(i, {}) = 0
    BY <1>1, TotalOf DEF TypeInv, StateTypes
  <2>3. Part(i, {})' = Part(i, {})
    BY <1>1, <1>2, PartFixed
  <2> QED
    BY <2>1, <2>2, <2>3
<1>11. Large' = Large /\ Wide' = Wide
  BY <1>1, <1>2, PromiseFixed DEF Wide
<1>12. LastRound({}, q)'
  BY ZenonT(20), <1>1, <1>2, <1>6, <1>7, <1>8, <1>9, <1>10, <1>11 DEF LastRound
<1>13. Sound' /\ ExactTotals' /\ AnswerSize'
  BY SMTT(20), Z3T(20), SMTT(30), <1>1, <1>2 DEF AnswerInv, Sound, ExactTotals, AnswerSize
<1>14. T1' > 0 /\ (Large' => Wide')
  BY <1>2, <1>11 DEF AnswerInv
<1>15. \E D \in SUBSET preds', p \in SUBSET Items : Delivered(D)' /\ LastRound(D, p)'
  BY <1>7, <1>12
<1> QED
  BY <1>1, <1>2, <1>7, <1>13, <1>14, <1>15 DEF AnswerInv

\* The query is over.  After round 3 everybody has delivered; a query without any
\* candidate has no source with K items.
LEMMA CompleteAnswer ==
  ASSUME IInv, TypeInv, AnswerInv, NEW s \in Sources, ProcessEnd(s), responses + 1 = Cardinality(preds),
         phase = 3 \/ DOMAIN candidates = {}, Complete
  PROVE  AnswerInv'
<1>1. /\ EndOfRound /\ preds' = preds /\ preds \subseteq Sources /\ phase \in 1 .. 3
      /\ \A r \in Sources : down[r] = <<>> /\ up'[r] = <<>>
  BY RoundOver DEF IInv, RoundInv
<1>2. /\ responses' = 0 /\ phase' = 4 /\ DOMAIN candidates' = {}
      /\ UNCHANGED <<val, result, T1>>
  BY <1>1 DEF EndOfRound, Complete, ProcessEnd
<1>3. val \in [Sources -> [Items -> 0 .. MaxVal]] /\ result \in [Items -> Nat]
  BY DEF TypeInv, StateTypes
<1>4. /\ \A i \in Items : result[i] \in {0, Total(i)}
      /\ Large => Cardinality({i \in Items : result[i] > 0}) >= K
  <2>1. CASE phase = 3
    <3>1. PICK D \in SUBSET preds, q \in SUBSET Items : Delivered(D) /\ LastRound(D, q)
      BY <2>1 DEF AnswerInv
    <3>2. D = preds
      BY <3>1, AllDelivered
    <3>3. \A i \in Items : result[i] = IF i \in q THEN Total(i) ELSE 0
      BY ZenonT(20), <1>1, <1>3, <3>1, <3>2, TotalOf DEF LastRound
    <3>4. ASSUME NEW i \in q PROVE result[i] > 0
      <4>1. PICK r \in preds : val[r][i] > 0
        BY <3>1 DEF LastRound
      <4>2. PICK P \in SUBSET preds : P = preds \ {r}
        OBVIOUS
      <4>3. P \cup {r} = preds /\ r \in preds \ P /\ i \in Items
        BY <4>1, <4>2
      <4>4. Part(i, P \cup {r}) = Part(i, P) + val[r][i] /\ Part(i, P) \in Nat
        BY <1>1, <1>3, <4>3, TotalOf
      <4>5. Total(i) = Part(i, preds)
        BY <1>1, <1>3, TotalOf
      <4>6. val[r][i] \in Nat
        BY SMTT(20), Z3T(20), SMTT(30), <1>1, <1>3, <4>3
      <4>7. Total(i) = Part(i, P) + val[r][i]
        BY <4>3, <4>4, <4>5
      <4>8. Total(i) > 0
        BY <4>1, <4>4, <4>6, <4>7
      <4> QED
        BY <3>3, <4>8
    <3>5. ASSUME Large PROVE Cardinality({i \in Items : result[i] > 0}) >= K
      <4>1. PICK R \in SUBSET Items : R = {i \in Items : result[i] > 0}
        OBVIOUS
      <4>2. q \in SUBSET R /\ IsFiniteSet(R) /\ K \in Nat
        BY <3>4, <4>1, TputAssumption, FS_Subset
      <4>3. Cardinality(q) <= Cardinality(R) /\ Cardinality(q) \in Nat /\ Cardinality(R) \in Nat
        BY <4>2, FS_Subset, FS_CardinalityType
      <4>4. Cardinality(q) >= K
        BY <3>1, <3>5 DEF LastRound
      <4> QED
        BY SMTT(20), Z3T(20), SMTT(30), <4>1, <4>2, <4>3, <4>4
    <3> QED
      BY <3>3, <3>5
  <2>2. CASE phase # 3
    <3>1. DOMAIN candidates = {} /\ phase < 3
      BY SMTT(20), Z3T(20), SMTT(30), <1>1, <2>2
    <3>2. ~Wide
      BY SMTT(20), Z3T(20), SMTT(30), <3>1, FS_EmptySet, TputAssumption DEF Wide
    <3>3. ~Large
      BY <1>1, <3>2, LargeIsWide
    <3>4. \A i \in Items : result[i] = 0
      BY <3>1 DEF AnswerInv
    <3> QED
      BY <3>3, <3>4
  <2> QED
    BY <2>1, <2>2
<1>5. ExactTotals'
  <2>1. \A i \in Items : Total(i)' = Total(i)
    BY ZenonT(20), <1>1, <1>2, PartFixed
  <2> QED
    BY <1>2, <1>4, <2>1 DEF ExactTotals
<1>6. AnswerSize'
  <2>1. \A r : Present(r)' = Present(r)
    BY <1>1, <1>2, PromiseFixed
  <2> QED
    BY ZenonT(20), <1>1, <1>2, <1>4, <2>1 DEF AnswerSize, Large
<1>7. Sound'
  BY <1>2 DEF Sound
<1>8. \A r \in preds' : ~Answered(r)'
  BY SMTT(20), Z3T(20), SMTT(30), <1>1 DEF Answered
<1> QED
  BY <1>2, <1>5, <1>6, <1>7, <1>8 DEF AnswerInv

\* AnswerInv is inductive, given IInv and the types.
LEMMA AnswerKept == Spec => []AnswerInv
<1>1. Init => AnswerInv
  <2> SUFFICES ASSUME Init PROVE AnswerInv
    OBVIOUS
  <2>1. phase = 0 /\ preds = {} /\ DOMAIN candidates = {} /\ \A i \in Items : result[i] = 0
    BY DEF Init
  <2>2. Sound /\ ExactTotals /\ AnswerSize
    BY <2>1 DEF Sound, ExactTotals, AnswerSize
  <2> QED
    BY <2>1, <2>2 DEF AnswerInv
<1>2. IInv /\ TypeInv /\ AnswerInv /\ [Next]_vars => AnswerInv'
  <2> SUFFICES ASSUME IInv, TypeInv, AnswerInv, [Next]_vars PROVE AnswerInv'
    OBVIOUS
  <2>1. CASE UNCHANGED vars
    BY <2>1, AnswerFrame DEF vars
  <2>2. CASE StartPhase1
    BY <2>2, StartPhase1Answer
  <2>3. CASE EmitData
    BY <2>3, AnswerFrame DEF EmitData
  <2>4. ASSUME NEW s \in Sources, AddChain(s) \/ HandlerReturns(s) \/ StopPred(s) PROVE AnswerInv'
    BY <2>4, AnswerFrame DEF AddChain, HandlerReturns, StopPred
  <2>5. ASSUME NEW s \in Sources, ChainStopping(s) PROVE AnswerInv'
    BY <2>5, ChainStoppingAnswer
  <2>6. ASSUME NEW s \in Sources, MetaFromDownstream(s) PROVE AnswerInv'
    BY <2>6, MetaFromDownstreamAnswer
  <2>7. ASSUME NEW s \in Sources, ProcessData(s) PROVE AnswerInv'
    <3>1. phase \in {1, 2} \/ phase = 3
      BY SMTT(20), Z3T(20), SMTT(30), <2>7, Takes
    <3> QED
      BY ZenonT(20), <2>7, <3>1, CollectAnswer, DeliverAnswer
  <2>8. ASSUME NEW s \in Sources, ProcessEnd(s) PROVE AnswerInv'
    <3>1. CASE responses + 1 # Cardinality(preds)
      BY <2>8, <3>1, ProcessEndAnswer
    <3>2. CASE responses + 1 = Cardinality(preds)
      <4>1. EndOfRound /\ phase \in 1 .. 3
        BY <2>8, <3>2, RoundOver
      <4>2. CASE DOMAIN candidates = {}
        <5>1. Complete
          BY SMTT(20), Z3T(20), SMTT(30), <4>1, <4>2 DEF EndOfRound
        <5> QED
          BY ZenonT(20), <2>8, <3>2, <4>2, <5>1, CompleteAnswer
      <4>3. CASE DOMAIN candidates # {}
        <5>1. (phase = 1 /\ StartPhase2) \/ (phase = 2 /\ StartPhase3) \/ (phase = 3 /\ Complete)
          BY <4>1, <4>3 DEF EndOfRound
        <5> QED
          BY <2>8, <3>2, <4>3, <5>1, StartPhase2Answer, StartPhase3Answer, CompleteAnswer
      <4> QED
        BY <4>2, <4>3
    <3> QED
      BY <3>1, <3>2
  <2> QED
    BY ZenonT(20), <2>1, <2>2, <2>3, <2>4, <2>5, <2>6, <2>7, <2>8 DEF Next
<1> QED
  BY <1>1, <1>2, TypesKept, PTL DEF Spec

\* What the finished query has in the output cube is exact: nothing, or the value
\* summed over every source it was sent to.
THEOREM TotalsExact == Spec => []ExactTotals
<1>1. AnswerInv => ExactTotals
  BY DEF AnswerInv
<1> QED
  BY <1>1, AnswerKept, PTL

\* The bounds of start_phase_3, wrapped differences included, never leave fewer than K
\* items when a source alone has K.
THEOREM AnswerLarge == Spec => []AnswerSize
<1>1. AnswerInv => AnswerSize
  BY DEF AnswerInv
<1> QED
  BY <1>1, AnswerKept, PTL
=============================================================================
