--------------------------- MODULE DataplaneProofs ---------------------------
(***************************************************************************)
(* Proofs about Dataplane, for any chains, emissions and buffer size: the  *)
(* types, that nothing follows NO_MORE_DATA (NothingAfterEnd), that only a *)
(* failed connection can bring the sending node down (CrashNeedsBreak),    *)
(* and that the connection keeps Delivery (KeepsDelivery).                 *)
(***************************************************************************)
EXTENDS Dataplane, FiniteSetTheorems, TLAPS

USE ZenonT(3), SMTT(20), Z3T(20), ZenonT(20)

-----------------------------------------------------------------------------
(* The inductive invariant.                                                *)

\* The types, and the numbers of the tuples at hand.
TypeInv ==
  /\ TypeOK
  /\ \A c \in Chains : pc[c] \in {"wait", "buffer"} => next[c] >= 1

\* The chain that has the adaptor to itself where there is no template.
First == CHOOSE c \in Chains : TRUE

\* Without the template one chain alone runs, and a chain that ends is done.
StrandInv ==
  /\ \A c \in Chains : pc[c] \in {"closing", "ending", "unregister"} => c \in done
  /\ ~template => /\ chains \cup running \cup stopReq \cup table \subseteq {First}
                  /\ \A c \in Chains \ {First} : c \in done /\ pc[c] = "idle"

\* Before the connection is made, and before the far end has answered.
FreshInv ==
  /\ conn = "none" => /\ sock \in {"new", "closed"} /\ cb = "none" /\ ~ready /\ ~broken
                      /\ out = <<>> /\ far = "none"
                      /\ \A c \in Chains : pc[c] \notin {"closing", "ending"}
  /\ sock = "new" => conn = "none"
  /\ ~ready => buf = <<>> /\ accepted = <<>> /\ timer = 0 /\ \A c \in Chains : pc[c] # "buffer"

\* Every chain has stopped, and is through with chain_stopping.
AllEnded == done = Chains /\ \A c \in Chains : pc[c] \in {"idle", "unregister"}

\* Once the last chain has closed the socket, no chain emits or closes again, as
\* long as no failure makes a sender close it.
ClosedInv ==
  ~broken /\ conn # "none" /\ sock \in {"shut", "closed"} =>
    AllEnded

\* As long as the connection has not failed nobody thinks that it has, and an
\* orderly close leaves nothing to be sent.
OrderlyInv ==
  ~broken =>
    /\ conn # "null" /\ ~stopping /\ sock # "down" /\ ~crashed
    /\ \A th \in Threads : bk[th] = "out"
    /\ cleanups => sock = "closed"
    /\ conn = "set" /\ sock # "up" => buf = <<>>

\* NO_MORE_DATA is among the messages o.
Ended(o) == \E i \in 1 .. Len(o) : o[i].kind = "end"

\* NO_MORE_DATA is last, and neither it nor the first message carries items.
WellFormed(o) ==
  \A i \in 1 .. Len(o) : /\ o[i].kind \in {"connect", "end"} => o[i].items = <<>>
                         /\ o[i].kind = "end" => i = Len(o)

\* The messages in flight: the chain's name first, NO_MORE_DATA last and from a
\* socket that has been closed.
LinkInv ==
  /\ broken => out = <<>>
  /\ far = "none" => \/ out # <<>> /\ out[1].kind = "connect"
                     \/ out = <<>> /\ (broken \/ sock \in {"new", "closed"})
  /\ far = "ended" => out = <<>>
  /\ WellFormed(out)
  /\ far = "ended" \/ Ended(out) => conn # "none" /\ sock \in {"shut", "closed"}

\* Nobody has anything to send behind NO_MORE_DATA, failure or not.
EndedInv == far = "ended" \/ Ended(out) => AllEnded

\* s is what follows the first a items of acc.
Matches(s, acc, a) == a + Len(s) <= Len(acc) /\ \A j \in 1 .. Len(s) : s[j] = acc[a + j]

\* acc is d, then the items of the messages o, then rest; f has where in acc each
\* message ends.
Cuts(f, d, o, rest, acc) ==
  /\ f[0] = Len(d)
  /\ \A i \in 1 .. Len(o) : /\ f[i] = f[i - 1] + Len(o[i].items)
                            /\ Matches(o[i].items, acc, f[i - 1])
  /\ Matches(rest, acc, f[Len(o)]) /\ f[Len(o)] + Len(rest) = Len(acc)
Pipe(d, o, rest, acc) ==
  /\ Matches(d, acc, 0)
  /\ \E f \in [0 .. Len(o) -> 0 .. Len(acc)] : Cuts(f, d, o, rest, acc)

\* What was accepted is what was delivered, then what is in flight, then what is in
\* the buffer; a failure or a close may lose the end, but not behind NO_MORE_DATA.
DataInv ==
  /\ \E rest \in Seq(Items) : Pipe(delivered, out, rest, accepted)
  /\ ~broken /\ sock \notin {"shut", "closed"} => Pipe(delivered, out, buf, accepted)
  /\ Ended(out) => Pipe(delivered, out, <<>>, accepted)

IInv ==
  /\ TypeInv /\ StrandInv /\ FreshInv /\ ClosedInv /\ OrderlyInv
  /\ LinkInv /\ EndedInv /\ DataInv

-----------------------------------------------------------------------------
(* Type correctness.                                                       *)

Modes ==
  /\ conn \in {"none", "set", "null"} /\ sock \in {"new", "up", "down", "shut", "closed"}
  /\ cb \in {"none", "ready", "noop"} /\ control \in {"idle", "locked", "await", "done"}
  /\ far \in {"none", "pending", "live", "ended", "broken"}

Flags ==
  /\ ready \in BOOLEAN /\ stopping \in BOOLEAN /\ timer \in Nat /\ noWindow \in BOOLEAN
  /\ template \in BOOLEAN /\ inMap \in BOOLEAN /\ cleanups \in BOOLEAN /\ broken \in BOOLEAN
  /\ dropped \in BOOLEAN /\ exists \in BOOLEAN /\ crashed \in BOOLEAN

ChainSets ==
  /\ chains \subseteq Chains /\ done \subseteq Chains /\ running \subseteq Chains
  /\ stopReq \subseteq Chains /\ table \subseteq Chains

StrandTypes ==
  /\ pc \in [Chains -> {"idle", "wait", "buffer", "closing", "ending", "unregister"}]
  /\ next \in [Chains -> 0 .. Emissions]
  /\ \A c \in Chains : pc[c] \in {"wait", "buffer"} => next[c] >= 1

BreakTypes == bk \in [Threads -> Steps] /\ todo \in [Threads -> SUBSET Chains]

SeqTypes ==
  /\ buf \in Seq(Items) /\ Len(buf) <= BufMax /\ out \in Seq(Messages)
  /\ back \in Seq({"ready", "status"})
  /\ accepted \in Seq(Items) /\ delivered \in Seq(Items)

\* The type invariant is the conjunction of its parts.
LEMMA TypeParts == TypeInv <=> Modes /\ Flags /\ ChainSets /\ StrandTypes /\ BreakTypes /\ SeqTypes
<1>1. {ready, stopping, noWindow, template, inMap, cleanups, broken, dropped, exists,
       crashed} \subseteq BOOLEAN
      <=> /\ ready \in BOOLEAN /\ stopping \in BOOLEAN
          /\ noWindow \in BOOLEAN /\ template \in BOOLEAN /\ inMap \in BOOLEAN
          /\ cleanups \in BOOLEAN /\ broken \in BOOLEAN /\ dropped \in BOOLEAN
          /\ exists \in BOOLEAN /\ crashed \in BOOLEAN
  BY SMTT(20), Z3T(20), SMTT(30)
<1>2. chains \cup done \cup running \cup stopReq \cup table \subseteq Chains <=> ChainSets
  BY DEF ChainSets
<1> QED BY <1>1, <1>2 DEF TypeInv, TypeOK, Modes, Flags, StrandTypes, BreakTypes, SeqTypes

\* The messages that are sent.
LEMMA MsgTypes ==
  ASSUME NEW items \in Seq(Items), NEW kind \in {"connect", "data", "marker", "end"}
  PROVE  /\ Msg(kind, items) \in Messages
         /\ Msg(kind, items).kind = kind /\ Msg(kind, items).items = items
  BY DEF Msg, Messages

\* A tuple that process adds, and the marker, are items.
LEMMA ItemTypes ==
  ASSUME StrandTypes, NEW c \in Chains, pc[c] \in {"wait", "buffer"}, NEW mark \in BOOLEAN
  PROVE  <<c, next[c], mark>> \in Items
<1>1. next[c] \in 1 .. Emissions
  BY SMTT(20), Z3T(20), SMTT(30), DataplaneAssumption DEF StrandTypes
<1> QED BY <1>1 DEF Items

\* Init has the types.
LEMMA InitTypes == Init => TypeInv
<1> SUFFICES ASSUME Init PROVE TypeInv
  OBVIOUS
<1>1. Modes /\ Flags
  BY DEF Init, Modes, Flags
<1>2. First \in Chains
  BY DataplaneAssumption DEF First
<1>3. ChainSets
  BY <1>2 DEF Init, ChainSets, First
<1>4. StrandTypes
  BY DataplaneAssumption DEF Init, StrandTypes
<1>5. BreakTypes
  BY DEF Init, BreakTypes, Steps
<1>6. <<>> \in Seq(Items) /\ <<>> \in Seq(Messages) /\ <<>> \in Seq({"ready", "status"}) /\ Len(<<>>) = 0
  OBVIOUS
<1>7. SeqTypes
  BY <1>6, DataplaneAssumption DEF Init, SeqTypes
<1> QED BY <1>1, <1>3, <1>4, <1>5, <1>7, TypeParts

\* The steps that concern the chains.
StrandActs ==
  \/ \E th \in Threads : BrokenStop(th) \/ BrokenUnregister(th) \/ BrokenClear(th)
  \/ \E c \in Chains : \/ Process(c) \/ WaitReady(c) \/ Buffer(c) \/ StopChain(c)
                       \/ ChainStopping(c) \/ Unregister(c)
  \/ PurgeChains \/ PurgeReturns

\* The other steps.
OtherActs ==
  \/ ConnCreated \/ ChainConnect \/ CreatedChain \/ ConnReady \/ Break \/ SockFails
  \/ ConnReadyError \/ ForceSend \/ CloseSocket \/ StopComputation \/ DeferredCleanup
  \/ GotData \/ GotError
  \/ \E th \in Threads : BrokenMark(th) \/ BrokenReset(th)

\* Every step is one of these or stutters, and only the former touch the chains.
LEMMA ActCases ==
  ASSUME [Next]_vars
  PROVE  /\ StrandActs \/ OtherActs \/ UNCHANGED vars
         /\ StrandActs \/ UNCHANGED <<template, pc, next, done, running, stopReq, chains, table>>
<1>1. CASE UNCHANGED vars
  BY <1>1 DEF vars, rda, strands, tables
<1>2. CASE Next
  <2>1. StrandActs \/ OtherActs
    BY <1>2 DEF Next, Work, SocketStep, BrokenStep, StrandStep, StrandActs, OtherActs
  <2>2. ASSUME OtherActs PROVE UNCHANGED <<template, pc, next, done, running, stopReq, chains, table>>
    <3>1. CASE ConnCreated \/ ChainConnect \/ CreatedChain \/ ConnReady
      BY <3>1 DEF ConnCreated, ChainConnect, CreatedChain, ConnReady, rda, strands, tables
    <3>2. CASE Break \/ SockFails \/ ConnReadyError \/ StopComputation \/ DeferredCleanup
      BY <3>2 DEF Break, SockFails, ConnReadyError, StopComputation, DeferredCleanup, rda,
                  strands, tables
    <3>3. CASE ForceSend \/ CloseSocket \/ GotData \/ GotError
      BY <3>3 DEF ForceSend, CloseSocket, GotData, GotError, rda, strands, tables
    <3>4. CASE \E th \in Threads : BrokenMark(th) \/ BrokenReset(th)
      BY <3>4 DEF BrokenMark, BrokenReset, rda, strands, tables
    <3> QED BY <2>2, <3>1, <3>2, <3>3, <3>4 DEF OtherActs
  <2> QED BY <2>1, <2>2
<1> QED BY <1>1, <1>2

\* The sets of chains keep their type.
LEMMA ChainSetsStep ==
  ASSUME TypeInv, [Next]_vars
  PROVE  ChainSets'
<1> USE DEF ChainSets, strands, tables, rda
<1>0. ChainSets
  BY TypeParts
<1>1. CASE UNCHANGED <<template, pc, next, done, running, stopReq, chains, table>>
  BY <1>0, <1>1
<1>2. ASSUME NEW th \in Threads, BrokenStop(th) PROVE ChainSets'
  <2>1. \/ UNCHANGED <<running, stopReq, done>>
        \/ /\ Current(th) \in chains /\ running' = running \ {Current(th)}
           /\ stopReq' \in {stopReq, stopReq \cup {Current(th)}}
           /\ done' \in {done, done \cup {Current(th)}}
    BY <1>2 DEF BrokenStop
  <2>2. UNCHANGED <<chains, table>>
    BY <1>2 DEF BrokenStop
  <2> QED BY <1>0, <2>1, <2>2
<1>3. ASSUME NEW th \in Threads, BrokenUnregister(th) \/ BrokenClear(th) PROVE ChainSets'
  BY <1>0, <1>3 DEF BrokenUnregister, BrokenClear
<1>4. ASSUME NEW c \in Chains, Process(c) \/ WaitReady(c) \/ Buffer(c) PROVE ChainSets'
  BY <1>0, <1>4 DEF Process, WaitReady, Buffer
<1>5. ASSUME NEW c \in Chains, StopChain(c) \/ ChainStopping(c) \/ Unregister(c) PROVE ChainSets'
  BY <1>0, <1>5 DEF StopChain, ChainStopping, Unregister
<1>6. CASE PurgeChains \/ PurgeReturns
  BY <1>0, <1>6 DEF PurgeChains, PurgeReturns
<1> QED BY <1>1, <1>2, <1>3, <1>4, <1>5, <1>6, ActCases DEF StrandActs

\* A chain that may emit has not used up its emissions.
LEMMA EmissionLeft ==
  ASSUME TypeInv, Cardinality(Emitted) < Emissions, NEW c \in Chains
  PROVE  next[c] + 1 \in 0 .. Emissions
<1> DEFINE Mine == {c} \X (1 .. Emissions)
<1>0. next \in [Chains -> 0 .. Emissions] /\ Emissions \in Nat /\ IsFiniteSet(Chains)
  BY DataplaneAssumption, TypeParts DEF StrandTypes
<1> SUFFICES ASSUME next[c] = Emissions PROVE FALSE
  BY <1>0
<1>1. IsFiniteSet(1 .. Emissions) /\ Cardinality(1 .. Emissions) = Emissions
  BY SMTT(20), Z3T(20), SMTT(30), <1>0, FS_Interval
<1>2. IsFiniteSet({c}) /\ Cardinality({c}) = 1
  BY FS_Singleton
<1>3. Cardinality(Mine) = Cardinality({c}) * Cardinality(1 .. Emissions)
  BY <1>1, <1>2, FS_Product
<1>4. IsFiniteSet(Chains \X (1 .. Emissions))
  BY <1>0, <1>1, FS_Product
<1>5. IsFiniteSet(Emitted)
  BY <1>4, FS_Subset DEF Emitted
<1>6. Mine \subseteq Emitted
  BY SMTT(20), Z3T(20), SMTT(30), <1>0 DEF Emitted
<1>7. Cardinality(Mine) <= Cardinality(Emitted)
  BY <1>5, <1>6, FS_Subset
<1>8. Cardinality(Emitted) \in Nat
  BY <1>5, FS_CardinalityType
<1> QED BY SMTT(20), Z3T(20), SMTT(30), <1>0, <1>1, <1>2, <1>3, <1>7, <1>8

\* The strands keep their types, and a tuple at hand has a number.
LEMMA StrandTypesStep ==
  ASSUME TypeInv, [Next]_vars
  PROVE  StrandTypes'
<1> USE DEF strands
<1>0. StrandTypes
  BY TypeParts
<1>1. CASE UNCHANGED <<template, pc, next, done, running, stopReq, chains, table>>
  BY <1>0, <1>1 DEF StrandTypes
<1>2. ASSUME NEW th \in Threads, BrokenStop(th) \/ BrokenUnregister(th) \/ BrokenClear(th)
      PROVE  StrandTypes'
  BY <1>0, <1>2 DEF StrandTypes, BrokenStop, BrokenUnregister, BrokenClear
<1>3. ASSUME NEW c \in Chains, Process(c) PROVE StrandTypes'
  <2>1. next[c] + 1 \in 0 .. Emissions
    BY <1>3, EmissionLeft DEF Process
  <2> QED BY SMTT(20), Z3T(20), SMTT(30), <1>0, <1>3, <2>1, DataplaneAssumption DEF StrandTypes, Process
<1>4. ASSUME NEW c \in Chains, WaitReady(c) PROVE StrandTypes'
  BY <1>0, <1>4 DEF StrandTypes, WaitReady
<1>5. ASSUME NEW c \in Chains, Buffer(c) PROVE StrandTypes'
  BY <1>0, <1>5 DEF StrandTypes, Buffer
<1>6. ASSUME NEW c \in Chains, StopChain(c) PROVE StrandTypes'
  BY <1>0, <1>6 DEF StrandTypes, StopChain, AfterEnding
<1>7. ASSUME NEW c \in Chains, ChainStopping(c) \/ Unregister(c) PROVE StrandTypes'
  BY <1>0, <1>7 DEF StrandTypes, ChainStopping, Unregister, AfterEnding
<1>8. CASE PurgeChains \/ PurgeReturns
  BY <1>0, <1>8 DEF StrandTypes, PurgeChains, PurgeReturns
<1> QED BY <1>1, <1>2, <1>3, <1>4, <1>5, <1>6, <1>7, <1>8, ActCases DEF StrandActs

\* The threads in connection_broken keep their types.
LEMMA BreakTypesStep ==
  ASSUME TypeInv, [Next]_vars
  PROVE  BreakTypes'
<1> USE DEF breaking, Steps
<1>0. BreakTypes /\ ChainSets
  BY TypeParts
<1>1. CASE UNCHANGED <<bk, todo>>
  BY <1>0, <1>1 DEF BreakTypes
<1>2. ASSUME NEW th \in Threads, Enter(th) PROVE BreakTypes'
  BY <1>0, <1>2 DEF BreakTypes, Enter
<1>3. CASE UNCHANGED vars
  BY <1>1, <1>3 DEF vars
<1>4. CASE ConnCreated \/ ChainConnect \/ CreatedChain \/ ConnReady \/ Break \/ SockFails
  BY <1>1, <1>4 DEF ConnCreated, ChainConnect, CreatedChain, ConnReady, Break, SockFails
<1>5. CASE CloseSocket \/ StopComputation \/ DeferredCleanup \/ GotData \/ GotError
  BY <1>1, <1>5 DEF CloseSocket, StopComputation, DeferredCleanup, GotData, GotError
<1>6. CASE ConnReadyError \/ ForceSend
  BY <1>1, <1>2, <1>6 DEF ConnReadyError, ForceSend, SendFails, Threads
<1>7. ASSUME NEW th \in Threads, BrokenMark(th) \/ BrokenReset(th) \/ BrokenClear(th)
      PROVE  BreakTypes'
  BY <1>0, <1>7 DEF BreakTypes, ChainSets, BrokenMark, BrokenReset, BrokenClear
<1>8. ASSUME NEW th \in Threads, BrokenStop(th) \/ BrokenUnregister(th) PROVE BreakTypes'
  <2>1. bk' = bk \/ \E s \in Steps : bk' = [bk EXCEPT ![th] = s]
    BY <1>8 DEF BrokenStop, BrokenUnregister
  <2>2. todo' = todo \/ todo' = [todo EXCEPT ![th] = @ \ {Current(th)}]
    BY <1>8 DEF BrokenStop, BrokenUnregister
  <2> QED BY ZenonT(20), <1>0, <2>1, <2>2 DEF BreakTypes
<1>9. ASSUME NEW c \in Chains, Process(c) \/ WaitReady(c) \/ StopChain(c) \/ Unregister(c)
      PROVE  BreakTypes'
  BY <1>1, <1>9 DEF Process, WaitReady, StopChain, Unregister
<1>10. ASSUME NEW c \in Chains, Buffer(c) \/ ChainStopping(c) PROVE BreakTypes'
  <2>1. UNCHANGED <<bk, todo>> \/ Enter(c)
    BY <1>10 DEF Buffer, ChainStopping, SendFails
  <2> QED BY <1>1, <1>2, <2>1 DEF Threads
<1>11. CASE PurgeChains \/ PurgeReturns
  BY <1>1, <1>11 DEF PurgeChains, PurgeReturns
<1> QED BY ZenonT(20), <1>3, <1>4, <1>5, <1>6, <1>7, <1>8, <1>9, <1>10, <1>11, ActCases DEF StrandActs, OtherActs

\* The modes keep their types.
LEMMA ModesStep ==
  ASSUME TypeInv, [Next]_vars
  PROVE  Modes'
<1> USE DEF rda, tables, receiver
<1>0. Modes
  BY TypeParts
<1>1. CASE UNCHANGED vars
  BY <1>0, <1>1 DEF Modes, vars
<1>2. CASE ConnCreated \/ ChainConnect \/ CreatedChain
  BY <1>0, <1>2 DEF Modes, ConnCreated, ChainConnect, CreatedChain
<1>3. CASE ConnReady \/ Break \/ SockFails \/ ConnReadyError
  BY <1>0, <1>3 DEF Modes, ConnReady, Break, SockFails, ConnReadyError
<1>4. CASE StopComputation \/ PurgeChains \/ PurgeReturns \/ GotError
  BY <1>0, <1>4 DEF Modes, StopComputation, PurgeChains, PurgeReturns, GotError
<1>5. CASE DeferredCleanup \/ CloseSocket \/ GotData
  BY <1>0, <1>5 DEF Modes, DeferredCleanup, CloseSocket, GotData
<1>6. ASSUME NEW th \in Threads, BrokenStep(th) PROVE Modes'
  BY <1>0, <1>6 DEF Modes, BrokenStep, BrokenMark, BrokenReset, BrokenClear, BrokenStop,
                    BrokenUnregister
<1>7. ASSUME NEW c \in Chains, Process(c) \/ WaitReady(c) \/ StopChain(c) \/ Unregister(c)
      PROVE  Modes'
  BY <1>0, <1>7 DEF Modes, Process, WaitReady, StopChain, Unregister
<1>8. ASSUME NEW c \in Chains, Buffer(c) PROVE Modes'
  <2>1. UNCHANGED <<conn, cb, far, control>>
    BY <1>8 DEF Buffer
  <2>2. sock' \in {sock, "shut"}
    BY <1>8 DEF Buffer, SendFails
  <2> QED BY <1>0, <2>1, <2>2 DEF Modes
<1>9. ASSUME NEW c \in Chains, ChainStopping(c) PROVE Modes'
  BY <1>0, <1>9 DEF Modes, ChainStopping
<1>10. CASE ForceSend
  <2>1. UNCHANGED <<conn, cb, far, control>>
    BY <1>10 DEF ForceSend
  <2>2. sock' \in {sock, "shut"}
    BY <1>10 DEF ForceSend, SendFails
  <2> QED BY <1>0, <2>1, <2>2 DEF Modes
<1> QED
  BY ZenonT(20), <1>1, <1>2, <1>3, <1>4, <1>5, <1>6, <1>7, <1>8, <1>9, <1>10, ActCases
     DEF StrandActs, OtherActs, BrokenStep

\* The flags keep their types.
LEMMA FlagsStep ==
  ASSUME TypeInv, [Next]_vars
  PROVE  Flags'
<1> USE DEF rda, breaking, link, receiver
<1>0. Flags
  BY TypeParts
<1>1. CASE UNCHANGED vars
  BY ZenonT(20), <1>0, <1>1 DEF Flags, vars
<1>2. CASE ConnCreated \/ ChainConnect
  BY SMTT(20), Z3T(20), SMTT(30), <1>0, <1>2 DEF Flags, ConnCreated, ChainConnect
<1>3. CASE CreatedChain \/ ConnReady
  <2>1. CASE CreatedChain
    BY <1>0, <2>1 DEF Flags, CreatedChain
  <2>2. CASE ConnReady
    BY <1>0, <2>2 DEF Flags, ConnReady
  <2> QED BY <1>3, <2>1, <2>2
<1>4. CASE Break \/ SockFails
  <2>1. CASE Break
    BY <1>0, <2>1 DEF Flags, Break
  <2>2. CASE SockFails
    BY <1>0, <2>2 DEF Flags, SockFails
  <2> QED BY <1>4, <2>1, <2>2
<1>5. CASE ConnReadyError
  BY ZenonT(20), <1>0, <1>5 DEF Flags, ConnReadyError
<1>6. CASE StopComputation \/ PurgeChains \/ PurgeReturns \/ GotError
  BY SMTT(20), Z3T(20), SMTT(30), <1>0, <1>6 DEF Flags, StopComputation, PurgeChains, PurgeReturns, GotError
<1>7. CASE DeferredCleanup
  BY <1>0, <1>7 DEF Flags, DeferredCleanup
<1>8. CASE CloseSocket
  <2>1. PICK n \in 0 .. Len(out) : dropped' = (n < Len(out))
    BY <1>8 DEF CloseSocket
  <2> QED BY <1>0, <1>8, <2>1 DEF Flags, CloseSocket
<1>9. CASE GotData
  BY ZenonT(20), <1>0, <1>9 DEF Flags, GotData
<1>10. CASE ForceSend
  <2>1. UNCHANGED stopping
    BY <1>10 DEF ForceSend, SendFails
  <2>2. crashed' \in BOOLEAN
    BY <1>0, <1>10 DEF Flags, ForceSend, SendFails
  <2>3. timer' \in Nat /\ UNCHANGED <<rda, link, receiver>>
    BY <1>0, <1>10 DEF Flags, ForceSend
  <2> QED BY <1>0, <2>1, <2>2, <2>3 DEF Flags
<1>11. ASSUME NEW th \in Threads, BrokenMark(th) \/ BrokenReset(th) PROVE Flags'
  <2>1. CASE BrokenMark(th)
    BY <1>0, <2>1 DEF Flags, BrokenMark
  <2>2. CASE BrokenReset(th)
    BY <1>0, <2>2 DEF Flags, BrokenReset
  <2> QED BY <1>11, <2>1, <2>2
<1>12. ASSUME NEW th \in Threads, BrokenClear(th) PROVE Flags'
  BY <1>0, <1>12 DEF Flags, BrokenClear
<1>13. ASSUME NEW th \in Threads, BrokenStop(th) \/ BrokenUnregister(th) PROVE Flags'
  BY SMTT(20), Z3T(20), SMTT(30), <1>0, <1>13 DEF Flags, BrokenStop, BrokenUnregister
<1>14. ASSUME NEW c \in Chains, Process(c) \/ WaitReady(c) \/ StopChain(c) \/ Unregister(c)
       PROVE  Flags'
  BY SMTT(20), Z3T(20), SMTT(30), <1>0, <1>14 DEF Flags, Process, WaitReady, StopChain, Unregister
<1>15. ASSUME NEW c \in Chains, Buffer(c) PROVE Flags'
  <2>1. UNCHANGED stopping
    BY <1>15 DEF Buffer, SendFails
  <2>2. crashed' \in BOOLEAN
    BY <1>0, <1>15 DEF Flags, Buffer, SendFails
  <2>3. timer' \in Nat /\ noWindow' \in BOOLEAN
    <3>1. timer' \in {timer, timer + 1} /\ noWindow' \in BOOLEAN
      BY <1>0, <1>15 DEF Flags, Buffer
    <3>2. timer \in Nat
      BY <1>0 DEF Flags
    <3> QED BY <3>1, <3>2
  <2>4. UNCHANGED <<ready, template, inMap, cleanups, broken, dropped, exists>>
    BY <1>15 DEF Buffer
  <2> QED BY <1>0, <2>1, <2>2, <2>3, <2>4 DEF Flags
<1>16. ASSUME NEW c \in Chains, ChainStopping(c) PROVE Flags'
  <2>1. UNCHANGED stopping
    BY <1>16 DEF ChainStopping, SendFails
  <2>2. crashed' \in BOOLEAN
    BY <1>0, <1>16 DEF Flags, ChainStopping, SendFails
  <2>3. timer' \in Nat
    BY <1>0, <1>16 DEF Flags, ChainStopping
  <2>4. UNCHANGED <<ready, noWindow, template, inMap, cleanups, broken, dropped, exists>>
    BY <1>16 DEF ChainStopping
  <2> QED BY <1>0, <2>1, <2>2, <2>3, <2>4 DEF Flags
<1> QED
  BY ZenonT(20), <1>1, <1>2, <1>3, <1>4, <1>5, <1>6, <1>7, <1>8, <1>9, <1>10, <1>11, <1>12, <1>13, <1>14,
     <1>15, <1>16, ActCases DEF StrandActs, OtherActs

\* What is sent has the type of the messages in flight.
LEMMA TransmitTypes ==
  ASSUME SeqTypes, NEW ms \in Seq(Messages), Transmit(ms)
  PROVE  out' \in Seq(Messages)
  BY SMTT(20), Z3T(20), SMTT(30) DEF SeqTypes, Transmit

\* The queues, the buffer and the histories keep their types; the buffer keeps its bound.
LEMMA SeqTypesStep ==
  ASSUME TypeInv, [Next]_vars
  PROVE  SeqTypes'
<1> USE DEF link, receiver
<1>0. SeqTypes /\ StrandTypes /\ BufMax \in Nat
  BY TypeParts, DataplaneAssumption
<1>1. /\ <<>> \in Seq(Items) /\ <<>> \in Seq(Messages) /\ <<>> \in Seq({"ready", "status"})
      /\ Len(<<>>) = 0 /\ Len(<<>>) <= BufMax
  BY <1>0
<1>2. CASE UNCHANGED <<buf, out, back, accepted, delivered>>
  BY <1>0, <1>2 DEF SeqTypes
<1>3. CASE UNCHANGED vars
  BY <1>2, <1>3 DEF vars
<1>4. CASE SockFails \/ ConnReadyError \/ StopComputation \/ DeferredCleanup \/ GotError
  BY <1>2, <1>4 DEF SockFails, ConnReadyError, StopComputation, DeferredCleanup, GotError
<1>5. ASSUME NEW th \in Threads, BrokenStep(th) PROVE SeqTypes'
  BY <1>2, <1>5 DEF BrokenStep, BrokenMark, BrokenReset, BrokenClear, BrokenStop, BrokenUnregister
<1>6. ASSUME NEW c \in Chains, Process(c) \/ WaitReady(c) \/ StopChain(c) \/ Unregister(c)
      PROVE  SeqTypes'
  BY <1>2, <1>6 DEF Process, WaitReady, StopChain, Unregister
<1>7. CASE PurgeChains \/ PurgeReturns
  BY <1>2, <1>7 DEF PurgeChains, PurgeReturns
<1>8. CASE ConnCreated
  <2>1. <<Msg("connect", <<>>)>> \in Seq(Messages)
    <3>1. Msg("connect", <<>>) \in Messages
      BY <1>1, MsgTypes
    <3> QED BY <3>1
  <2> QED BY <1>0, <1>8, <2>1 DEF SeqTypes, ConnCreated
<1>9. CASE ChainConnect
  <2>1. Tail(out) \in Seq(Messages) /\ Append(back, "ready") \in Seq({"ready", "status"})
    BY <1>0, <1>9 DEF SeqTypes, ChainConnect
  <2> QED BY <1>0, <1>9, <2>1 DEF SeqTypes, ChainConnect
<1>10. CASE CreatedChain \/ ConnReady
  <2>1. Append(back, "ready") \in Seq({"ready", "status"})
    BY <1>0 DEF SeqTypes
  <2>2. back # <<>> => Tail(back) \in Seq({"ready", "status"})
    BY <1>0 DEF SeqTypes
  <2> QED BY <1>0, <1>10, <2>1, <2>2 DEF SeqTypes, CreatedChain, ConnReady
<1>11. CASE Break
  BY <1>0, <1>1, <1>11 DEF SeqTypes, Break
<1>12. CASE CloseSocket
  <2>1. PICK n \in 0 .. Len(out) : out' = SubSeq(out, 1, n)
    BY <1>12 DEF CloseSocket
  <2>2. out' \in Seq(Messages)
    BY <1>0, <2>1 DEF SeqTypes
  <2> QED BY <1>0, <1>12, <2>2 DEF SeqTypes, CloseSocket
<1>13. CASE GotData
  <2>1. Head(out) \in Messages /\ Tail(out) \in Seq(Messages)
    BY <1>0, <1>13 DEF SeqTypes, GotData
  <2>2. delivered' \in Seq(Items)
    BY SMTT(20), Z3T(20), SMTT(30), <1>0, <1>13, <2>1 DEF SeqTypes, GotData, Messages
  <2>3. back' \in Seq({"ready", "status"})
    BY <1>0, <1>13 DEF SeqTypes, GotData
  <2> QED BY <1>0, <1>13, <2>1, <2>2, <2>3 DEF SeqTypes, GotData
<1>14. CASE ForceSend
  <2>1. <<Msg("data", buf)>> \in Seq(Messages)
    BY SMTT(20), Z3T(20), SMTT(30), <1>0, MsgTypes DEF SeqTypes
  <2>2. out' = out \/ Transmit(<<Msg("data", buf)>>)
    BY <1>14 DEF ForceSend
  <2>3. out' \in Seq(Messages)
    BY <1>0, <2>1, <2>2, TransmitTypes DEF SeqTypes
  <2>4. buf' \in {buf, <<>>} /\ UNCHANGED <<back, accepted, delivered>>
    BY <1>14 DEF ForceSend
  <2> QED BY <1>0, <1>1, <2>3, <2>4 DEF SeqTypes
<1>15. ASSUME NEW c \in Chains, Buffer(c) PROVE SeqTypes'
  <2> DEFINE tuple == <<c, next[c], FALSE>>
             end == <<c, next[c], TRUE>>
             all == Append(buf, tuple)
  <2>1. tuple \in Items /\ end \in Items
    BY <1>0, <1>15, ItemTypes DEF Buffer
  <2>2. all \in Seq(Items) /\ <<end>> \in Seq(Items) /\ <<tuple>> \in Seq(Items)
    BY <1>0, <2>1 DEF SeqTypes
  <2>3. UNCHANGED <<back, delivered>>
    BY <1>15 DEF Buffer
  <2>4. \/ UNCHANGED <<accepted, buf, out>>
        \/ \E mark \in BOOLEAN :
             LET marker == IF mark THEN <<end>> ELSE <<>> IN
             /\ accepted' = accepted \o <<tuple>> \o marker
             /\ buf' = <<>> \/ (buf' = all /\ Len(all) <= BufMax)
             /\ \/ out' = out
                \/ Transmit(<<Msg("data", all)>> \o (IF mark THEN <<Msg("marker", marker)>> ELSE <<>>))
    <3>0. Len(all) \in Nat
      BY <2>2
    <3> HIDE DEF all, tuple
    <3>1. \A mark \in BOOLEAN : MustSend(all, mark) \/ Len(all) <= BufMax
      BY <3>0, <1>0 DEF MustSend
    <3> QED BY <1>15, <3>1 DEF Buffer, all, tuple
  <2>5. CASE UNCHANGED <<accepted, buf, out>>
    BY <1>2, <2>3, <2>5
  <2>6. ASSUME NEW mark \in BOOLEAN, NEW marker, marker = IF mark THEN <<end>> ELSE <<>>,
               accepted' = accepted \o <<tuple>> \o marker,
               buf' = <<>> \/ (buf' = all /\ Len(all) <= BufMax),
               \/ out' = out
               \/ Transmit(<<Msg("data", all)>> \o (IF mark THEN <<Msg("marker", marker)>> ELSE <<>>))
        PROVE  SeqTypes'
    <3> HIDE DEF all, tuple, end
    <3>1. marker \in Seq(Items)
      BY <1>1, <2>2, <2>6
    <3>2. accepted' \in Seq(Items)
      BY SMTT(20), Z3T(20), SMTT(30), <1>0, <2>2, <2>6, <3>1 DEF SeqTypes
    <3>3. Msg("data", all) \in Messages /\ Msg("marker", marker) \in Messages
      BY <2>2, <3>1, MsgTypes
    <3>4. <<Msg("data", all)>> \o (IF mark THEN <<Msg("marker", marker)>> ELSE <<>>) \in Seq(Messages)
      BY <3>3
    <3>5. out' \in Seq(Messages)
      BY <1>0, <2>6, <3>4, TransmitTypes DEF SeqTypes
    <3> QED BY ZenonT(20), <1>0, <1>1, <2>2, <2>3, <2>6, <3>2, <3>5 DEF SeqTypes
  <2> QED BY <2>4, <2>5, <2>6
<1>16. ASSUME NEW c \in Chains, ChainStopping(c) PROVE SeqTypes'
  <2>1. Msg("end", <<>>) \in Messages /\ Msg("data", buf) \in Messages
    BY <1>0, <1>1, MsgTypes DEF SeqTypes
  <2>2. Farewell \in Seq(Messages)
    BY <1>1, <2>1 DEF Farewell, LastData
  <2>3. (out' = out \/ Transmit(Farewell)) /\ buf' \in {buf, <<>>}
    BY <1>16 DEF ChainStopping
  <2>4. out' \in Seq(Messages)
    BY <1>0, <2>2, <2>3, TransmitTypes DEF SeqTypes
  <2>5. UNCHANGED <<back, accepted, delivered>>
    BY <1>16 DEF ChainStopping
  <2> QED BY <1>0, <1>1, <2>3, <2>4, <2>5 DEF SeqTypes
<1> QED
  BY <1>3, <1>4, <1>5, <1>6, <1>7, <1>8, <1>9, <1>10, <1>11, <1>12, <1>13, <1>14, <1>15, <1>16,
     ActCases DEF StrandActs, OtherActs, BrokenStep

\* Every step keeps the types.
LEMMA TypesStep ==
  ASSUME TypeInv, [Next]_vars
  PROVE  TypeInv'
<1>1. (TypeInv <=> Modes /\ Flags /\ ChainSets /\ StrandTypes /\ BreakTypes /\ SeqTypes)'
  BY TypeParts, PTL
<1> QED
  BY <1>1, ModesStep, FlagsStep, ChainSetsStep, StrandTypesStep, BreakTypesStep, SeqTypesStep

-----------------------------------------------------------------------------
(* The chains, the socket and the failure of the connection.               *)

\* A step keeps what StrandInv says of the chains.
LEMMA StrandStays ==
  ASSUME TypeInv, StrandInv, [Next]_vars
  PROVE  StrandInv'
<1> USE DEF strands, tables, rda
<1>0. StrandTypes /\ ChainSets /\ template \in BOOLEAN
  BY TypeParts DEF Flags
<1>1. CASE UNCHANGED <<template, pc, next, done, running, stopReq, chains, table>>
  BY <1>1 DEF StrandInv
<1>2. ASSUME NEW th \in Threads, BrokenStop(th) PROVE StrandInv'
  <2>1. \/ UNCHANGED <<running, stopReq, done>>
        \/ /\ Current(th) \in chains /\ running' = running \ {Current(th)}
           /\ stopReq' \in {stopReq, stopReq \cup {Current(th)}}
           /\ done' \in {done, done \cup {Current(th)}}
    BY <1>2 DEF BrokenStop
  <2>2. UNCHANGED <<chains, table, template, pc>>
    BY <1>2 DEF BrokenStop
  <2> QED BY <2>1, <2>2 DEF StrandInv
<1>3. ASSUME NEW th \in Threads, BrokenUnregister(th) \/ BrokenClear(th) PROVE StrandInv'
  BY <1>3 DEF StrandInv, BrokenUnregister, BrokenClear
<1>4. ASSUME NEW c \in Chains, Process(c) PROVE StrandInv'
  BY <1>0, <1>4 DEF StrandInv, StrandTypes, Process
<1>5. ASSUME NEW c \in Chains, WaitReady(c) PROVE StrandInv'
  BY <1>0, <1>5 DEF StrandInv, StrandTypes, WaitReady
<1>6. ASSUME NEW c \in Chains, Buffer(c) PROVE StrandInv'
  <2>1. UNCHANGED <<template, done, running, stopReq, chains, table>>
    BY <1>6 DEF Buffer
  <2>2. pc[c] = "buffer" /\ pc' \in {pc, [pc EXCEPT ![c] = "idle"]}
    BY <1>6 DEF Buffer
  <2> QED BY <1>0, <2>1, <2>2 DEF StrandInv, StrandTypes
<1>7. ASSUME NEW c \in Chains, StopChain(c) PROVE StrandInv'
  <2>1. /\ UNCHANGED <<template, running, chains, table>>
        /\ done' = done \cup {c} /\ stopReq' \subseteq stopReq
        /\ c \in stopReq \/ c \notin done
        /\ \E s \in {"idle", "unregister", "closing", "ending"} : pc' = [pc EXCEPT ![c] = s]
    BY <1>7 DEF StopChain, AfterEnding
  <2> QED BY <1>0, <2>1 DEF StrandInv, StrandTypes
<1>8. ASSUME NEW c \in Chains, ChainStopping(c) PROVE StrandInv'
  <2>1. /\ UNCHANGED <<template, running, table, done>>
        /\ chains' \subseteq chains /\ stopReq' \subseteq stopReq
        /\ pc[c] \in {"closing", "ending"}
        /\ \E s \in {"idle", "unregister"} : pc' = [pc EXCEPT ![c] = s]
    BY <1>8 DEF ChainStopping, AfterEnding
  <2> QED BY <1>0, <2>1 DEF StrandInv, StrandTypes
<1>9. ASSUME NEW c \in Chains, Unregister(c) PROVE StrandInv'
  BY <1>0, <1>9 DEF StrandInv, StrandTypes, Unregister
<1>10. CASE PurgeChains \/ PurgeReturns
  BY <1>10 DEF StrandInv, PurgeChains, PurgeReturns
<1> QED
  BY ZenonT(20), <1>1, <1>2, <1>3, <1>4, <1>5, <1>6, <1>7, <1>8, <1>9, <1>10, ActCases DEF StrandActs

\* Who sends has a connection, and as long as it has not failed it is up.
LEMMA SenderUp ==
  ASSUME TypeInv, FreshInv, ClosedInv, OrderlyInv,
         buf # <<>> \/ \E c \in Chains : pc[c] \in {"buffer", "closing", "ending"}
  PROVE  conn # "none" /\ (~broken => conn = "set" /\ sock = "up")
<1>0. Modes
  BY TypeParts
<1>1. conn # "none"
  BY DEF FreshInv
<1>2. ASSUME ~broken, sock # "up" PROVE FALSE
  <2>1. conn = "set" /\ sock \in {"shut", "closed"}
    BY <1>0, <1>1, <1>2 DEF OrderlyInv, FreshInv, Modes
  <2>2. buf = <<>>
    BY <1>2, <2>1 DEF OrderlyInv
  <2> QED BY <1>1, <1>2, <2>1, <2>2 DEF ClosedInv, AllEnded
<1> QED BY <1>0, <1>1, <1>2 DEF Modes, OrderlyInv

\* A thread that is in connection_broken has a connection that failed.
LEMMA BreakerBroken ==
  ASSUME FreshInv, OrderlyInv, NEW th \in Threads, bk[th] # "out"
  PROVE  broken /\ conn # "none" /\ sock # "new"
  BY DEF FreshInv, OrderlyInv

\* A failure stays.
LEMMA BrokenStays == broken /\ [Next]_vars => broken'
<1> SUFFICES ASSUME broken, [Next]_vars PROVE broken'
  OBVIOUS
<1> USE DEF link
<1>1. CASE ConnCreated \/ ChainConnect \/ CreatedChain \/ ConnReady \/ Break \/ SockFails
  BY <1>1 DEF ConnCreated, ChainConnect, CreatedChain, ConnReady, Break, SockFails
<1>2. CASE ConnReadyError \/ ForceSend \/ CloseSocket \/ StopComputation \/ DeferredCleanup
  BY <1>2 DEF ConnReadyError, ForceSend, CloseSocket, StopComputation, DeferredCleanup
<1>3. CASE GotData \/ GotError \/ PurgeChains \/ PurgeReturns \/ UNCHANGED vars
  BY <1>3 DEF GotData, GotError, PurgeChains, PurgeReturns, vars
<1>4. ASSUME NEW th \in Threads, BrokenStep(th) PROVE broken'
  BY <1>4 DEF BrokenStep, BrokenMark, BrokenReset, BrokenStop, BrokenUnregister, BrokenClear
<1>5. ASSUME NEW c \in Chains, \/ Process(c) \/ WaitReady(c) \/ Buffer(c) \/ StopChain(c)
                              \/ ChainStopping(c) \/ Unregister(c)
      PROVE  broken'
  BY <1>5 DEF Process, WaitReady, Buffer, StopChain, ChainStopping, Unregister
<1> QED BY ZenonT(20), <1>1, <1>2, <1>3, <1>4, <1>5, ActCases DEF StrandActs, OtherActs, BrokenStep

\* When every chain has stopped and the socket is closed, it stays so.
LEMMA EndedStays ==
  ASSUME TypeInv, AllEnded, sock \in {"shut", "closed"}, [Next]_vars
  PROVE  AllEnded'
<1>0. StrandTypes /\ ChainSets /\ ChainSets'
  BY TypeParts, ChainSetsStep
<1>1. CASE UNCHANGED <<done, pc>>
  BY <1>1 DEF AllEnded
<1>2. ASSUME NEW th \in Threads, BrokenStop(th) \/ BrokenUnregister(th) \/ BrokenClear(th)
      PROVE  AllEnded'
  <2>1. done \subseteq done' /\ UNCHANGED pc
    BY <1>2 DEF BrokenStop, BrokenUnregister, BrokenClear, strands
  <2> QED BY <1>0, <2>1 DEF AllEnded, ChainSets
<1>3. ASSUME NEW c \in Chains, Process(c) \/ WaitReady(c) \/ Buffer(c) \/ ChainStopping(c)
      PROVE  FALSE
  BY <1>3 DEF AllEnded, Process, WaitReady, Buffer, ChainStopping
<1>4. ASSUME NEW c \in Chains, StopChain(c) PROVE AllEnded'
  BY <1>0, <1>4 DEF AllEnded, StopChain, AfterEnding, StrandTypes, ChainSets
<1>5. ASSUME NEW c \in Chains, Unregister(c) PROVE AllEnded'
  BY <1>0, <1>5 DEF AllEnded, Unregister, StrandTypes
<1>6. CASE PurgeChains \/ PurgeReturns
  BY <1>1, <1>6 DEF PurgeChains, PurgeReturns, strands
<1> QED BY ZenonT(20), <1>1, <1>2, <1>3, <1>4, <1>5, <1>6, ActCases DEF StrandActs

\* A step keeps what ClosedInv says of a closed socket.
LEMMA ClosedStays ==
  ASSUME TypeInv, StrandInv, FreshInv, ClosedInv, OrderlyInv, [Next]_vars
  PROVE  ClosedInv'
<1> SUFFICES ASSUME ~broken', conn' # "none", sock' \in {"shut", "closed"} PROVE AllEnded'
  BY DEF ClosedInv
<1>0. ~broken /\ StrandTypes /\ ChainSets
  BY BrokenStays, TypeParts
<1>1. CASE conn # "none" /\ sock \in {"shut", "closed"}
  BY <1>0, <1>1, EndedStays DEF ClosedInv
<1>2. CASE UNCHANGED <<conn, sock>>
  BY <1>1, <1>2
<1>3. CASE UNCHANGED vars
  BY <1>2, <1>3 DEF vars
<1>4. CASE ChainConnect \/ CreatedChain \/ ConnReady \/ Break \/ ConnReadyError
  BY <1>2, <1>4 DEF ChainConnect, CreatedChain, ConnReady, Break, ConnReadyError
<1>5. CASE StopComputation \/ DeferredCleanup \/ GotData \/ GotError \/ PurgeChains \/ PurgeReturns
  BY <1>2, <1>5 DEF StopComputation, DeferredCleanup, GotData, GotError, PurgeChains, PurgeReturns
<1>6. ASSUME NEW th \in Threads, BrokenStep(th) PROVE FALSE
  BY <1>0, <1>6, BreakerBroken
     DEF BrokenStep, BrokenMark, BrokenReset, BrokenStop, BrokenUnregister, BrokenClear
<1>7. CASE ConnCreated
  BY <1>7 DEF FreshInv, ConnCreated
<1>8. CASE SockFails
  BY <1>8 DEF SockFails
<1>9. CASE CloseSocket
  BY <1>1, <1>9 DEF CloseSocket
<1>10. CASE ForceSend
  BY <1>2, <1>10 DEF ForceSend, SendFails
<1>11. ASSUME NEW c \in Chains, Process(c) \/ WaitReady(c) \/ StopChain(c) \/ Unregister(c)
       PROVE  UNCHANGED <<conn, sock>>
  BY <1>11 DEF Process, WaitReady, StopChain, Unregister
<1>12. ASSUME NEW c \in Chains, Buffer(c) PROVE UNCHANGED <<conn, sock>>
  <2>1. sock = "up"
    BY <1>0, <1>12, SenderUp DEF Buffer
  <2> QED BY <1>12, <2>1 DEF Buffer
<1>13. ASSUME NEW c \in Chains, ChainStopping(c) PROVE AllEnded'
  <2>1. /\ pc[c] \in {"closing", "ending"} /\ UNCHANGED <<conn, done>>
        /\ sock' = sock \/ ~template
        /\ \E s \in {"idle", "unregister"} : pc' = [pc EXCEPT ![c] = s]
    BY <1>13 DEF ChainStopping, AfterEnding
  <2>2. CASE sock' = sock
    BY <1>2, <2>1, <2>2
  <2>3. CASE ~template
    <3>1. c = First /\ c \in done
      BY <2>1, <2>3 DEF StrandInv
    <3>2. done = Chains /\ \A d \in Chains \ {c} : pc[d] = "idle"
      BY <1>0, <2>3, <3>1 DEF StrandInv, ChainSets
    <3> QED BY <1>0, <2>1, <3>2 DEF AllEnded, StrandTypes
  <2> QED BY <2>1, <2>2, <2>3
<1> QED
  BY ZenonT(20), <1>2, <1>3, <1>4, <1>5, <1>6, <1>7, <1>8, <1>9, <1>10, <1>11, <1>12, <1>13,
     ActCases DEF StrandActs, OtherActs, BrokenStep

\* A step keeps what FreshInv says of the handshake.
LEMMA FreshStays ==
  ASSUME TypeInv, FreshInv, ClosedInv, OrderlyInv, [Next]_vars
  PROVE  FreshInv'
<1> USE DEF rda, strands, link, receiver
<1>0. StrandTypes
  BY TypeParts
<1>1. CASE UNCHANGED <<conn, sock, cb, ready, broken, out, far, pc, buf, accepted, timer>>
  BY <1>1 DEF FreshInv
<1>2. CASE UNCHANGED vars
  BY <1>1, <1>2 DEF vars
<1>3. CASE StopComputation \/ DeferredCleanup \/ PurgeChains \/ PurgeReturns
  BY <1>1, <1>3 DEF StopComputation, DeferredCleanup, PurgeChains, PurgeReturns
<1>4. CASE ConnCreated
  BY <1>4 DEF FreshInv, ConnCreated
<1>5. CASE ChainConnect \/ CreatedChain
  BY <1>5 DEF FreshInv, ChainConnect, CreatedChain
<1>6. CASE ConnReady \/ Break
  BY <1>6 DEF FreshInv, ConnReady, Break
<1>7. CASE SockFails \/ ConnReadyError
  BY <1>7 DEF FreshInv, SockFails, ConnReadyError
<1>8. CASE CloseSocket
  BY <1>8 DEF FreshInv, CloseSocket
<1>9. CASE GotData \/ GotError
  BY <1>9 DEF FreshInv, GotData, GotError
<1>10. ASSUME NEW th \in Threads, BrokenStop(th) \/ BrokenUnregister(th) \/ BrokenClear(th)
       PROVE  FreshInv'
  BY <1>1, <1>10 DEF BrokenStop, BrokenUnregister, BrokenClear
<1>11. ASSUME NEW th \in Threads, BrokenMark(th) \/ BrokenReset(th) PROVE FreshInv'
  <2>1. sock # "new"
    BY <1>11, BreakerBroken DEF BrokenMark, BrokenReset
  <2> QED BY SMTT(20), Z3T(20), SMTT(30), <1>11, <2>1 DEF FreshInv, BrokenMark, BrokenReset
<1>12. ASSUME NEW c \in Chains, Process(c) PROVE FreshInv'
  BY <1>0, <1>12 DEF FreshInv, Process, StrandTypes
<1>13. ASSUME NEW c \in Chains, WaitReady(c) PROVE FreshInv'
  BY <1>0, <1>13 DEF FreshInv, WaitReady, StrandTypes
<1>14. ASSUME NEW c \in Chains, StopChain(c) PROVE FreshInv'
  BY <1>0, <1>14 DEF FreshInv, StopChain, AfterEnding, StrandTypes
<1>15. ASSUME NEW c \in Chains, Unregister(c) PROVE FreshInv'
  BY <1>0, <1>15 DEF FreshInv, Unregister, StrandTypes
<1>16. CASE ForceSend
  <2>1. timer > 0 /\ UNCHANGED <<conn, ready, accepted, pc>>
    BY <1>16 DEF ForceSend
  <2>2. ready /\ conn # "none"
    BY <2>1 DEF FreshInv
  <2>3. sock' = sock
    BY <1>16 DEF ForceSend, SendFails
  <2> QED BY <2>1, <2>2, <2>3 DEF FreshInv
<1>17. ASSUME NEW c \in Chains, Buffer(c) PROVE FreshInv'
  <2>1. pc[c] = "buffer" /\ UNCHANGED <<conn, ready>>
    BY <1>17 DEF Buffer
  <2>2. conn # "none" /\ ready
    BY <2>1, SenderUp DEF FreshInv
  <2>3. sock' \in {sock, "shut"}
    BY <1>17 DEF Buffer, SendFails
  <2> QED BY <2>1, <2>2, <2>3 DEF FreshInv
<1>18. ASSUME NEW c \in Chains, ChainStopping(c) PROVE FreshInv'
  <2>1. /\ pc[c] \in {"closing", "ending"} /\ UNCHANGED <<conn, ready, accepted>>
        /\ sock' \in {sock, "shut"} /\ buf' \in {buf, <<>>} /\ timer' = timer
        /\ \E s \in {"idle", "unregister"} : pc' = [pc EXCEPT ![c] = s]
    BY <1>18 DEF ChainStopping, AfterEnding
  <2>2. conn' # "none" /\ sock' # "new"
    BY <2>1, SenderUp DEF FreshInv
  <2>3. ~ready' => \A d \in Chains : pc'[d] # "buffer"
    BY <1>0, <2>1 DEF FreshInv, StrandTypes
  <2> QED BY <2>1, <2>2, <2>3 DEF FreshInv
<1> QED
  BY ZenonT(20), <1>2, <1>3, <1>4, <1>5, <1>6, <1>7, <1>8, <1>9, <1>10, <1>11, <1>12, <1>13, <1>14, <1>15,
     <1>16, <1>17, <1>18, ActCases DEF StrandActs, OtherActs

\* As long as the connection has not failed, no send fails and no null pointer is met.
LEMMA OrderlyStays ==
  ASSUME TypeInv, StrandInv, FreshInv, ClosedInv, OrderlyInv, [Next]_vars
  PROVE  OrderlyInv'
<1> USE DEF rda, breaking, link, receiver
<1>0. Flags
  BY TypeParts
<1>1. CASE UNCHANGED <<broken, conn, stopping, sock, crashed, bk, cleanups, buf>>
  BY <1>1 DEF OrderlyInv
<1>2. CASE UNCHANGED vars
  BY <1>1, <1>2 DEF vars
<1>3. CASE ChainConnect \/ CreatedChain \/ ConnReady \/ StopComputation
  BY <1>1, <1>3 DEF ChainConnect, CreatedChain, ConnReady, StopComputation
<1>4. CASE PurgeChains \/ PurgeReturns \/ GotData \/ GotError
  BY <1>1, <1>4 DEF PurgeChains, PurgeReturns, GotData, GotError
<1>5. ASSUME NEW c \in Chains, Process(c) \/ WaitReady(c) \/ StopChain(c) \/ Unregister(c)
      PROVE  OrderlyInv'
  BY <1>1, <1>5 DEF Process, WaitReady, StopChain, Unregister
<1>6. CASE Break
  BY <1>6 DEF OrderlyInv, Break
<1>7. CASE SockFails
  BY <1>7 DEF OrderlyInv, SockFails
<1>8. ASSUME NEW th \in Threads, BrokenStep(th) PROVE OrderlyInv'
  <2>1. bk[th] # "out" /\ UNCHANGED broken
    BY <1>8 DEF BrokenStep, BrokenMark, BrokenReset, BrokenStop, BrokenUnregister, BrokenClear
  <2> QED BY <2>1 DEF OrderlyInv
<1>9. CASE ConnCreated
  BY <1>9 DEF OrderlyInv, FreshInv, ConnCreated
<1>10. CASE ConnReadyError
  <2>1. sock = "down" /\ UNCHANGED broken
    BY <1>10 DEF ConnReadyError
  <2> QED BY <2>1 DEF OrderlyInv
<1>11. CASE CloseSocket
  BY <1>11 DEF OrderlyInv, CloseSocket
<1>12. CASE DeferredCleanup
  BY <1>12 DEF OrderlyInv, DeferredCleanup
<1>13. CASE ForceSend
  <2>0. UNCHANGED <<broken, conn, cleanups>>
    BY <1>13 DEF ForceSend
  <2> SUFFICES ASSUME ~broken PROVE OrderlyInv'
    BY <2>0 DEF OrderlyInv
  <2>1. CASE buf = <<>>
    BY <1>1, <1>13, <2>0, <2>1 DEF ForceSend
  <2>2. CASE buf # <<>>
    <3>1. conn = "set" /\ sock = "up"
      BY <2>2, SenderUp
    <3>2. UNCHANGED <<sock, breaking>>
      BY <1>13, <3>1 DEF ForceSend
    <3> QED BY <2>0, <3>1, <3>2 DEF OrderlyInv
  <2> QED BY <2>1, <2>2
<1>14. ASSUME NEW c \in Chains, Buffer(c) PROVE OrderlyInv'
  <2>0. pc[c] = "buffer" /\ UNCHANGED <<broken, conn, cleanups>>
    BY <1>14 DEF Buffer
  <2> SUFFICES ASSUME ~broken PROVE OrderlyInv'
    BY <2>0 DEF OrderlyInv
  <2>1. conn = "set" /\ sock = "up"
    BY <2>0, SenderUp
  <2>2. UNCHANGED <<sock, breaking>>
    BY <1>14, <2>1 DEF Buffer
  <2> QED BY <2>0, <2>1, <2>2 DEF OrderlyInv
<1>15. ASSUME NEW c \in Chains, ChainStopping(c) PROVE OrderlyInv'
  <2>0. pc[c] \in {"closing", "ending"} /\ UNCHANGED <<broken, conn, cleanups>>
    BY <1>15 DEF ChainStopping
  <2> SUFFICES ASSUME ~broken PROVE OrderlyInv'
    BY <2>0 DEF OrderlyInv
  <2>1. conn = "set" /\ sock = "up" /\ ~stopping
    BY <2>0, SenderUp DEF OrderlyInv
  <2>2. UNCHANGED breaking
    BY <1>15, <2>1 DEF ChainStopping
  <2>3. sock' = sock \/ (sock' = "shut" /\ buf' = <<>>)
    BY <1>15, <2>1 DEF ChainStopping
  <2>4. ~cleanups
    BY <2>1 DEF OrderlyInv
  <2> QED BY <2>0, <2>1, <2>2, <2>3, <2>4 DEF OrderlyInv
<1> QED
  BY ZenonT(20), <1>2, <1>3, <1>4, <1>5, <1>6, <1>7, <1>8, <1>9, <1>10, <1>11, <1>12, <1>13, <1>14, <1>15,
     ActCases DEF StrandActs, OtherActs, BrokenStep

-----------------------------------------------------------------------------
(* The data.                                                               *)

\* What matches still does when more is accepted.
LEMMA MatchesGrow ==
  ASSUME NEW s \in Seq(Items), NEW acc \in Seq(Items), NEW x \in Items, NEW a \in Nat,
         Matches(s, acc, a)
  PROVE  Matches(s, Append(acc, x), a)
<1>1. Len(Append(acc, x)) = Len(acc) + 1 /\ Len(acc) \in Nat /\ Len(s) \in Nat
  OBVIOUS
<1>2. \A j \in 1 .. Len(acc) : Append(acc, x)[j] = acc[j]
  OBVIOUS
<1>3. \A j \in 1 .. Len(s) : a + j \in 1 .. Len(acc)
  BY <1>1 DEF Matches
<1> QED BY <1>1, <1>2, <1>3 DEF Matches

\* An item that is accepted goes to the end of the buffer.
LEMMA PipeAccept ==
  ASSUME NEW d \in Seq(Items), NEW o \in Seq(Messages), NEW rest \in Seq(Items),
         NEW acc \in Seq(Items), NEW x \in Items, Pipe(d, o, rest, acc)
  PROVE  Pipe(d, o, Append(rest, x), Append(acc, x))
<1> DEFINE acc2 == Append(acc, x)
           rest2 == Append(rest, x)
<1>1. PICK f \in [0 .. Len(o) -> 0 .. Len(acc)] : Cuts(f, d, o, rest, acc)
  BY DEF Pipe
<1>2. /\ Len(acc2) = Len(acc) + 1 /\ Len(rest2) = Len(rest) + 1
      /\ Len(acc) \in Nat /\ Len(rest) \in Nat /\ Len(o) \in Nat
      /\ acc2[Len(acc) + 1] = x /\ rest2[Len(rest) + 1] = x
      /\ \A j \in 1 .. Len(rest) : rest2[j] = rest[j]
  OBVIOUS
<1> HIDE DEF rest2, acc2
<1>3. ASSUME NEW i \in 1 .. Len(o) PROVE o[i].items \in Seq(Items) /\ f[i - 1] \in Nat
  <2>1. i - 1 \in 0 .. Len(o) /\ o[i] \in Messages
    BY SMTT(20), Z3T(20), SMTT(30), <1>2
  <2>2. o[i].items \in Seq(Items)
    BY <2>1 DEF Messages
  <2>3. f[i - 1] \in 0 .. Len(acc)
    BY <1>1, <2>1
  <2> QED BY SMTT(20), Z3T(20), SMTT(30), <1>2, <2>2, <2>3
<1>4. f \in [0 .. Len(o) -> 0 .. Len(acc2)] /\ f[Len(o)] \in Nat
  <2>1. 0 .. Len(acc) \subseteq 0 .. Len(acc2) /\ Len(o) \in 0 .. Len(o)
    BY SMTT(20), Z3T(20), SMTT(30), <1>2
  <2>2. f[Len(o)] \in 0 .. Len(acc)
    BY <1>1, <2>1
  <2> QED BY SMTT(20), Z3T(20), SMTT(30), <1>1, <1>2, <2>1, <2>2
<1>5. Matches(d, acc2, 0)
  BY MatchesGrow DEF Pipe, acc2
<1>6. \A i \in 1 .. Len(o) : Matches(o[i].items, acc2, f[i - 1])
  BY <1>1, <1>3, MatchesGrow DEF Cuts, acc2
<1>7. Matches(rest, acc2, f[Len(o)])
  BY <1>1, <1>4, MatchesGrow DEF Cuts, acc2
<1>8. Matches(rest2, acc2, f[Len(o)]) /\ f[Len(o)] + Len(rest2) = Len(acc2)
  <2>1. f[Len(o)] + Len(rest) = Len(acc)
    BY <1>1 DEF Cuts
  <2>2. f[Len(o)] + Len(rest2) = Len(acc2)
    BY <1>2, <1>4, <2>1
  <2>3. ASSUME NEW j \in 1 .. Len(rest2) PROVE rest2[j] = acc2[f[Len(o)] + j]
    <3>1. CASE j \in 1 .. Len(rest)
      BY <1>2, <1>7, <3>1 DEF Matches
    <3>2. CASE j = Len(rest) + 1
      BY <1>2, <1>4, <2>1, <3>2
    <3> QED BY SMTT(20), Z3T(20), SMTT(30), <1>2, <3>1, <3>2
  <2>4. f[Len(o)] + Len(rest2) <= Len(acc2)
    BY <1>2, <1>4, <2>1
  <2> QED BY <2>2, <2>3, <2>4 DEF Matches
<1>9. Cuts(f, d, o, rest2, acc2)
  BY <1>1, <1>6, <1>8 DEF Cuts
<1> QED BY <1>4, <1>5, <1>9 DEF Pipe, acc2, rest2

\* A message that is sent takes all that is in the buffer.
LEMMA PipeFlush ==
  ASSUME NEW d \in Seq(Items), NEW o \in Seq(Messages), NEW rest \in Seq(Items),
         NEW acc \in Seq(Items), NEW m \in Messages, m.items = rest, Pipe(d, o, rest, acc)
  PROVE  Pipe(d, Append(o, m), <<>>, acc)
<1> DEFINE o2 == Append(o, m)
<1>1. PICK f \in [0 .. Len(o) -> 0 .. Len(acc)] : Cuts(f, d, o, rest, acc)
  BY DEF Pipe
<1> DEFINE g == [i \in 0 .. Len(o) + 1 |-> IF i = Len(o) + 1 THEN Len(acc) ELSE f[i]]
<1>2. /\ Len(o2) = Len(o) + 1 /\ Len(o) \in Nat /\ Len(acc) \in Nat
      /\ o2[Len(o) + 1] = m /\ \A i \in 1 .. Len(o) : o2[i] = o[i]
  OBVIOUS
<1>3. g \in [0 .. Len(o2) -> 0 .. Len(acc)]
  BY SMTT(20), Z3T(20), SMTT(30), <1>1, <1>2
<1>4. g[0] = f[0] /\ g[Len(o) + 1] = Len(acc) /\ \A i \in 1 .. Len(o) + 1 : g[i - 1] = f[i - 1]
  BY SMTT(20), Z3T(20), SMTT(30), <1>2
<1>5. \A i \in 1 .. Len(o) : g[i] = f[i]
  BY SMTT(20), Z3T(20), SMTT(30), <1>2
<1>6. Len(<<>>) = 0
  OBVIOUS
<1> HIDE DEF o2, g
<1>7. ASSUME NEW i \in 1 .. Len(o2)
      PROVE  g[i] = g[i - 1] + Len(o2[i].items) /\ Matches(o2[i].items, acc, g[i - 1])
  <2>1. CASE i = Len(o) + 1
    BY SMTT(20), Z3T(20), SMTT(30), <1>1, <1>2, <1>4, <2>1 DEF Cuts
  <2>2. CASE i \in 1 .. Len(o)
    BY <1>1, <1>2, <1>4, <1>5, <2>2 DEF Cuts
  <2> QED BY SMTT(20), Z3T(20), SMTT(30), <1>2, <2>1, <2>2
<1>8. Matches(<<>>, acc, Len(acc))
  BY <1>2, <1>6 DEF Matches
<1>9. Cuts(g, d, o2, <<>>, acc)
  BY SMTT(20), Z3T(20), SMTT(30), <1>1, <1>2, <1>4, <1>6, <1>7, <1>8 DEF Cuts
<1> QED BY <1>3, <1>9 DEF Pipe, o2

\* The first message's items come right after those delivered.
LEMMA PipeDeliver ==
  ASSUME NEW d \in Seq(Items), NEW o \in Seq(Messages), NEW rest \in Seq(Items),
         NEW acc \in Seq(Items), o # <<>>, Pipe(d, o, rest, acc)
  PROVE  Pipe(d \o Head(o).items, Tail(o), rest, acc)
<1> DEFINE h == Head(o).items
           d2 == d \o h
           o2 == Tail(o)
<1>1. PICK f \in [0 .. Len(o) -> 0 .. Len(acc)] : Cuts(f, d, o, rest, acc)
  BY DEF Pipe
<1> DEFINE g == [i \in 0 .. Len(o) - 1 |-> f[i + 1]]
<1>2. /\ Len(o) \in Nat /\ Len(o) >= 1 /\ Len(o2) = Len(o) - 1 /\ Len(acc) \in Nat
      /\ Head(o) = o[1] /\ o[1] \in Messages /\ \A i \in 1 .. Len(o) - 1 : o2[i] = o[i + 1]
  OBVIOUS
<1>3. h = o[1].items /\ h \in Seq(Items)
  BY <1>2 DEF Messages
<1>4. g \in [0 .. Len(o2) -> 0 .. Len(acc)]
  BY SMTT(20), Z3T(20), SMTT(30), <1>1, <1>2
<1>5. /\ g[0] = f[1] /\ g[Len(o2)] = f[Len(o)]
      /\ \A i \in 1 .. Len(o2) : g[i] = f[i + 1] /\ g[i - 1] = f[i]
  BY SMTT(20), Z3T(20), SMTT(30), <1>2
<1> HIDE DEF h, o2, g
<1>6. Len(d) \in Nat /\ Len(h) \in Nat /\ Len(d2) = Len(d) + Len(h)
  BY <1>3
<1>7. \A j \in 1 .. Len(d) : d2[j] = d[j]
  BY <1>3
<1>8. \A k \in 1 .. Len(h) : d2[Len(d) + k] = h[k]
  BY <1>3
<1> HIDE DEF d2
<1>9. f[0] = Len(d) /\ f[1] = f[0] + Len(h) /\ Matches(h, acc, f[0])
  <2>1. 1 \in 1 .. Len(o) /\ 1 - 1 = 0
    BY SMTT(20), Z3T(20), SMTT(30), <1>2
  <2>2. f[1] = f[1 - 1] + Len(o[1].items) /\ Matches(o[1].items, acc, f[1 - 1]) /\ f[0] = Len(d)
    BY <1>1, <2>1 DEF Cuts
  <2> QED BY <1>3, <2>1, <2>2
<1>10. Matches(d2, acc, 0)
  <2>1. Len(d2) <= Len(acc)
    BY <1>6, <1>9 DEF Matches
  <2>2. ASSUME NEW j \in 1 .. Len(d2) PROVE d2[j] = acc[0 + j]
    <3>1. CASE j \in 1 .. Len(d)
      BY <1>7, <3>1 DEF Pipe, Matches
    <3>2. CASE j \notin 1 .. Len(d)
      <4>1. PICK k \in 1 .. Len(h) : j = Len(d) + k
        <5>1. j - Len(d) \in 1 .. Len(h) /\ j = Len(d) + (j - Len(d))
          BY SMTT(20), Z3T(20), SMTT(30), <1>6, <3>2
        <5> QED BY <5>1
      <4>2. h[k] = acc[Len(d) + k]
        BY <1>9 DEF Matches
      <4> QED BY <1>6, <1>8, <4>1, <4>2
    <3> QED BY <3>1, <3>2
  <2> QED BY <1>6, <2>1, <2>2 DEF Matches
<1>11. ASSUME NEW i \in 1 .. Len(o2)
       PROVE  g[i] = g[i - 1] + Len(o2[i].items) /\ Matches(o2[i].items, acc, g[i - 1])
  <2>1. i + 1 \in 1 .. Len(o) /\ (i + 1) - 1 = i /\ i \in 1 .. Len(o) - 1
    BY SMTT(20), Z3T(20), SMTT(30), <1>2
  <2>2. f[i + 1] = f[i] + Len(o[i + 1].items) /\ Matches(o[i + 1].items, acc, f[i])
    BY <1>1, <2>1 DEF Cuts
  <2> QED BY <1>2, <1>5, <2>1, <2>2
<1>12. Cuts(g, d2, o2, rest, acc)
  BY <1>1, <1>5, <1>6, <1>9, <1>11 DEF Cuts
<1> QED BY <1>4, <1>10, <1>12 DEF Pipe, d2, o2, h

\* When the last messages are lost, something else is missing.
LEMMA PipeCut ==
  ASSUME NEW d \in Seq(Items), NEW o \in Seq(Messages), NEW rest \in Seq(Items),
         NEW acc \in Seq(Items), NEW n \in 0 .. Len(o), Pipe(d, o, rest, acc)
  PROVE  \E missing \in Seq(Items) : Pipe(d, SubSeq(o, 1, n), missing, acc)
<1> DEFINE o2 == SubSeq(o, 1, n)
<1>1. PICK f \in [0 .. Len(o) -> 0 .. Len(acc)] : Cuts(f, d, o, rest, acc)
  BY DEF Pipe
<1> DEFINE g == [i \in 0 .. n |-> f[i]]
           missing == SubSeq(acc, f[n] + 1, Len(acc))
<1>2. /\ Len(o) \in Nat /\ n \in Nat /\ n <= Len(o) /\ Len(acc) \in Nat
      /\ Len(o2) = n /\ \A i \in 1 .. n : o2[i] = o[i]
  OBVIOUS
<1>3. f[n] \in 0 .. Len(acc)
  BY <1>1
<1>4. /\ missing \in Seq(Items) /\ Len(missing) = Len(acc) - f[n]
      /\ \A j \in 1 .. Len(acc) - f[n] : missing[j] = acc[f[n] + j]
  BY <1>2, <1>3
<1>5. g \in [0 .. Len(o2) -> 0 .. Len(acc)]
  BY SMTT(20), Z3T(20), SMTT(30), <1>1, <1>2
<1>6. g[0] = f[0] /\ g[n] = f[n] /\ \A i \in 1 .. n : g[i] = f[i] /\ g[i - 1] = f[i - 1]
  BY SMTT(20), Z3T(20), SMTT(30), <1>2
<1> HIDE DEF o2, g, missing
<1>7. Matches(missing, acc, g[n]) /\ g[n] + Len(missing) = Len(acc)
  BY <1>2, <1>3, <1>4, <1>6 DEF Matches
<1>8. ASSUME NEW i \in 1 .. n
      PROVE  g[i] = g[i - 1] + Len(o2[i].items) /\ Matches(o2[i].items, acc, g[i - 1])
  <2>1. i \in 1 .. Len(o)
    BY SMTT(20), Z3T(20), SMTT(30), <1>2
  <2> QED BY <1>1, <1>2, <1>6, <2>1 DEF Cuts
<1>9. Cuts(g, d, o2, missing, acc)
  BY <1>1, <1>2, <1>6, <1>7, <1>8 DEF Cuts
<1>10. Pipe(d, o2, missing, acc)
  BY <1>5, <1>9 DEF Pipe
<1> QED BY <1>4, <1>10 DEF o2

-----------------------------------------------------------------------------
(* The messages.                                                           *)

\* A message that is sent before NO_MORE_DATA, or is it.
LEMMA PushForm ==
  ASSUME NEW o \in Seq(Messages), NEW m \in Messages, WellFormed(o), ~Ended(o),
         m.kind \in {"connect", "end"} => m.items = <<>>
  PROVE  /\ WellFormed(Append(o, m)) /\ Ended(Append(o, m)) = (m.kind = "end")
         /\ Append(o, m) # <<>> /\ (o # <<>> => Append(o, m)[1] = o[1])
<1> DEFINE o2 == Append(o, m)
<1>1. /\ Len(o) \in Nat /\ Len(o2) = Len(o) + 1 /\ o2[Len(o) + 1] = m
      /\ \A i \in 1 .. Len(o) : o2[i] = o[i]
  OBVIOUS
<1>2. o2 # <<>> /\ (o # <<>> => o2[1] = o[1])
  OBVIOUS
<1> HIDE DEF o2
<1>3. \A i \in 1 .. Len(o2) : i \in 1 .. Len(o) \/ i = Len(o2)
  BY <1>1
<1>4. \A i \in 1 .. Len(o) : o[i].kind # "end"
  BY DEF Ended
<1>5. WellFormed(o2)
  BY <1>1, <1>3, <1>4 DEF WellFormed
<1>6. Len(o2) \in 1 .. Len(o2) /\ o2[Len(o2)] = m
  BY <1>1
<1>7. Ended(o2) <=> m.kind = "end"
  BY <1>1, <1>3, <1>4, <1>6 DEF Ended
<1> QED BY <1>2, <1>5, <1>7 DEF o2, Ended

\* The first message is taken.
LEMMA PopForm ==
  ASSUME NEW o \in Seq(Messages), WellFormed(o), o # <<>>
  PROVE  /\ Head(o) = o[1] /\ Head(o) \in Messages /\ Tail(o) \in Seq(Messages)
         /\ WellFormed(Tail(o)) /\ (Ended(Tail(o)) => Ended(o))
         /\ Head(o).kind \in {"connect", "end"} => Head(o).items = <<>>
         /\ Head(o).kind = "end" => Ended(o) /\ Tail(o) = <<>>
<1> DEFINE o2 == Tail(o)
<1>1. /\ Len(o) \in Nat /\ Len(o) >= 1 /\ Len(o2) = Len(o) - 1 /\ Head(o) = o[1]
      /\ \A i \in 1 .. Len(o2) : o2[i] = o[i + 1]
  OBVIOUS
<1>2. Head(o) \in Messages /\ o2 \in Seq(Messages) /\ (Len(o) = 1 => o2 = <<>>)
  OBVIOUS
<1> HIDE DEF o2
<1>3. \A i \in 1 .. Len(o2) : i + 1 \in 1 .. Len(o) /\ (i + 1 = Len(o) <=> i = Len(o2))
  BY <1>1
<1>4. 1 \in 1 .. Len(o)
  BY <1>1
<1>5. WellFormed(o2)
  BY ZenonT(20), <1>1, <1>3 DEF WellFormed
<1>6. Ended(o2) => Ended(o)
  BY <1>1, <1>3 DEF Ended
<1>7. Head(o).kind = "end" => Ended(o) /\ o2 = <<>>
  BY <1>1, <1>2, <1>4 DEF Ended, WellFormed
<1>8. Head(o).kind \in {"connect", "end"} => Head(o).items = <<>>
  BY <1>1, <1>4 DEF WellFormed
<1> QED BY ZenonT(20), <1>1, <1>2, <1>5, <1>6, <1>7, <1>8 DEF o2

\* The last messages are lost.
LEMMA CutForm ==
  ASSUME NEW o \in Seq(Messages), WellFormed(o), NEW n \in 0 .. Len(o)
  PROVE  /\ WellFormed(SubSeq(o, 1, n)) /\ SubSeq(o, 1, n) \in Seq(Messages)
         /\ Ended(SubSeq(o, 1, n)) => Ended(o) /\ SubSeq(o, 1, n) = o
         /\ SubSeq(o, 1, n) # <<>> => o # <<>> /\ SubSeq(o, 1, n)[1] = o[1]
<1> DEFINE o2 == SubSeq(o, 1, n)
<1>1. /\ Len(o) \in Nat /\ n \in Nat /\ n <= Len(o) /\ Len(o2) = n
      /\ \A i \in 1 .. n : o2[i] = o[i]
  OBVIOUS
<1>2. o2 \in Seq(Messages) /\ (n = Len(o) => o2 = o)
  OBVIOUS
<1>3. o2 # <<>> => o # <<>> /\ o2[1] = o[1]
  OBVIOUS
<1> HIDE DEF o2
<1>4. \A i \in 1 .. n : i \in 1 .. Len(o) /\ (i = Len(o) => n = Len(o) /\ i = n)
  BY <1>1
<1>5. WellFormed(o2)
  BY <1>1, <1>4 DEF WellFormed
<1>6. Ended(o2) => Ended(o) /\ n = Len(o)
  BY <1>1, <1>4 DEF Ended, WellFormed
<1> QED BY <1>2, <1>3, <1>5, <1>6 DEF o2

\* What process accepts and sends.  Mutex and connection are as they must be: a
\* null pointer is met only after a failure.
LEMMA BufferEffect ==
  ASSUME TypeInv, FreshInv, ClosedInv, OrderlyInv, NEW c \in Chains, Buffer(c)
  PROVE  \E x, y \in Items :
           /\ accepted' \in {accepted, Append(accepted, x), Append(Append(accepted, x), y)}
           /\ broken => out' = out
           /\ ~broken =>
                \/ accepted' = Append(accepted, x) /\ buf' = Append(buf, x) /\ out' = out
                \/ /\ accepted' = Append(accepted, x) /\ buf' = <<>>
                   /\ out' = Append(out, Msg("data", Append(buf, x)))
                \/ /\ accepted' = Append(Append(accepted, x), y) /\ buf' = <<>>
                   /\ out' = Append(Append(out, Msg("data", Append(buf, x))), Msg("marker", <<y>>))
<1>0. SeqTypes /\ StrandTypes /\ pc[c] = "buffer"
  BY TypeParts DEF Buffer
<1> DEFINE x == <<c, next[c], FALSE>>
           y == <<c, next[c], TRUE>>
           all == Append(buf, x)
<1>1. x \in Items /\ y \in Items
  BY <1>0, ItemTypes
<1>2. all \in Seq(Items) /\ <<y>> \in Seq(Items) /\ accepted \in Seq(Items) /\ out \in Seq(Messages)
  BY <1>0, <1>1 DEF SeqTypes
<1> HIDE DEF x, y, all
<1>3. /\ accepted \o <<x>> \o <<>> = Append(accepted, x)
      /\ accepted \o <<x>> \o <<y>> = Append(Append(accepted, x), y)
  BY <1>1, <1>2
<1>4. Msg("data", all) \in Messages /\ Msg("marker", <<y>>) \in Messages
  BY <1>2, MsgTypes
<1>5. /\ out \o (<<Msg("data", all)>> \o <<>>) = Append(out, Msg("data", all))
      /\ out \o (<<Msg("data", all)>> \o <<Msg("marker", <<y>>)>>)
           = Append(Append(out, Msg("data", all)), Msg("marker", <<y>>))
  BY <1>2, <1>4
<1>6. ~broken => conn # "null" /\ sock = "up"
  BY <1>0, SenderUp DEF OrderlyInv
<1>7. PICK mark \in BOOLEAN :
        LET marker == IF mark THEN <<y>> ELSE <<>>
            flush == MustSend(all, mark)
        IN IF conn = "null" /\ (noWindow \/ flush)
           THEN UNCHANGED <<accepted, buf, out>>
           ELSE /\ accepted' = accepted \o <<x>> \o marker
                /\ buf' = IF flush THEN <<>> ELSE all
                /\ IF flush /\ sock = "up"
                   THEN Transmit(<<Msg("data", all)>> \o (IF mark THEN <<Msg("marker", marker)>> ELSE <<>>))
                   ELSE UNCHANGED out
  BY ZenonT(20), <1>0, Zenon DEF Buffer, x, y, all
<1>8. mark => MustSend(all, mark)
  BY DEF MustSend
<1>9. accepted' \in {accepted, Append(accepted, x), Append(Append(accepted, x), y)}
  BY <1>3, <1>7
<1>10. broken => out' = out
  BY <1>7 DEF Transmit
<1>11. ASSUME ~broken
       PROVE  \/ accepted' = Append(accepted, x) /\ buf' = all /\ out' = out
              \/ /\ accepted' = Append(accepted, x) /\ buf' = <<>>
                 /\ out' = Append(out, Msg("data", all))
              \/ /\ accepted' = Append(Append(accepted, x), y) /\ buf' = <<>>
                 /\ out' = Append(Append(out, Msg("data", all)), Msg("marker", <<y>>))
  BY ZenonT(20), <1>3, <1>5, <1>6, <1>7, <1>8, <1>11 DEF Transmit
<1> QED BY <1>1, <1>9, <1>10, <1>11 DEF all

\* What force_send sends.
LEMMA ForceSendEffect ==
  ASSUME TypeInv, FreshInv, ClosedInv, OrderlyInv, ForceSend
  PROVE  /\ conn # "none" /\ UNCHANGED <<conn, sock, far, broken, delivered, accepted>>
         /\ broken => out' = out
         /\ ~broken => \/ UNCHANGED <<buf, out>>
                       \/ buf # <<>> /\ buf' = <<>> /\ out' = Append(out, Msg("data", buf))
<1>0. out \in Seq(Messages) /\ Msg("data", buf) \in Messages
  BY TypeParts, MsgTypes DEF SeqTypes
<1>1. out \o <<Msg("data", buf)>> = Append(out, Msg("data", buf))
  BY <1>0
<1>2. timer > 0 /\ UNCHANGED <<conn, far, broken, delivered, accepted>>
  BY DEF ForceSend, link, receiver
<1>3. conn # "none" /\ sock' = sock
  BY <1>2 DEF ForceSend, SendFails, FreshInv
<1>4. ~broken /\ buf # <<>> => conn = "set" /\ sock = "up"
  BY SenderUp
<1>5. UNCHANGED <<buf, out>> \/ UNCHANGED out \/ (buf' = <<>> /\ Transmit(<<Msg("data", buf)>>))
  BY DEF ForceSend
<1>6. broken => out' = out
  BY <1>5 DEF Transmit
<1>7. ~broken => UNCHANGED <<buf, out>> \/ (buf # <<>> /\ buf' = <<>> /\ Transmit(<<Msg("data", buf)>>))
  BY <1>4 DEF ForceSend
<1> QED BY ZenonT(20), <1>1, <1>2, <1>3, <1>6, <1>7 DEF Transmit

\* What the last chain sends before it closes the connection.
LEMMA StoppingEffect ==
  ASSUME TypeInv, FreshInv, ClosedInv, OrderlyInv, NEW c \in Chains, ChainStopping(c)
  PROVE  /\ pc[c] \in {"closing", "ending"}
         /\ UNCHANGED <<conn, far, broken, delivered, accepted>> /\ sock' \in {sock, "shut"}
         /\ broken => out' = out
         /\ ~broken =>
              \/ UNCHANGED <<sock, buf, out>>
              \/ /\ sock' = "shut" /\ buf' = <<>>
                 /\ \/ buf = <<>> /\ out' = Append(out, Msg("end", <<>>))
                    \/ out' = Append(Append(out, Msg("data", buf)), Msg("end", <<>>))
<1>0. out \in Seq(Messages) /\ Msg("data", buf) \in Messages /\ Msg("end", <<>>) \in Messages
  <2>1. buf \in Seq(Items) /\ <<>> \in Seq(Items)
    BY TypeParts DEF SeqTypes
  <2> QED BY <2>1, TypeParts, MsgTypes DEF SeqTypes
<1>1. /\ out \o (<<>> \o <<Msg("end", <<>>)>>) = Append(out, Msg("end", <<>>))
      /\ out \o (<<Msg("data", buf)>> \o <<Msg("end", <<>>)>>)
           = Append(Append(out, Msg("data", buf)), Msg("end", <<>>))
  BY <1>0
<1>2. /\ pc[c] \in {"closing", "ending"} /\ UNCHANGED <<conn, far, broken, delivered, accepted>>
      /\ sock' \in {sock, "shut"} /\ (out' = out \/ Transmit(Farewell))
  BY DEF ChainStopping, link, receiver
<1>3. ~broken => conn = "set" /\ sock = "up" /\ ~stopping
  BY <1>2, SenderUp DEF OrderlyInv
<1>4. broken => out' = out
  BY <1>2 DEF Transmit
<1>5. ~broken => \/ UNCHANGED <<sock, buf, out>>
                 \/ sock' = "shut" /\ buf' = <<>> /\ Transmit(Farewell)
  BY <1>3 DEF ChainStopping
<1> QED BY <1>1, <1>2, <1>4, <1>5 DEF Transmit, Farewell, LastData

\* A step keeps what LinkInv says of the messages.
LEMMA LinkStays ==
  ASSUME TypeInv, FreshInv, ClosedInv, OrderlyInv, LinkInv, [Next]_vars
  PROVE  LinkInv'
<1> USE DEF link, receiver
<1>0. out \in Seq(Messages) /\ Flags
  BY TypeParts DEF SeqTypes
<1>1. CASE UNCHANGED <<broken, out, far, sock, conn>>
  BY <1>1 DEF LinkInv
<1>2. CASE UNCHANGED vars
  BY <1>1, <1>2 DEF vars
<1>3. CASE ConnReady \/ ConnReadyError \/ StopComputation \/ DeferredCleanup
  BY <1>1, <1>3 DEF ConnReady, ConnReadyError, StopComputation, DeferredCleanup
<1>4. CASE PurgeChains \/ PurgeReturns
  BY <1>1, <1>4 DEF PurgeChains, PurgeReturns
<1>5. ASSUME NEW th \in Threads,
             BrokenMark(th) \/ BrokenStop(th) \/ BrokenUnregister(th) \/ BrokenClear(th)
      PROVE  LinkInv'
  BY <1>1, <1>5 DEF BrokenMark, BrokenStop, BrokenUnregister, BrokenClear
<1>6. ASSUME NEW c \in Chains, Process(c) \/ WaitReady(c) \/ StopChain(c) \/ Unregister(c)
      PROVE  LinkInv'
  BY <1>1, <1>6 DEF Process, WaitReady, StopChain, Unregister
<1>7. CASE ConnCreated
  <2>0. out = <<>> /\ far = "none" /\ ~broken
    BY <1>7 DEF FreshInv, ConnCreated
  <2>1. Msg("connect", <<>>) \in Messages /\ Msg("connect", <<>>).kind = "connect"
        /\ Msg("connect", <<>>).items = <<>>
    <3>1. <<>> \in Seq(Items)
      OBVIOUS
    <3> QED BY <3>1, MsgTypes
  <2>2. WellFormed(<<>>) /\ ~Ended(<<>>) /\ <<>> \in Seq(Messages)
    BY DEF WellFormed, Ended
  <2>3. <<Msg("connect", <<>>)>> = Append(<<>>, Msg("connect", <<>>))
    BY <2>1
  <2>4. CASE sock' = "up" /\ out' = <<Msg("connect", <<>>)>>
    <3>1. WellFormed(out') /\ ~Ended(out') /\ out' # <<>>
      BY ZenonT(20), <2>1, <2>2, <2>3, <2>4, PushForm
    <3>2. out'[1].kind = "connect"
      BY <2>1, <2>4
    <3> QED BY <1>7, <2>0, <3>1, <3>2 DEF LinkInv, ConnCreated
  <2>5. CASE sock' = "closed" /\ UNCHANGED out
    BY ZenonT(20), <1>7, <2>0, <2>2, <2>5 DEF LinkInv, ConnCreated
  <2> QED BY <1>7, <2>4, <2>5 DEF ConnCreated
<1>8. CASE ChainConnect
  BY <1>0, <1>8, PopForm DEF LinkInv, ChainConnect
<1>9. CASE CreatedChain \/ GotError
  BY <1>9 DEF LinkInv, CreatedChain, GotError
<1>10. CASE Break
  <2>1. WellFormed(<<>>) /\ ~Ended(<<>>)
    BY DEF WellFormed, Ended
  <2> QED BY <1>10, <2>1 DEF LinkInv, Break
<1>11. CASE SockFails
  BY <1>11 DEF LinkInv, SockFails
<1>12. CASE CloseSocket
  <2>1. PICK n \in 0 .. Len(out) : out' = SubSeq(out, 1, n)
    BY <1>12 DEF CloseSocket
  <2>2. /\ WellFormed(out') /\ (Ended(out') => Ended(out)) /\ (out' # <<>> => out # <<>> /\ out'[1] = out[1])
    BY <1>0, <2>1, CutForm DEF LinkInv
  <2>3. sock' = "closed" /\ UNCHANGED <<broken, far, conn>>
    BY <1>12 DEF CloseSocket
  <2> QED BY <2>2, <2>3 DEF LinkInv
<1>13. CASE GotData
  BY <1>0, <1>13, PopForm DEF LinkInv, GotData
<1>14. ASSUME NEW th \in Threads, BrokenReset(th) PROVE LinkInv'
  BY <1>14 DEF LinkInv, BrokenReset
<1>16. ASSUME ~broken, sock = "up" PROVE ~Ended(out) /\ WellFormed(out) /\ far # "ended"
  BY <1>16 DEF LinkInv
<1>17. ASSUME ~broken, sock = "up", NEW o \in Seq(Messages), WellFormed(o), ~Ended(o),
              out # <<>> => o # <<>> /\ o[1] = out[1], UNCHANGED <<broken, far, sock>>, out' = o
       PROVE  LinkInv'
  BY <1>16, <1>17 DEF LinkInv
<1>18. ASSUME NEW m \in Messages, m.kind \in {"data", "marker"}, NEW o \in Seq(Messages),
              WellFormed(o), ~Ended(o), out # <<>> => o # <<>> /\ o[1] = out[1]
       PROVE  /\ Append(o, m) \in Seq(Messages) /\ WellFormed(Append(o, m)) /\ ~Ended(Append(o, m))
              /\ out # <<>> => Append(o, m) # <<>> /\ Append(o, m)[1] = out[1]
  <2>1. Append(o, m) \in Seq(Messages) /\ m.kind \notin {"connect", "end"}
    BY <1>18
  <2> QED BY <1>18, <2>1, PushForm
<1>19. CASE ForceSend
  <2>1. CASE broken
    BY ZenonT(20), <1>1, <1>19, <2>1, ForceSendEffect
  <2>2. CASE ~broken
    <3>1. Msg("data", buf) \in Messages /\ Msg("data", buf).kind = "data"
      BY MsgTypes, TypeParts DEF SeqTypes
    <3>3. CASE out' = out
      BY ZenonT(20), <1>1, <1>19, <3>3, ForceSendEffect
    <3>4. CASE buf # <<>> /\ out' = Append(out, Msg("data", buf))
      <4>0. sock = "up"
        BY <2>2, <3>4, SenderUp
      <4> DEFINE o == Append(out, Msg("data", buf))
      <4>1. o \in Seq(Messages) /\ WellFormed(o) /\ ~Ended(o) /\ (out # <<>> => o # <<>> /\ o[1] = out[1])
        BY ZenonT(20), <1>0, <1>16, <1>18, <2>2, <3>1, <4>0
      <4> QED BY ZenonT(20), <1>17, <1>19, <2>2, <3>4, <4>0, <4>1, ForceSendEffect
    <3> QED BY ZenonT(20), <1>19, <2>2, <3>3, <3>4, ForceSendEffect
  <2> QED BY <2>1, <2>2
<1>20. ASSUME NEW c \in Chains, Buffer(c) PROVE LinkInv'
  <2>0. pc[c] = "buffer" /\ UNCHANGED <<broken, far, conn>> /\ sock' \in {sock, "shut"}
    BY <1>20 DEF Buffer, SendFails
  <2>a. ~broken => sock = "up" /\ sock' = sock
    <3>1. ~broken => sock = "up"
      BY <2>0, SenderUp
    <3> QED BY <1>20, <3>1 DEF Buffer
  <2>1. PICK x, y \in Items :
           /\ broken => out' = out
           /\ ~broken => \/ out' = out
                         \/ out' = Append(out, Msg("data", Append(buf, x)))
                         \/ out' = Append(Append(out, Msg("data", Append(buf, x))), Msg("marker", <<y>>))
    BY <1>20, BufferEffect
  <2>2. CASE out' = out
    BY <1>1, <2>0, <2>a, <2>2 DEF LinkInv
  <2>3. CASE ~broken /\ out' # out
    <3> DEFINE data == Msg("data", Append(buf, x))
               marker == Msg("marker", <<y>>)
    <3>1. data \in Messages /\ data.kind = "data" /\ marker \in Messages /\ marker.kind = "marker"
      <4>1. Append(buf, x) \in Seq(Items) /\ <<y>> \in Seq(Items)
        BY TypeParts DEF SeqTypes
      <4> QED BY <4>1, MsgTypes
    <3>2. sock = "up" /\ sock' = sock
      BY <2>a, <2>3
    <3> HIDE DEF data, marker
    <3>3. /\ Append(out, data) \in Seq(Messages) /\ WellFormed(Append(out, data))
          /\ ~Ended(Append(out, data))
          /\ out # <<>> => Append(out, data) # <<>> /\ Append(out, data)[1] = out[1]
      BY ZenonT(20), <1>0, <1>16, <1>18, <2>3, <3>1, <3>2
    <3>4. PICK one \in Seq(Messages) : one = Append(out, data)
      BY <3>3
    <3>5. /\ Append(one, marker) \in Seq(Messages) /\ WellFormed(Append(one, marker))
          /\ ~Ended(Append(one, marker))
          /\ out # <<>> => Append(one, marker) # <<>> /\ Append(one, marker)[1] = out[1]
      BY <1>18, <3>1, <3>3, <3>4
    <3>6. out' = one \/ out' = Append(one, marker)
      BY <2>1, <2>3, <3>4 DEF data, marker
    <3> QED BY ZenonT(20), <1>17, <2>0, <2>3, <3>2, <3>3, <3>4, <3>5, <3>6
  <2> QED BY <2>1, <2>2, <2>3
<1>21. ASSUME NEW c \in Chains, ChainStopping(c) PROVE LinkInv'
  <2>0. /\ pc[c] \in {"closing", "ending"} /\ UNCHANGED <<broken, far, conn>>
        /\ sock' \in {sock, "shut"}
    BY <1>21, StoppingEffect
  <2>1. CASE broken
    <3>1. out' = out /\ out = <<>>
      BY <1>21, <2>1, StoppingEffect DEF LinkInv
    <3> QED BY <2>0, <2>1, <3>1 DEF LinkInv
  <2>2. CASE ~broken
    <3>1. sock = "up" /\ conn = "set"
      BY <2>0, <2>2, SenderUp
    <3>2. CASE UNCHANGED <<sock, out>>
      BY <1>1, <2>0, <3>2
    <3> DEFINE data == Msg("data", buf)
               last == Msg("end", <<>>)
    <3>3. /\ data \in Messages /\ data.kind = "data"
          /\ last \in Messages /\ last.kind = "end" /\ last.items = <<>>
      <4>1. buf \in Seq(Items) /\ <<>> \in Seq(Items)
        BY TypeParts DEF SeqTypes
      <4> QED BY <4>1, MsgTypes
    <3> HIDE DEF data, last
    <3>4. ~Ended(out) /\ WellFormed(out) /\ far # "ended" /\ (far = "none" => out # <<>> /\ out[1].kind = "connect")
      BY <2>2, <3>1 DEF LinkInv
    <3>5. /\ Append(out, data) \in Seq(Messages) /\ WellFormed(Append(out, data))
          /\ ~Ended(Append(out, data))
          /\ out # <<>> => Append(out, data) # <<>> /\ Append(out, data)[1] = out[1]
      BY ZenonT(20), <1>0, <1>18, <3>3, <3>4
    <3>6. ASSUME NEW o \in Seq(Messages), WellFormed(o), ~Ended(o),
                 out # <<>> => o # <<>> /\ o[1] = out[1], sock' = "shut", out' = Append(o, last)
          PROVE  LinkInv'
      <4>1. WellFormed(out') /\ out' # <<>> /\ (out # <<>> => out'[1] = out[1])
        BY <3>3, <3>6, PushForm
      <4> QED BY ZenonT(20), <2>0, <2>2, <3>1, <3>4, <3>6, <4>1 DEF LinkInv
    <3>7. \/ UNCHANGED <<sock, out>>
          \/ sock' = "shut" /\ out' = Append(out, last)
          \/ sock' = "shut" /\ out' = Append(Append(out, data), last)
      BY <1>21, <2>2, StoppingEffect DEF data, last
    <3> QED BY ZenonT(20), <1>0, <3>2, <3>4, <3>5, <3>6, <3>7
  <2> QED BY <2>1, <2>2
<1> QED
  BY ZenonT(20), <1>2, <1>3, <1>4, <1>5, <1>6, <1>7, <1>8, <1>9, <1>10, <1>11, <1>12, <1>13, <1>14, <1>19,
     <1>20, <1>21, ActCases DEF StrandActs, OtherActs

\* A step keeps what EndedInv says of the end.
LEMMA EndStays ==
  ASSUME TypeInv, LinkInv, EndedInv, [Next]_vars, ClosedInv', LinkInv'
  PROVE  EndedInv'
<1> SUFFICES ASSUME far' = "ended" \/ Ended(out') PROVE AllEnded'
  BY DEF EndedInv
<1>1. CASE ~broken'
  BY <1>1 DEF LinkInv, ClosedInv
<1>2. CASE far = "ended"
  BY <1>2, EndedStays DEF LinkInv, EndedInv
<1>3. CASE broken' /\ far # "ended"
  <2>1. out' = <<>> /\ ~Ended(<<>>)
    BY <1>3 DEF LinkInv, Ended
  <2>2. far' = "ended"
    BY <2>1
  <2> USE DEF receiver
  <2>3. ASSUME GotData PROVE FALSE
    BY <1>3, <2>3 DEF GotData, LinkInv, link
  <2>4. CASE ConnCreated \/ ChainConnect \/ CreatedChain \/ ConnReady \/ Break \/ SockFails
    BY <1>3, <2>2, <2>4 DEF ConnCreated, ChainConnect, CreatedChain, ConnReady, Break, SockFails
  <2>5. CASE ConnReadyError \/ ForceSend \/ CloseSocket \/ StopComputation \/ DeferredCleanup
    BY <1>3, <2>2, <2>5 DEF ConnReadyError, ForceSend, CloseSocket, StopComputation, DeferredCleanup
  <2>6. CASE GotError \/ PurgeChains \/ PurgeReturns \/ UNCHANGED vars
    BY <1>3, <2>2, <2>6 DEF GotError, PurgeChains, PurgeReturns, vars
  <2>7. ASSUME NEW th \in Threads, BrokenStep(th) PROVE FALSE
    BY <1>3, <2>2, <2>7
       DEF BrokenStep, BrokenMark, BrokenReset, BrokenStop, BrokenUnregister, BrokenClear
  <2>8. ASSUME NEW c \in Chains, \/ Process(c) \/ WaitReady(c) \/ Buffer(c) \/ StopChain(c)
                                \/ ChainStopping(c) \/ Unregister(c)
        PROVE  FALSE
    BY <1>3, <2>2, <2>8 DEF Process, WaitReady, Buffer, StopChain, ChainStopping, Unregister
  <2> QED
    BY ZenonT(20), <2>3, <2>4, <2>5, <2>6, <2>7, <2>8, ActCases DEF StrandActs, OtherActs, BrokenStep
<1> QED BY <1>1, <1>2, <1>3

\* Appending keeps the type of a sequence.
LEMMA AppendType ==
  ASSUME NEW S, NEW s \in Seq(S), NEW e \in S
  PROVE  Append(s, e) \in Seq(S)
  OBVIOUS

\* Only process adds to what was accepted, only got_data_cb to what was delivered, and
\* the far end knows of an end or a failure only from got_data_cb.
LEMMA Histories ==
  ASSUME [Next]_vars
  PROVE  \/ GotData \/ GotError \/ \E c \in Chains : Buffer(c)
         \/ /\ UNCHANGED <<accepted, delivered>>
            /\ \/ UNCHANGED far
               \/ far \notin {"ended", "broken"} /\ far' \notin {"ended", "broken"}
<1> USE DEF receiver
<1>1. CASE UNCHANGED vars
  BY <1>1 DEF vars
<1>2. CASE ConnCreated \/ ConnReady \/ Break \/ SockFails \/ ConnReadyError
  BY <1>2 DEF ConnCreated, ConnReady, Break, SockFails, ConnReadyError
<1>3. CASE ChainConnect \/ CreatedChain
  BY <1>3 DEF ChainConnect, CreatedChain
<1>4. CASE ForceSend \/ CloseSocket \/ StopComputation \/ DeferredCleanup
  BY <1>4 DEF ForceSend, CloseSocket, StopComputation, DeferredCleanup
<1>5. ASSUME NEW th \in Threads, BrokenStep(th) PROVE UNCHANGED <<accepted, delivered, far>>
  BY <1>5 DEF BrokenStep, BrokenMark, BrokenReset, BrokenStop, BrokenUnregister, BrokenClear
<1>6. ASSUME NEW c \in Chains,
             Process(c) \/ WaitReady(c) \/ StopChain(c) \/ ChainStopping(c) \/ Unregister(c)
      PROVE  UNCHANGED <<accepted, delivered, far>>
  BY <1>6 DEF Process, WaitReady, StopChain, ChainStopping, Unregister
<1>7. CASE PurgeChains \/ PurgeReturns
  BY <1>7 DEF PurgeChains, PurgeReturns
<1> QED
  BY <1>1, <1>2, <1>3, <1>4, <1>5, <1>6, <1>7, ActCases DEF StrandActs, OtherActs, BrokenStep

\* When the connection has failed, what has not been delivered is lost.
LEMMA BrokenData ==
  ASSUME TypeInv, FreshInv, ClosedInv, OrderlyInv, LinkInv, LinkInv', DataInv, broken',
         [Next]_vars
  PROVE  DataInv'
<1>0. SeqTypes
  BY TypeParts
<1>1. out' = <<>> /\ ~Ended(<<>>)
  BY DEF LinkInv, Ended
<1>2. PICK lost \in Seq(Items) : Pipe(delivered, <<>>, lost, accepted)
  <2>1. PICK rest \in Seq(Items) : Pipe(delivered, out, rest, accepted)
    BY DEF DataInv
  <2>2. SubSeq(out, 1, 0) = <<>> /\ 0 \in 0 .. Len(out)
    BY <1>0 DEF SeqTypes
  <2> QED BY ZenonT(40), <1>0, <2>1, <2>2, PipeCut DEF SeqTypes
<1>3. delivered' = delivered
  <2>1. CASE GotData
    BY <2>1 DEF GotData, LinkInv
  <2>2. CASE GotError \/ \E c \in Chains : Buffer(c)
    BY <2>2 DEF GotError, Buffer, receiver
  <2> QED BY <2>1, <2>2, Histories
<1>4. \/ accepted' = accepted
      \/ \E x, y \in Items :
           accepted' \in {accepted, Append(accepted, x), Append(Append(accepted, x), y)}
  <2>1. CASE GotData \/ GotError
    BY <2>1 DEF GotData, GotError
  <2>2. CASE \E c \in Chains : Buffer(c)
    BY <2>2, BufferEffect
  <2> QED BY <2>1, <2>2, Histories
<1>5. CASE accepted' = accepted
  BY <1>1, <1>2, <1>3, <1>5 DEF DataInv
<1>6. ASSUME NEW x \in Items, NEW y \in Items,
             accepted' \in {accepted, Append(accepted, x), Append(Append(accepted, x), y)}
      PROVE  DataInv'
  <2>0. <<>> \in Seq(Messages) /\ delivered \in Seq(Items) /\ accepted \in Seq(Items)
    BY <1>0 DEF SeqTypes
  <2>1. PICK acc1 \in Seq(Items) : acc1 = Append(accepted, x)
    BY <2>0, AppendType
  <2>2. PICK lost1 \in Seq(Items) : lost1 = Append(lost, x)
    BY AppendType
  <2>3. Pipe(delivered, <<>>, lost1, acc1)
    BY <1>2, <2>0, <2>1, <2>2, PipeAccept
  <2>4. Pipe(delivered, <<>>, Append(lost1, y), Append(acc1, y)) /\ Append(lost1, y) \in Seq(Items)
    BY <2>0, <2>3, AppendType, PipeAccept
  <2>5. \E rest \in Seq(Items) : Pipe(delivered, <<>>, rest, accepted')
    BY <1>2, <1>6, <2>1, <2>3, <2>4
  <2> QED BY <1>1, <1>3, <2>5 DEF DataInv
<1> QED BY ZenonT(20), <1>4, <1>5, <1>6

\* A step keeps what DataInv says of the data.
LEMMA DataStays ==
  ASSUME TypeInv, FreshInv, ClosedInv, OrderlyInv, LinkInv, LinkInv', DataInv, [Next]_vars
  PROVE  DataInv'
<1> USE DEF link, receiver
<1>0. /\ out \in Seq(Messages) /\ buf \in Seq(Items) /\ accepted \in Seq(Items)
      /\ delivered \in Seq(Items) /\ <<>> \in Seq(Items)
  BY TypeParts DEF SeqTypes
<1>1. CASE broken'
  BY <1>1, BrokenData
<1> SUFFICES ASSUME ~broken' PROVE DataInv'
  BY <1>1
<1>2. CASE UNCHANGED <<broken, out, sock, buf, accepted, delivered>>
  BY <1>2 DEF DataInv
<1>3. CASE UNCHANGED vars
  BY <1>2, <1>3 DEF vars
<1>4. CASE CreatedChain \/ ConnReady \/ ConnReadyError \/ GotError
  BY <1>2, <1>4 DEF CreatedChain, ConnReady, ConnReadyError, GotError
<1>5. CASE StopComputation \/ DeferredCleanup \/ PurgeChains \/ PurgeReturns
  BY <1>2, <1>5 DEF StopComputation, DeferredCleanup, PurgeChains, PurgeReturns
<1>6. ASSUME NEW th \in Threads, BrokenStep(th) PROVE DataInv'
  BY <1>2, <1>6 DEF BrokenStep, BrokenMark, BrokenReset, BrokenStop, BrokenUnregister, BrokenClear
<1>7. ASSUME NEW c \in Chains, Process(c) \/ WaitReady(c) \/ StopChain(c) \/ Unregister(c)
      PROVE  DataInv'
  BY <1>2, <1>7 DEF Process, WaitReady, StopChain, Unregister
<1>8. CASE Break \/ SockFails
  BY <1>8 DEF Break, SockFails
<1>9. CASE ConnCreated
  <2>1. out = <<>> /\ sock = "new" /\ UNCHANGED <<broken, buf, accepted, delivered>> /\ ~broken
    BY <1>9 DEF ConnCreated, FreshInv
  <2>2. Pipe(delivered, out, buf, accepted)
    BY <2>1 DEF DataInv
  <2>3. buf = <<>>
    BY <1>9 DEF ConnCreated, FreshInv
  <2>4. CASE sock' = "closed" /\ out' = out
    <3>1. ~Ended(<<>>)
      BY DEF Ended
    <3> QED BY <1>0, <2>1, <2>2, <2>4, <3>1 DEF DataInv
  <2>5. CASE out' = <<Msg("connect", <<>>)>>
    <3> DEFINE m == Msg("connect", <<>>)
    <3>1. m \in Messages /\ m.items = <<>> /\ m.kind = "connect"
      BY <1>0, MsgTypes
    <3> HIDE DEF m
    <3>2. out' = Append(out, m)
      BY <2>1, <2>5, <3>1 DEF m
    <3>3. Pipe(delivered, Append(out, m), <<>>, accepted)
      BY <1>0, <2>2, <2>3, <3>1, PipeFlush
    <3> QED BY <1>0, <2>1, <2>3, <3>2, <3>3 DEF DataInv
  <2> QED BY <1>9, <2>4, <2>5 DEF ConnCreated
<1>10. CASE ChainConnect
  <2>1. /\ out # <<>> /\ out' = Tail(out) /\ UNCHANGED <<broken, sock, buf, accepted, delivered>>
        /\ Head(out).items = <<>>
    BY <1>0, <1>10, PopForm DEF ChainConnect, LinkInv
  <2>2. delivered \o Head(out).items = delivered
    BY <1>0, <2>1
  <2>3. ASSUME NEW rest \in Seq(Items), Pipe(delivered, out, rest, accepted)
        PROVE  Pipe(delivered, Tail(out), rest, accepted)
    BY <1>0, <2>1, <2>2, <2>3, PipeDeliver
  <2>4. Ended(Tail(out)) => Ended(out)
    BY <1>0, <2>1, PopForm DEF LinkInv
  <2> QED BY <1>0, <2>1, <2>3, <2>4 DEF DataInv
<1>11. CASE GotData
  <2>1. /\ out # <<>> /\ out' = Tail(out) /\ UNCHANGED <<broken, sock, buf, accepted>>
        /\ delivered' = delivered \o Head(out).items
    BY <1>11 DEF GotData
  <2>2. ASSUME NEW rest \in Seq(Items), Pipe(delivered, out, rest, accepted)
        PROVE  Pipe(delivered', Tail(out), rest, accepted)
    BY <1>0, <2>1, <2>2, PipeDeliver
  <2>3. Ended(Tail(out)) => Ended(out)
    BY <1>0, <2>1, PopForm DEF LinkInv
  <2> QED BY <1>0, <2>1, <2>2, <2>3 DEF DataInv
<1>12. CASE CloseSocket
  <2>1. PICK n \in 0 .. Len(out) : out' = SubSeq(out, 1, n)
    BY <1>12 DEF CloseSocket
  <2>2. sock' = "closed" /\ UNCHANGED <<accepted, delivered>>
    BY <1>12 DEF CloseSocket
  <2>3. \E rest \in Seq(Items) : Pipe(delivered, SubSeq(out, 1, n), rest, accepted)
    BY <1>0, PipeCut DEF DataInv
  <2>4. Ended(out') => Ended(out) /\ out' = out
    BY <1>0, <2>1, CutForm DEF LinkInv
  <2> QED BY <2>1, <2>2, <2>3, <2>4 DEF DataInv
<1>13. CASE ForceSend
  <2>0. ~broken /\ UNCHANGED <<sock, broken, accepted, delivered>>
    BY SMTT(20), Z3T(20), SMTT(30), <1>13, ForceSendEffect
  <2>1. CASE UNCHANGED <<buf, out>>
    BY <2>0, <2>1 DEF DataInv
  <2>2. CASE buf # <<>> /\ buf' = <<>> /\ out' = Append(out, Msg("data", buf))
    <3>1. sock = "up"
      BY <2>0, <2>2, SenderUp
    <3>2. Pipe(delivered, out, buf, accepted)
      BY <2>0, <3>1 DEF DataInv
    <3>3. Pipe(delivered, Append(out, Msg("data", buf)), <<>>, accepted)
      BY SMTT(20), Z3T(20), SMTT(30), <1>0, <3>2, MsgTypes, PipeFlush
    <3>4. ~Ended(out')
      BY <2>0, <3>1 DEF LinkInv
    <3> QED BY ZenonT(20), <1>0, <2>0, <2>2, <3>2, <3>3, <3>4 DEF DataInv
  <2> QED BY <1>13, <2>0, <2>1, <2>2, ForceSendEffect
<1>14. ASSUME NEW c \in Chains, Buffer(c) PROVE DataInv'
  <2>0. pc[c] = "buffer" /\ ~broken /\ UNCHANGED <<broken, conn, delivered>>
    BY SMTT(20), Z3T(20), SMTT(30), <1>14 DEF Buffer
  <2>1. sock = "up" /\ sock' = sock
    <3>1. sock = "up" /\ conn = "set"
      BY <2>0, SenderUp
    <3> QED BY <1>14, <3>1 DEF Buffer
  <2>2. Pipe(delivered, out, buf, accepted)
    BY <2>0, <2>1 DEF DataInv
  <2>3. PICK x, y \in Items :
          \/ accepted' = Append(accepted, x) /\ buf' = Append(buf, x) /\ out' = out
          \/ /\ accepted' = Append(accepted, x) /\ buf' = <<>>
             /\ out' = Append(out, Msg("data", Append(buf, x)))
          \/ /\ accepted' = Append(Append(accepted, x), y) /\ buf' = <<>>
             /\ out' = Append(Append(out, Msg("data", Append(buf, x))), Msg("marker", <<y>>))
    BY <1>14, <2>0, BufferEffect
  <2>4. PICK acc1 \in Seq(Items) : acc1 = Append(accepted, x)
    BY <1>0, AppendType
  <2>5. PICK all \in Seq(Items) : all = Append(buf, x)
    BY <1>0, AppendType
  <2>6. PICK data \in Messages : data = Msg("data", all) /\ data.items = all
    BY MsgTypes
  <2>7. PICK one \in Seq(Messages) : one = Append(out, data)
    BY <1>0, AppendType
  <2>8. <<y>> \in Seq(Items) /\ Append(<<>>, y) = <<y>>
    OBVIOUS
  <2>9. PICK marker \in Messages : marker = Msg("marker", <<y>>) /\ marker.items = <<y>>
    BY ZenonT(20), <2>8, MsgTypes
  <2>10. Pipe(delivered, out, all, acc1)
    BY ZenonT(20), <1>0, <2>2, <2>4, <2>5, PipeAccept
  <2>11. Pipe(delivered, one, <<>>, acc1)
    BY ZenonT(20), <1>0, <2>6, <2>7, <2>10, PipeFlush
  <2>12. Pipe(delivered, one, <<y>>, Append(acc1, y))
    BY ZenonT(20), <1>0, <2>8, <2>11, PipeAccept
  <2>13. Pipe(delivered, Append(one, marker), <<>>, Append(acc1, y))
    <3>1. PICK acc2 \in Seq(Items) : acc2 = Append(acc1, y)
      BY AppendType
    <3> QED BY ZenonT(20), <1>0, <2>8, <2>9, <2>12, <3>1, PipeFlush
  <2>14. Pipe(delivered, out', buf', accepted') /\ buf' \in Seq(Items)
    BY ZenonT(20), <1>0, <2>3, <2>4, <2>5, <2>6, <2>7, <2>9, <2>10, <2>11, <2>13
  <2>15. ~Ended(out')
    BY <2>0, <2>1 DEF LinkInv
  <2> QED BY ZenonT(20), <2>0, <2>14, <2>15 DEF DataInv
<1>15. ASSUME NEW c \in Chains, ChainStopping(c) PROVE DataInv'
  <2>0. /\ pc[c] \in {"closing", "ending"} /\ ~broken
        /\ UNCHANGED <<broken, conn, delivered, accepted>>
    BY <1>15, StoppingEffect
  <2>1. sock = "up"
    BY <2>0, SenderUp
  <2>2. Pipe(delivered, out, buf, accepted)
    BY <2>0, <2>1 DEF DataInv
  <2>3. PICK data \in Messages : data = Msg("data", buf) /\ data.items = buf
    BY <1>0, MsgTypes
  <2>4. PICK last \in Messages : last = Msg("end", <<>>) /\ last.items = <<>>
    BY <1>0, MsgTypes
  <2>5. Append(out, data) \in Seq(Messages)
    BY SMTT(20), Z3T(20), SMTT(30), <1>0
  <2>6. Pipe(delivered, Append(out, data), <<>>, accepted)
    BY <1>0, <2>2, <2>3, PipeFlush
  <2>7. Pipe(delivered, Append(Append(out, data), last), <<>>, accepted)
    BY ZenonT(20), <1>0, <2>4, <2>5, <2>6, PipeFlush
  <2>8. buf = <<>> => Pipe(delivered, Append(out, last), <<>>, accepted)
    BY ZenonT(20), <1>0, <2>2, <2>4, PipeFlush
  <2>9. \/ UNCHANGED <<sock, buf, out>>
        \/ /\ sock' = "shut" /\ buf' = <<>>
           /\ \/ buf = <<>> /\ out' = Append(out, last)
              \/ out' = Append(Append(out, data), last)
    BY ZenonT(20), <1>15, <2>0, <2>3, <2>4, StoppingEffect
  <2>10. CASE UNCHANGED <<sock, buf, out>>
    BY ZenonT(20), <1>2, <2>0, <2>10
  <2>11. CASE sock' = "shut" /\ Pipe(delivered, out', <<>>, accepted)
    BY <1>0, <2>0, <2>11 DEF DataInv
  <2> QED BY ZenonT(20), <2>7, <2>8, <2>9, <2>10, <2>11
<1> QED
  BY <1>3, <1>4, <1>5, <1>6, <1>7, <1>8, <1>9, <1>10, <1>11, <1>12, <1>13, <1>14, <1>15,
     ActCases DEF StrandActs, OtherActs, BrokenStep

-----------------------------------------------------------------------------
(* The theorems.                                                           *)

\* Init satisfies the inductive invariant.
LEMMA InitInv == Init => IInv
<1> SUFFICES ASSUME Init PROVE IInv
  OBVIOUS
<1>1. TypeInv
  BY InitTypes
<1>2. StrandInv
  BY DEF Init, StrandInv, First
<1>3. FreshInv /\ ClosedInv
  BY DEF Init, FreshInv, ClosedInv
<1>4. OrderlyInv
  BY DEF Init, OrderlyInv
<1>5. WellFormed(<<>>) /\ ~Ended(<<>>) /\ Len(<<>>) = 0
  BY DEF WellFormed, Ended
<1>6. LinkInv /\ EndedInv
  BY <1>5 DEF Init, LinkInv, EndedInv
<1>7. Matches(<<>>, <<>>, 0)
  BY DEF Matches
<1>8. Pipe(<<>>, <<>>, <<>>, <<>>)
  <2> DEFINE f == [i \in 0 .. 0 |-> 0]
  <2>1. f \in [0 .. 0 -> 0 .. 0] /\ f[0] = 0
    OBVIOUS
  <2> HIDE DEF f
  <2>2. Cuts(f, <<>>, <<>>, <<>>, <<>>)
    BY <1>5, <1>7, <2>1 DEF Cuts
  <2> QED BY <1>5, <1>7, <2>1, <2>2 DEF Pipe
<1>9. <<>> \in Seq(Items)
  OBVIOUS
<1>10. DataInv
  BY <1>5, <1>8, <1>9 DEF Init, DataInv
<1> QED BY ZenonT(20), <1>1, <1>2, <1>3, <1>4, <1>6, <1>10 DEF IInv

\* Every step preserves the inductive invariant.
LEMMA StepInv == IInv /\ [Next]_vars => IInv'
<1> SUFFICES ASSUME IInv, [Next]_vars PROVE IInv'
  OBVIOUS
<1>1. TypeInv' /\ StrandInv' /\ FreshInv' /\ ClosedInv' /\ OrderlyInv' /\ LinkInv'
  BY ZenonT(20), TypesStep, StrandStays, FreshStays, ClosedStays, OrderlyStays, LinkStays DEF IInv
<1>2. EndedInv' /\ DataInv'
  BY <1>1, EndStays, DataStays DEF IInv
<1> QED BY <1>1, <1>2 DEF IInv

\* The inductive invariant holds: the types, who runs without a template, the
\* handshake, the close, the messages in flight and where every item is.
THEOREM Invariance == Spec => []IInv
  BY InitInv, StepInv, PTL DEF Spec

\* Type correctness of the connection, the bound of the adaptor's buffer included.
THEOREM TypeCorrect == Spec => []TypeOK
<1>1. IInv => TypeOK
  BY DEF IInv, TypeInv
<1> QED BY <1>1, Invariance, PTL

\* Nothing follows NO_MORE_DATA: got_data_cb never finds its chain gone.
THEOREM EndIsLast == Spec => []NothingAfterEnd
<1>1. IInv => NothingAfterEnd
  BY DEF IInv, LinkInv, NothingAfterEnd
<1> QED BY <1>1, Invariance, PTL

\* Without a failure of the connection no interleaving of the chains' ends, the
\* timer, deferred_cleanup and a stop of the computation brings the sender down.
THEOREM NoCrashInOrder == Spec => []CrashNeedsBreak
<1>1. IInv => CrashNeedsBreak
  BY DEF IInv, OrderlyInv, CrashNeedsBreak
<1> QED BY <1>1, Invariance, PTL

-----------------------------------------------------------------------------
(* Where the threads may come to a stand.                                  *)

\* With the adaptor's mutex free, a thread that cannot go on waits for operatorTableLock,
\* or is the receiving thread waiting for a chain to stop.
LEMMA StuckThreads ==
  ASSUME TypeOK, MutexFree, ~CanWork
  PROVE  /\ \A c \in Chains : pc[c] # "idle" => pc[c] = "unregister" /\ ~TableFree
         /\ \A c \in stopReq : pc[c] = "unregister" /\ ~TableFree
         /\ \A th \in Threads : bk[th] # "out" => ~TableFree
<1>1. ASSUME NEW c \in Chains PROVE bk[c] = "out" \/ c = "recv"
  BY DEF MutexFree, Threads
<1>2. ASSUME NEW c \in Chains, pc[c] # "idle" PROVE pc[c] = "unregister" /\ ~TableFree
  <2>1. bk[c] = "out"
    BY <1>1, DataplaneAssumption
  <2>2. pc[c] \in {"wait", "buffer", "closing", "ending", "unregister"}
    BY <1>2 DEF TypeOK
  <2> QED BY <2>1, <2>2 DEF CanWork, StrandCanGo
<1>3. ASSUME NEW c \in stopReq PROVE pc[c] = "unregister" /\ ~TableFree
  <2>1. c \in Chains /\ bk[c] = "out"
    BY <1>1, DataplaneAssumption DEF TypeOK
  <2>2. pc[c] # "idle"
    BY <2>1 DEF CanWork, StrandCanGo, StrandIdle
  <2> QED BY <1>2, <2>1, <2>2
<1>4. ASSUME NEW th \in Threads, bk[th] # "out", TableFree PROVE FALSE
  <2>1. bk[th] = "await" /\ Current(th) \in stopReq
    BY <1>4 DEF CanWork, BreakerCanGo, TypeOK, Steps
  <2> QED BY <1>3, <1>4, <2>1
<1> QED BY <1>2, <1>3, <1>4

\* Whatever the number of chains: the sender's threads wait for one another for ever only
\* while stop_computation waits for a strand that waits for operatorTableLock, or while a
\* failed send holds the adaptor's mutex.  What Work's actions test is taken from the
\* model checker.
THEOREM StallsExplained == Spec => [](GuardsEnable => StallShape)
<1>1. ASSUME TypeOK, MutexFree, Waiting, ~CanWork
      PROVE  control = "await" /\ \E c \in table : pc[c] = "unregister"
  <2>1. control = "await" \/ ~TableFree
    BY <1>1, StuckThreads DEF Waiting
  <2>2. control = "await"
    BY <1>1, <2>1 DEF CanWork, TableFree
  <2>3. PICK c \in table : c \in stopReq
    BY <1>1, <2>2 DEF CanWork
  <2> QED BY <1>1, <2>2, <2>3, StuckThreads
<1>2. TypeOK => (GuardsEnable => StallShape)
  BY Zenon, <1>1 DEF GuardsEnable, StallShape
<1> QED BY <1>2, TypeCorrect, PTL

-----------------------------------------------------------------------------
(* The refinement.                                                         *)

Far == IF far \in {"ended", "broken"} THEN far ELSE "open"

\* What was delivered is how what was accepted begins.
LEMMA PipePrefix ==
  ASSUME NEW d \in Seq(Items), NEW o \in Seq(Messages), NEW rest \in Seq(Items),
         NEW acc \in Seq(Items), Pipe(d, o, rest, acc)
  PROVE  Promise!PrefixOf(d, acc)
<1>1. Len(d) \in Nat /\ Len(acc) \in Nat /\ Len(d) <= Len(acc) /\ \A j \in 1 .. Len(d) : d[j] = acc[j]
  BY DEF Pipe, Matches
<1> DEFINE s == SubSeq(acc, 1, Len(d))
<1>2. s \in Seq(Items) /\ Len(s) = Len(d) /\ \A j \in 1 .. Len(d) : s[j] = acc[j]
  BY <1>1
<1> HIDE DEF s
<1>3. s = d
  BY SMTT(20), Z3T(20), SMTT(30), <1>1, <1>2
<1> QED BY <1>1, <1>3 DEF Promise!PrefixOf, s

\* With NO_MORE_DATA first in line and nothing missing, all has been delivered.
LEMMA EndComplete ==
  ASSUME NEW d \in Seq(Items), NEW o \in Seq(Messages), NEW acc \in Seq(Items),
         Len(o) = 1, o[1].items = <<>>, Pipe(d, o, <<>>, acc)
  PROVE  d = acc
<1>1. PICK f \in [0 .. Len(o) -> 0 .. Len(acc)] : Cuts(f, d, o, <<>>, acc)
  BY DEF Pipe
<1>2. Len(<<>>) = 0 /\ 1 - 1 = 0 /\ 1 \in 1 .. 1 /\ Len(d) \in Nat /\ Len(acc) \in Nat
  BY SMTT(20), Z3T(20), SMTT(30)
<1>3. f[0] = Len(d) /\ f[1] = f[1 - 1] + Len(o[1].items) /\ f[1] + Len(<<>>) = Len(acc)
  BY <1>1, <1>2 DEF Cuts
<1>4. Len(d) = Len(acc)
  BY <1>2, <1>3
<1>5. \A j \in 1 .. Len(d) : d[j] = acc[j]
  BY SMTT(20), Z3T(20), SMTT(30) DEF Pipe, Matches
<1> QED BY <1>4, <1>5

\* Every step is a step of Delivery or leaves its variables alone.
LEMMA StepRefines ==
  ASSUME IInv, IInv', [Next]_vars
  PROVE  [Promise!Next]_(Promise!vars)
<1>0. /\ TypeInv /\ FreshInv /\ ClosedInv /\ OrderlyInv /\ LinkInv /\ EndedInv /\ DataInv
      /\ out \in Seq(Messages) /\ accepted \in Seq(Items) /\ delivered \in Seq(Items)
  BY TypeParts DEF IInv, SeqTypes
<1>1. CASE UNCHANGED <<accepted, delivered>> /\ Far' = Far
  BY <1>1 DEF Promise!vars, Far
<1>2. CASE GotError
  <2>1. far = "live" /\ far' = "broken" /\ UNCHANGED <<accepted, delivered>>
    BY <1>2 DEF GotError
  <2> QED BY <2>1 DEF Promise!Next, Promise!Break
<1>3. CASE GotData
  <2> DEFINE m == Head(out)
  <2>1. /\ far = "live" /\ out # <<>> /\ out' = Tail(out) /\ delivered' = delivered \o m.items
        /\ far' = (IF m.kind = "end" THEN "ended" ELSE far) /\ UNCHANGED accepted
    BY <1>3 DEF GotData
  <2>2. /\ m = out[1] /\ m \in Messages /\ Tail(out) \in Seq(Messages)
        /\ m.kind = "end" => m.items = <<>> /\ Ended(out) /\ Tail(out) = <<>>
    BY <1>0, <2>1, PopForm DEF LinkInv
  <2>3. m.items \in Seq(Items)
    BY <2>2 DEF Messages
  <2>4. CASE m.kind = "end"
    <3>1. Len(out) = 1
      <4>1. Len(Tail(out)) = Len(out) - 1 /\ Len(out) \in Nat
        BY <1>0, <2>1
      <4>2. Tail(out) = <<>> /\ Len(<<>>) = 0
        <5>1. Tail(out) = <<>>
          BY <2>2, <2>4
        <5> QED BY <5>1
      <4>3. Len(Tail(out)) = 0
        BY <4>2
      <4> QED BY <4>1, <4>3
    <3>2. Pipe(delivered, out, <<>>, accepted)
      BY <1>0, <2>2, <2>4 DEF DataInv
    <3>3. delivered = accepted
      BY ZenonT(20), <1>0, <2>2, <2>4, <3>1, <3>2, EndComplete
    <3>4. delivered' = delivered
      BY SMTT(20), Z3T(20), SMTT(30), <1>0, <2>1, <2>2, <2>4
    <3> QED BY ZenonT(20), <2>1, <2>4, <3>3, <3>4 DEF Promise!Next, Promise!End
  <2>5. CASE m.kind # "end" /\ m.items = <<>>
    <3>1. delivered' = delivered
      BY SMTT(20), Z3T(20), SMTT(30), <1>0, <2>1, <2>5
    <3> QED BY <1>1, <2>1, <2>5, <3>1 DEF Far
  <2>6. CASE m.kind # "end" /\ m.items # <<>>
    <3>1. PICK rest \in Seq(Items) : Pipe(delivered', out', rest, accepted')
      BY DEF IInv, DataInv
    <3>2. delivered' \in Seq(Items) /\ out' \in Seq(Messages)
      <4>1. delivered \o m.items \in Seq(Items)
        BY SMTT(20), Z3T(20), SMTT(30), <1>0, <2>3
      <4> QED BY <2>1, <2>2, <4>1
    <3>3. Promise!PrefixOf(delivered', accepted)
      BY <1>0, <2>1, <3>1, <3>2, PipePrefix
    <3> HIDE DEF m
    <3>4. Promise!PrefixOf(delivered, delivered') /\ delivered' # delivered
      <4>1. PICK items \in Seq(Items) : items # <<>> /\ delivered' = delivered \o items
        BY <2>1, <2>3, <2>6
      <4>2. Len(delivered) <= Len(delivered') /\ Len(delivered') # Len(delivered)
        BY SMTT(20), Z3T(20), SMTT(30), <1>0, <4>1
      <4>3. delivered = SubSeq(delivered', 1, Len(delivered))
        BY <1>0, <4>1
      <4> QED BY <4>2, <4>3 DEF Promise!PrefixOf
    <3> QED BY <2>1, <2>6, <3>3, <3>4 DEF Promise!Next, Promise!Deliver
  <2> QED BY <2>4, <2>5, <2>6
<1>4. ASSUME NEW c \in Chains, Buffer(c) PROVE [Promise!Next]_(Promise!vars)
  <2>1. pc[c] = "buffer" /\ UNCHANGED <<far, delivered>>
    BY <1>4 DEF Buffer, receiver
  <2>2. far # "ended"
    BY <1>0, <2>1 DEF EndedInv, AllEnded
  <2>3. PICK x, y \in Items :
          accepted' \in {accepted, Append(accepted, x), Append(Append(accepted, x), y)}
    BY <1>0, <1>4, BufferEffect
  <2>4. Append(Append(accepted, x), y) = accepted \o <<x, y>>
    BY <1>0
  <2>5. CASE accepted' = accepted
    BY <1>1, <2>1, <2>5 DEF Far
  <2>6. CASE accepted' \in {Append(accepted, x), accepted \o <<x, y>>}
    BY ZenonT(20), <2>1, <2>2, <2>6 DEF Promise!Next, Promise!Accept
  <2> QED BY ZenonT(20), <2>3, <2>4, <2>5, <2>6
<1> QED BY <1>1, <1>2, <1>3, <1>4, Histories DEF Far

\* The connection implements Delivery: items arrive in the order process took them,
\* each once, a suffix is lost only where the far end sees the connection break, and
\* NO_MORE_DATA reaches the far end only behind the last item.
THEOREM Refinement == Spec => KeepsDelivery
<1>1. Init => Promise!Init
  BY DEF Init, Promise!Init
<1>2. IInv /\ IInv' /\ [Next]_vars => [Promise!Next]_(Promise!vars)
  BY StepRefines
<1> QED BY <1>1, <1>2, Invariance, PTL DEF Spec, KeepsDelivery, Promise!Spec
=============================================================================
