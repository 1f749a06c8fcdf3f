-------------------------- MODULE TupleBatchProofs --------------------------
(***************************************************************************)
(* Proofs about TupleBatch, for any tuples and keys: the positions in      *)
(* lookup and holes are always positions of the vector, and every tuple of *)
(* a batch that remove_tuple was not called on is saved exactly once.      *)
(***************************************************************************)
EXTENDS TupleBatch, FiniteSetTheorems, TLAPS

USE ZenonT(3), SMTT(20), Z3T(20), ZenonT(20)

-----------------------------------------------------------------------------
(* Positions.                                                              *)

\* A freed position is one of the vector; an entry can be looked up by its key.
StoreInv ==
  /\ TypeOK /\ IsFiniteSet(DOMAIN lookup)
  /\ \A n \in DOMAIN holes : holes[n] \in DOMAIN tpiStore
  /\ \A i \in DOMAIN tpiStore : tpiStore[i].key \in DOMAIN lookup

\* Saving counts every tuple a finite number of times.
LEMMA SaveType ==
  ASSUME saves \in [Tuples -> Nat], misfiled \subseteq Tuples, NEW Es, IsFiniteSet(DOMAIN Es), Save(Es)
  PROVE  saves' \in [Tuples -> Nat] /\ misfiled' \subseteq Tuples
<1>1. ASSUME NEW t \in Tuples PROVE Cardinality({i \in DOMAIN Es : t \in Es[i].ts}) \in Nat
  <2>1. IsFiniteSet({i \in DOMAIN Es : t \in Es[i].ts})
    BY FS_Subset
  <2> QED
    BY <2>1, FS_CardinalityType
<1>2. saves' \in [Tuples -> Nat]
  BY SMTT(20), Z3T(20), SMTT(30), <1>1 DEF Save
<1> QED
  BY <1>2 DEF Save

\* An entry that is saved by itself.
LEMMA OneEntry ==
  ASSUME NEW e
  PROVE  DOMAIN <<e>> = {1} /\ IsFiniteSet(DOMAIN <<e>>) /\ <<e>>[1] = e
<1>1. DOMAIN <<e>> = {1} /\ <<e>>[1] = e
  OBVIOUS
<1> QED
  BY <1>1, FS_Singleton

\* batch_add: at the oldest hole or at the end, the entry is found by its key.
LEMMA BatchAddStep ==
  ASSUME StoreInv, NEW e \in Entry, BatchAdd(e)
  PROVE  /\ tpiStore' \in Seq(Entry) /\ holes' \in Seq(Nat)
         /\ DOMAIN lookup' = DOMAIN lookup \cup {e.key} /\ DOMAIN lookup' \subseteq Keys
         /\ \A k \in DOMAIN lookup' : lookup'[k] \in DOMAIN tpiStore'
         /\ \A n \in DOMAIN holes' : holes'[n] \in DOMAIN tpiStore'
         /\ \A i \in DOMAIN tpiStore' : tpiStore'[i].key \in DOMAIN lookup'
<1>0. /\ tpiStore \in Seq(Entry) /\ holes \in Seq(Nat) /\ e.key \in Keys
      /\ DOMAIN lookup \subseteq Keys /\ \A k \in DOMAIN lookup : lookup[k] \in DOMAIN tpiStore
      /\ \A n \in DOMAIN holes : holes[n] \in DOMAIN tpiStore
      /\ \A i \in DOMAIN tpiStore : tpiStore[i].key \in DOMAIN lookup
  BY DEF StoreInv, TypeOK, Entry
<1>1. CASE holes # <<>>
  <2>1. PICK pos : pos = Head(holes)
    OBVIOUS
  <2>2. holes' = Tail(holes) /\ tpiStore' = [tpiStore EXCEPT ![pos] = e] /\ lookup' = Put(e.key, pos)
    BY <1>1, <2>1 DEF BatchAdd, BatchSet
  <2>3. /\ holes' \in Seq(Nat) /\ pos \in DOMAIN tpiStore
        /\ \A n \in DOMAIN holes' : holes'[n] \in DOMAIN tpiStore
    <3>1. Len(holes) \in Nat /\ Len(holes) >= 1 /\ pos = holes[1] /\ DOMAIN holes = 1 .. Len(holes)
      BY SMTT(20), Z3T(20), SMTT(30), <1>0, <1>1, <2>1
    <3>2. holes' \in Seq(Nat) /\ DOMAIN holes' = 1 .. Len(holes) - 1
      BY SMTT(20), Z3T(20), SMTT(30), <1>0, <1>1, <2>2
    <3>3. \A n \in 1 .. Len(holes) - 1 : holes'[n] = holes[n + 1]
      BY <1>0, <1>1, <2>2
    <3>4. \A n \in 1 .. Len(holes) - 1 : n + 1 \in 1 .. Len(holes)
      BY <3>1
    <3>5. 1 \in DOMAIN holes
      BY <3>1
    <3>6. pos \in DOMAIN tpiStore
      BY <1>0, <3>1, <3>5
    <3>7. ASSUME NEW n \in DOMAIN holes' PROVE holes'[n] \in DOMAIN tpiStore
      <4>1. holes'[n] = holes[n + 1] /\ n + 1 \in DOMAIN holes
        BY ZenonT(20), <3>1, <3>2, <3>3, <3>4
      <4> QED
        BY <1>0, <4>1
    <3> QED
      BY <3>2, <3>6, <3>7
  <2>4. /\ tpiStore' \in Seq(Entry) /\ DOMAIN tpiStore' = DOMAIN tpiStore
        /\ \A i \in DOMAIN tpiStore : tpiStore'[i] = IF i = pos THEN e ELSE tpiStore[i]
    BY SMTT(20), Z3T(20), SMTT(30), <1>0, <2>2, <2>3
  <2>5. /\ DOMAIN lookup' = DOMAIN lookup \cup {e.key}
        /\ \A k \in DOMAIN lookup' : lookup'[k] = IF k = e.key THEN pos ELSE lookup[k]
    BY <2>2 DEF Put
  <2> QED
    BY <1>0, <2>3, <2>4, <2>5
<1>2. CASE holes = <<>>
  <2>1. holes' = holes /\ tpiStore' = Append(tpiStore, e) /\ lookup' = Put(e.key, Len(tpiStore) + 1)
    BY <1>2 DEF BatchAdd
  <2>2. /\ tpiStore' \in Seq(Entry) /\ DOMAIN tpiStore' = 1 .. Len(tpiStore) + 1
        /\ DOMAIN tpiStore = 1 .. Len(tpiStore) /\ Len(tpiStore) \in Nat
        /\ \A i \in 1 .. Len(tpiStore) : tpiStore'[i] = tpiStore[i]
        /\ tpiStore'[Len(tpiStore) + 1] = e
    BY SMTT(20), Z3T(20), SMTT(30), <1>0, <2>1
  <2>3. /\ DOMAIN lookup' = DOMAIN lookup \cup {e.key}
        /\ \A k \in DOMAIN lookup' : lookup'[k] = IF k = e.key THEN Len(tpiStore) + 1 ELSE lookup[k]
    BY <2>1 DEF Put
  <2>4. \A k \in DOMAIN lookup' : lookup'[k] \in DOMAIN tpiStore'
    BY SMTT(20), Z3T(20), SMTT(30), <1>0, <2>2, <2>3
  <2>5. \A i \in DOMAIN tpiStore' : tpiStore'[i].key \in DOMAIN lookup'
    BY Z3T(20), SMTT(20), Z3T(30), <1>0, <2>2, <2>3
  <2>6. \A n \in DOMAIN holes' : holes'[n] \in DOMAIN tpiStore'
    BY SMTT(20), Z3T(20), SMTT(30), <1>0, <2>1, <2>2
  <2> QED
    BY <1>0, <2>1, <2>2, <2>3, <2>4, <2>5, <2>6
<1> QED
  BY <1>1, <1>2

\* do_process keeps the positions right, whatever it decides.
LEMMA ProcessPositions ==
  ASSUME StoreInv, NEW t \in Tuples, Process(t)
  PROVE  StoreInv'
<1>0. /\ tpiStore \in Seq(Entry) /\ holes \in Seq(Nat) /\ todo \subseteq Tuples
      /\ saves \in [Tuples -> Nat] /\ misfiled \subseteq Tuples
      /\ DOMAIN lookup \subseteq Keys /\ \A k \in DOMAIN lookup : lookup[k] \in DOMAIN tpiStore
      /\ \A n \in DOMAIN holes : holes[n] \in DOMAIN tpiStore
      /\ \A i \in DOMAIN tpiStore : tpiStore[i].key \in DOMAIN lookup
      /\ IsFiniteSet(DOMAIN lookup) /\ removed \in BOOLEAN /\ spoiled \subseteq Tuples
  BY DEF StoreInv, TypeOK
<1>1. todo' \subseteq Tuples
  BY <1>0 DEF Process
<1>2. PICK canBatch \in Decisions[KeyOf[t]] : InsertTuple(t, canBatch) \/ UpdateBatchedTuple(t, canBatch)
  BY DEF Process
<1>3. CASE InsertTuple(t, canBatch)
  <2>1. PICK e : e = [key |-> KeyOf[t], ts |-> {t}]
    OBVIOUS
  <2>2. e \in Entry
    BY <2>1, KeyAssumption DEF Entry
  <2>3. CASE canBatch
    <3>1. BatchAdd(e) /\ UNCHANGED <<saves, misfiled, removed>>
      BY <1>3, <2>1, <2>3 DEF InsertTuple
    <3>2. IsFiniteSet(DOMAIN lookup')
      <4>1. DOMAIN lookup' = DOMAIN lookup \cup {e.key}
        BY <2>2, <3>1, BatchAddStep
      <4>2. IsFiniteSet(DOMAIN lookup \cup {e.key})
        <5>1. IsFiniteSet(DOMAIN lookup)
          BY <1>0
        <5> QED
          BY ONLY ZenonT(20), <5>1, FS_AddElement
      <4> QED
        BY ONLY ZenonT(20), <4>1, <4>2
    <3>3. /\ tpiStore' \in Seq(Entry) /\ holes' \in Seq(Nat) /\ DOMAIN lookup' \subseteq Keys
          /\ \A k \in DOMAIN lookup' : lookup'[k] \in DOMAIN tpiStore'
          /\ \A n \in DOMAIN holes' : holes'[n] \in DOMAIN tpiStore'
          /\ \A i \in DOMAIN tpiStore' : tpiStore'[i].key \in DOMAIN lookup'
      BY <2>2, <3>1, BatchAddStep
    <3>4. saves' \in [Tuples -> Nat] /\ misfiled' \subseteq Tuples
      BY <1>0, <3>1
    <3>5. removed' \in BOOLEAN /\ spoiled' \subseteq Tuples
      BY <1>0, <1>3, <2>3, <3>1 DEF InsertTuple
    <3> QED
      BY <1>1, <3>2, <3>3, <3>4, <3>5 DEF StoreInv, TypeOK
  <2>4. CASE ~canBatch
    <3>1. Save(<<e>>) /\ UNCHANGED <<tpiStore, lookup, holes, removed, spoiled>>
      BY <1>3, <2>1, <2>4 DEF InsertTuple
    <3>2. saves' \in [Tuples -> Nat] /\ misfiled' \subseteq Tuples
      BY <1>0, <3>1, OneEntry, SaveType
    <3> QED
      BY <1>0, <1>1, <3>1, <3>2 DEF StoreInv, TypeOK
  <2> QED
    BY <2>3, <2>4
<1>4. CASE UpdateBatchedTuple(t, canBatch)
  <2>1. PICK found : found = tpiStore[lookup[KeyOf[t]]]
    OBVIOUS
  <2>2. found \in Entry /\ found.key \in DOMAIN lookup
    BY SMTT(20), Z3T(20), SMTT(30), <1>0, <1>4, <2>1 DEF UpdateBatchedTuple, InLookup
  <2>3. PICK e : e = [found EXCEPT !.ts = found.ts \cup {t}]
    OBVIOUS
  <2>4. e \in Entry /\ e.key = found.key
    BY <2>2, <2>3 DEF Entry
  <2>5. PICK pos \in DOMAIN tpiStore : pos = lookup[e.key]
    BY <1>0, <2>2, <2>4
  <2>6. /\ tpiStore' = [tpiStore EXCEPT ![pos] = e]
        /\ \/ lookup' = Put(e.key, pos) /\ UNCHANGED <<holes, saves, misfiled>>
           \/ UNCHANGED lookup /\ holes' = Append(holes, pos) /\ Save(<<e>>)
    BY <1>4, <2>1, <2>3, <2>5 DEF UpdateBatchedTuple, BatchSet
  <2>7. /\ tpiStore' \in Seq(Entry) /\ DOMAIN tpiStore' = DOMAIN tpiStore
        /\ \A i \in DOMAIN tpiStore : tpiStore'[i] = IF i = pos THEN e ELSE tpiStore[i]
    BY SMTT(20), Z3T(20), SMTT(30), <1>0, <2>4, <2>6
  <2>8. DOMAIN lookup' = DOMAIN lookup /\ \A k \in DOMAIN lookup : lookup'[k] \in DOMAIN tpiStore
    BY ZenonT(20), <1>0, <2>2, <2>4, <2>5, <2>6 DEF Put
  <2>9. \A i \in DOMAIN tpiStore' : tpiStore'[i].key \in DOMAIN lookup'
    BY <1>0, <2>2, <2>4, <2>7, <2>8
  <2>10. holes' \in Seq(Nat) /\ \A n \in DOMAIN holes' : holes'[n] \in DOMAIN tpiStore'
    <3>1. CASE holes' = holes
      BY <1>0, <2>7, <3>1
    <3>2. CASE holes' = Append(holes, pos)
      <4>1. pos \in Nat
        BY SMTT(20), Z3T(20), SMTT(30), <1>0, <2>5
      <4>2. /\ holes' \in Seq(Nat) /\ DOMAIN holes' = 1 .. Len(holes) + 1 /\ Len(holes) \in Nat
            /\ DOMAIN holes = 1 .. Len(holes)
            /\ \A n \in 1 .. Len(holes) : holes'[n] = holes[n]
            /\ holes'[Len(holes) + 1] = pos
        BY SMTT(20), Z3T(20), SMTT(30), <1>0, <3>2, <4>1
      <4>3. ASSUME NEW n \in DOMAIN holes' PROVE holes'[n] \in DOMAIN tpiStore
        <5>1. CASE n = Len(holes) + 1
          BY <2>5, <4>2, <5>1
        <5>2. CASE n # Len(holes) + 1
          <6>1. n \in DOMAIN holes /\ holes'[n] = holes[n]
            BY <4>2, <5>2
          <6> QED
            BY <1>0, <6>1
        <5> QED
          BY <5>1, <5>2
      <4> QED
        BY <2>7, <4>2, <4>3
    <3> QED
      BY <2>6, <3>1, <3>2
  <2>11. saves' \in [Tuples -> Nat] /\ misfiled' \subseteq Tuples
    BY <1>0, <2>6, OneEntry, SaveType
  <2>12. Held \subseteq Tuples
    <3>1. \A x \in Range(tpiStore) : x \in Entry
      BY SMTT(20), Z3T(20), SMTT(30), <1>0 DEF Range
    <3> QED
      BY ZenonT(20), <3>1 DEF Held, Entry
  <2>13. removed' \in BOOLEAN /\ spoiled' \subseteq Tuples
    BY <1>0, <1>4, <2>12 DEF UpdateBatchedTuple
  <2> QED
    BY <1>0, <1>1, <2>7, <2>8, <2>9, <2>10, <2>11, <2>13 DEF StoreInv, TypeOK
<1> QED
  BY <1>2, <1>3, <1>4

\* A flush empties the vector, the map and the list.
LEMMA FlushPositions ==
  ASSUME StoreInv, Flush
  PROVE  StoreInv'
<1>1. PICK read \in [DOMAIN lookup -> Range(tpiStore)] : Save(read)
  BY DEF Flush
<1>2. saves' \in [Tuples -> Nat] /\ misfiled' \subseteq Tuples
  BY <1>1, SaveType DEF StoreInv, TypeOK
<1>3. /\ tpiStore' = <<>> /\ holes' = <<>> /\ DOMAIN lookup' = {} /\ todo' = todo
      /\ removed' = FALSE /\ spoiled' = spoiled
  BY DEF Flush, NoKeys
<1>4. tpiStore' \in Seq(Entry) /\ holes' \in Seq(Nat) /\ IsFiniteSet(DOMAIN lookup')
  BY SMTT(20), Z3T(20), SMTT(30), <1>3, FS_EmptySet
<1>5. DOMAIN tpiStore' = {} /\ DOMAIN holes' = {}
  BY <1>3
<1> QED
  BY <1>2, <1>3, <1>4, <1>5 DEF StoreInv, TypeOK

\* StoreInv is inductive.
LEMMA Positions == Spec => []StoreInv
<1>1. Init => StoreInv
  <2> SUFFICES ASSUME Init PROVE StoreInv
    OBVIOUS
  <2>1. /\ tpiStore = <<>> /\ holes = <<>> /\ DOMAIN lookup = {} /\ todo = Tuples /\ misfiled = {}
        /\ removed = FALSE /\ spoiled = {}
    BY DEF Init, NoKeys
  <2>2. tpiStore \in Seq(Entry) /\ holes \in Seq(Nat) /\ DOMAIN tpiStore = {} /\ DOMAIN holes = {}
    BY <2>1
  <2>3. saves \in [Tuples -> Nat]
    BY DEF Init
  <2> QED
    BY <2>1, <2>2, <2>3, FS_EmptySet DEF StoreInv, TypeOK
<1>2. StoreInv /\ [Next]_vars => StoreInv'
  <2> SUFFICES ASSUME StoreInv, [Next]_vars PROVE StoreInv'
    OBVIOUS
  <2>1. CASE UNCHANGED vars
    BY <2>1 DEF vars, StoreInv, TypeOK
  <2> QED
    BY <2>1, ProcessPositions, FlushPositions DEF Next
<1> QED
  BY <1>1, <1>2, PTL DEF Spec

\* Every position in lookup is within the vector, in every behaviour: get(key) and
\* flush() never index tpi_store out of range before the holes are erased.
THEOREM TypeCorrect == Spec => []TypeOK
<1>1. StoreInv => TypeOK
  BY DEF StoreInv
<1> QED
  BY <1>1, Positions, PTL

-----------------------------------------------------------------------------
(* Every tuple once.                                                       *)

\* Tuple t waits in the entry of its own key.
Waits(t) ==
  /\ InLookup(KeyOf[t]) /\ lookup[KeyOf[t]] \in DOMAIN tpiStore
  /\ t \in tpiStore[lookup[KeyOf[t]]].ts

\* A batch that remove_tuple was not called on: no position is free; vector and
\* map are inverse to each other; an entry has tuples of its own key only.
EntriesInv ==
  /\ holes = <<>>
  /\ \A i \in DOMAIN tpiStore :
       /\ lookup[tpiStore[i].key] = i
       /\ \A t \in tpiStore[i].ts : KeyOf[t] = tpiStore[i].key
  /\ \A k \in DOMAIN lookup : tpiStore[lookup[k]].key = k

\* Whatever the entries of the other batches hold is spoiled.
SpoiledInv == \A i \in DOMAIN tpiStore : tpiStore[i].ts \subseteq spoiled
BatchInv == (~removed => EntriesInv) /\ (removed => SpoiledInv)

\* Every other tuple is counted once, in the form the proof uses.
SavedInv ==
  \A t \in Tuples \ spoiled :
    /\ t \notin misfiled
    /\ t \in todo => saves[t] = 0 /\ ~Waits(t)
    /\ t \notin todo => saves[t] = IF Waits(t) THEN 0 ELSE 1

\* Saving a single entry counts its tuples once more.
LEMMA SaveOne ==
  ASSUME NEW e \in Entry, Save(<<e>>), saves \in [Tuples -> Nat],
         \A t \in e.ts : KeyOf[t] = e.key
  PROVE  /\ misfiled' = misfiled
         /\ \A t \in Tuples : saves'[t] = IF t \in e.ts THEN saves[t] + 1 ELSE saves[t]
<1>1. DOMAIN <<e>> = {1} /\ <<e>>[1] = e
  OBVIOUS
<1>2. misfiled' = misfiled
  BY <1>1 DEF Save
<1>3. ASSUME NEW t \in Tuples PROVE saves'[t] = IF t \in e.ts THEN saves[t] + 1 ELSE saves[t]
  <2>1. saves'[t] = saves[t] + Cardinality({i \in DOMAIN <<e>> : t \in <<e>>[i].ts})
    BY DEF Save
  <2>2. CASE t \in e.ts
    <3>1. {i \in DOMAIN <<e>> : t \in <<e>>[i].ts} = {1}
      BY <1>1, <2>2
    <3>2. Cardinality({1}) = 1
      BY FS_Singleton
    <3> QED
      BY ZenonT(20), <2>1, <2>2, <3>1, <3>2
  <2>3. CASE t \notin e.ts
    <3>1. {i \in DOMAIN <<e>> : t \in <<e>>[i].ts} = {}
      BY <1>1, <2>3
    <3>2. Cardinality({}) = 0
      BY FS_EmptySet
    <3>3. saves'[t] = saves[t] + 0
      BY Zenon, <2>1, <3>1, <3>2
    <3>4. saves[t] + 0 = saves[t]
      BY SMT
    <3> QED
      BY <2>3, <3>3, <3>4
  <2> QED
    BY <2>2, <2>3
<1> QED
  BY <1>2, <1>3

\* A tuple that no entry holds is not counted.
LEMMA SaveNone ==
  ASSUME NEW Es, Save(Es), saves \in [Tuples -> Nat], NEW u \in Tuples,
         \A i \in DOMAIN Es : u \notin Es[i].ts
  PROVE  saves'[u] = saves[u] /\ (u \in misfiled' => u \in misfiled)
<1>1. saves'[u] = saves[u] + Cardinality({i \in DOMAIN Es : u \in Es[i].ts})
  BY DEF Save
<1>2. {i \in DOMAIN Es : u \in Es[i].ts} = {}
  OBVIOUS
<1>3. Cardinality({}) = 0
  BY FS_EmptySet
<1>4. saves'[u] = saves[u] + 0
  BY Zenon, <1>1, <1>2, <1>3
<1>5. saves[u] + 0 = saves[u]
  BY SMT
<1>6. u \in misfiled' => u \in misfiled
  BY DEF Save
<1> QED
  BY <1>4, <1>5, <1>6

\* The same for an entry that is saved by itself.
LEMMA SaveOther ==
  ASSUME NEW e \in Entry, Save(<<e>>), saves \in [Tuples -> Nat], NEW u \in Tuples, u \notin e.ts
  PROVE  saves'[u] = saves[u] /\ (u \in misfiled' => u \in misfiled)
<1>1. \A i \in DOMAIN <<e>> : u \notin <<e>>[i].ts
  BY OneEntry
<1> QED
  BY <1>1, SaveNone

\* insert_tuple of a tuple that may not be batched: it is saved at once.
LEMMA InsertSaves ==
  ASSUME StoreInv, BatchInv, SavedInv, NEW t \in todo, t \in Tuples, todo' = todo \ {t},
         InsertTuple(t, FALSE)
  PROVE  BatchInv' /\ SavedInv'
<1>1. PICK e : e = [key |-> KeyOf[t], ts |-> {t}]
  OBVIOUS
<1>2. e \in Entry /\ e.ts = {t} /\ e.key = KeyOf[t]
  BY <1>1, KeyAssumption DEF Entry
<1>3. Save(<<e>>) /\ UNCHANGED <<tpiStore, lookup, holes, removed, spoiled>>
  BY <1>1 DEF InsertTuple
<1>4. BatchInv'
  BY <1>3 DEF BatchInv, EntriesInv, SpoiledInv
<1>5. /\ misfiled' = misfiled
      /\ \A u \in Tuples : saves'[u] = IF u = t THEN saves[u] + 1 ELSE saves[u]
  <2>1. saves \in [Tuples -> Nat]
    BY DEF StoreInv, TypeOK
  <2> QED
    BY <1>2, <1>3, <2>1, SaveOne
<1>6. \A u \in Tuples : Waits(u)' <=> Waits(u)
  BY <1>3 DEF Waits, InLookup
<1>7. ASSUME NEW u \in Tuples \ spoiled
      PROVE  /\ u \notin misfiled'
             /\ u \in todo' => saves'[u] = 0 /\ ~Waits(u)'
             /\ u \notin todo' => saves'[u] = IF Waits(u)' THEN 0 ELSE 1
  <2>1. CASE u = t
    BY SMTT(20), Z3T(20), SMTT(30), <1>5, <1>6, <2>1 DEF SavedInv
  <2>2. CASE u # t
    BY <1>5, <1>6, <2>2 DEF SavedInv
  <2> QED
    BY <2>1, <2>2
<1>8. SavedInv'
  BY <1>3, <1>7 DEF SavedInv
<1> QED
  BY <1>4, <1>8

\* insert_tuple of a tuple that may be batched: it begins the entry of its key.
LEMMA InsertBatches ==
  ASSUME StoreInv, EntriesInv, SavedInv, NEW t \in todo, t \in Tuples, todo' = todo \ {t},
         InsertTuple(t, TRUE), ~removed
  PROVE  EntriesInv' /\ SavedInv'
<1>0. /\ tpiStore \in Seq(Entry) /\ \A k \in DOMAIN lookup : lookup[k] \in DOMAIN tpiStore
      /\ \A i \in DOMAIN tpiStore : tpiStore[i].key \in DOMAIN lookup
  BY DEF StoreInv, TypeOK
<1>1. PICK e : e = [key |-> KeyOf[t], ts |-> {t}]
  OBVIOUS
<1>2. e \in Entry /\ e.ts = {t} /\ e.key = KeyOf[t]
  BY <1>1, KeyAssumption DEF Entry
<1>3. PICK n \in Nat : n = Len(tpiStore) + 1
  BY SMTT(20), Z3T(20), SMTT(30), <1>0
<1>4. /\ tpiStore' = Append(tpiStore, e) /\ lookup' = Put(e.key, n)
      /\ holes' = <<>> /\ UNCHANGED <<saves, misfiled, spoiled>> /\ e.key \notin DOMAIN lookup
  BY <1>1, <1>2, <1>3 DEF InsertTuple, BatchAdd, InLookup, EntriesInv
<1>5. /\ DOMAIN tpiStore' = DOMAIN tpiStore \cup {n} /\ n \notin DOMAIN tpiStore
      /\ \A i \in DOMAIN tpiStore : tpiStore'[i] = tpiStore[i]
      /\ tpiStore'[n] = e
  BY SMTT(20), Z3T(20), SMTT(30), <1>0, <1>2, <1>3, <1>4
<1>6. /\ DOMAIN lookup' = DOMAIN lookup \cup {e.key} /\ lookup'[e.key] = n
      /\ \A k \in DOMAIN lookup : lookup'[k] = lookup[k]
  BY <1>4 DEF Put
<1>7. EntriesInv'
  <2>1. ASSUME NEW i \in DOMAIN tpiStore'
        PROVE  /\ lookup'[tpiStore'[i].key] = i
               /\ \A u \in tpiStore'[i].ts : KeyOf[u] = tpiStore'[i].key
    <3>1. CASE i = n
      BY ZenonT(20), <1>2, <1>5, <1>6, <3>1
    <3>2. CASE i # n
      <4>1. i \in DOMAIN tpiStore /\ tpiStore'[i] = tpiStore[i] /\ tpiStore[i].key \in DOMAIN lookup
        BY <1>0, <1>5, <3>2
      <4> QED
        BY ZenonT(40), <1>6, <4>1 DEF EntriesInv
    <3> QED
      BY <3>1, <3>2
  <2>2. ASSUME NEW k \in DOMAIN lookup' PROVE tpiStore'[lookup'[k]].key = k
    <3>1. CASE k = e.key
      BY <1>5, <1>6, <3>1
    <3>2. CASE k # e.key
      <4>1. k \in DOMAIN lookup /\ lookup'[k] = lookup[k] /\ lookup[k] \in DOMAIN tpiStore
        BY <1>0, <1>6, <3>2
      <4> QED
        BY SMTT(20), Z3T(20), SMTT(30), <1>5, <4>1 DEF EntriesInv
    <3> QED
      BY <3>1, <3>2
  <2> QED
    BY <1>4, <2>1, <2>2 DEF EntriesInv
<1>8. ASSUME NEW u \in Tuples PROVE Waits(u)' <=> u = t \/ Waits(u)
  <2>1. CASE KeyOf[u] = e.key
    <3>1. Waits(u)' <=> u = t
      BY ZenonT(20), <1>2, <1>5, <1>6, <2>1 DEF Waits, InLookup
    <3>2. ~Waits(u)
      BY <1>4, <2>1 DEF Waits, InLookup
    <3> QED
      BY <3>1, <3>2
  <2>2. CASE KeyOf[u] # e.key
    <3>1. u # t
      BY <1>2, <2>2
    <3>2. KeyOf[u] \in DOMAIN lookup' <=> KeyOf[u] \in DOMAIN lookup
      BY <1>6, <2>2
    <3>3. CASE KeyOf[u] \in DOMAIN lookup
      <4>1. lookup'[KeyOf[u]] = lookup[KeyOf[u]] /\ lookup[KeyOf[u]] \in DOMAIN tpiStore
        BY <1>0, <1>6, <3>3
      <4> QED
        BY <1>5, <3>1, <3>2, <4>1 DEF Waits, InLookup
    <3> QED
      BY <3>1, <3>2, <3>3 DEF Waits, InLookup
  <2> QED
    BY <2>1, <2>2
<1>9. ASSUME NEW u \in Tuples \ spoiled
      PROVE  /\ u \notin misfiled'
             /\ u \in todo' => saves'[u] = 0 /\ ~Waits(u)'
             /\ u \notin todo' => saves'[u] = IF Waits(u)' THEN 0 ELSE 1
  <2>1. CASE u = t
    BY <1>4, <1>8, <2>1 DEF SavedInv
  <2>2. CASE u # t
    BY <1>4, <1>8, <2>2 DEF SavedInv
  <2> QED
    BY <2>1, <2>2
<1>10. SavedInv'
  BY <1>4, <1>9 DEF SavedInv
<1> QED
  BY <1>7, <1>10

\* update_batched_tuple: the tuple joins the entry of its own key.
LEMMA UpdateMerges ==
  ASSUME StoreInv, EntriesInv, SavedInv, NEW t \in todo, t \in Tuples, todo' = todo \ {t},
         UpdateBatchedTuple(t, TRUE), ~removed
  PROVE  EntriesInv' /\ SavedInv'
<1>0. /\ tpiStore \in Seq(Entry) /\ \A k \in DOMAIN lookup : lookup[k] \in DOMAIN tpiStore
      /\ \A i \in DOMAIN tpiStore : tpiStore[i].key \in DOMAIN lookup
  BY DEF StoreInv, TypeOK
<1>1. PICK k \in DOMAIN lookup : k = KeyOf[t]
  BY DEF UpdateBatchedTuple, InLookup
<1>2. PICK pos \in DOMAIN tpiStore : pos = lookup[k]
  BY <1>0
<1>3. tpiStore[pos] \in Entry /\ tpiStore[pos].key = k
  BY SMTT(20), Z3T(20), SMTT(30), <1>0, <1>2 DEF EntriesInv
<1>4. PICK e : e = [tpiStore[pos] EXCEPT !.ts = tpiStore[pos].ts \cup {t}]
  OBVIOUS
<1>5. e \in Entry /\ e.key = k /\ e.ts = tpiStore[pos].ts \cup {t}
  BY <1>3, <1>4 DEF Entry
<1>6. /\ tpiStore' = [tpiStore EXCEPT ![pos] = e] /\ lookup' = Put(k, pos)
      /\ UNCHANGED <<holes, saves, misfiled, spoiled>>
  BY <1>1, <1>2, <1>4, <1>5 DEF UpdateBatchedTuple, BatchSet
<1>7. /\ DOMAIN tpiStore' = DOMAIN tpiStore
      /\ \A i \in DOMAIN tpiStore : tpiStore'[i] = IF i = pos THEN e ELSE tpiStore[i]
  BY <1>0, <1>2, <1>5, <1>6
<1>8. DOMAIN lookup' = DOMAIN lookup /\ \A x \in DOMAIN lookup : lookup'[x] = lookup[x]
  BY <1>1, <1>2, <1>6 DEF Put
<1>9. \A i \in DOMAIN tpiStore :
        /\ tpiStore'[i].key = tpiStore[i].key
        /\ tpiStore'[i].ts = IF i = pos THEN tpiStore[i].ts \cup {t} ELSE tpiStore[i].ts
  BY <1>2, <1>3, <1>5, <1>7
<1>10. EntriesInv'
  <2>1. ASSUME NEW i \in DOMAIN tpiStore'
        PROVE  /\ lookup'[tpiStore'[i].key] = i
               /\ \A u \in tpiStore'[i].ts : KeyOf[u] = tpiStore'[i].key
    <3>1. i \in DOMAIN tpiStore /\ tpiStore[i].key \in DOMAIN lookup
      BY <1>0, <1>7
    <3>2. /\ lookup[tpiStore[i].key] = i
          /\ \A u \in tpiStore[i].ts : KeyOf[u] = tpiStore[i].key
      BY <3>1 DEF EntriesInv
    <3> QED
      BY ZenonT(20), <1>1, <1>3, <1>8, <1>9, <3>1, <3>2
  <2>2. ASSUME NEW x \in DOMAIN lookup' PROVE tpiStore'[lookup'[x]].key = x
    <3>1. x \in DOMAIN lookup /\ lookup'[x] = lookup[x] /\ lookup[x] \in DOMAIN tpiStore
      BY <1>0, <1>8
    <3> QED
      BY ZenonT(20), <1>9, <3>1 DEF EntriesInv
  <2> QED
    BY <1>6, <2>1, <2>2 DEF EntriesInv
<1>11. ASSUME NEW u \in Tuples PROVE Waits(u)' <=> u = t \/ Waits(u)
  <2>1. CASE KeyOf[u] \notin DOMAIN lookup
    BY ZenonT(20), <1>1, <1>8, <2>1 DEF Waits, InLookup
  <2>2. CASE KeyOf[u] \in DOMAIN lookup
    <3>1. PICK i \in DOMAIN tpiStore : i = lookup[KeyOf[u]]
      BY <1>0, <2>2
    <3>2. i = pos <=> KeyOf[u] = k
      BY ZenonT(20), <1>2, <1>3, <2>2, <3>1 DEF EntriesInv
    <3>3. lookup'[KeyOf[u]] = i /\ KeyOf[u] \in DOMAIN lookup' /\ i \in DOMAIN tpiStore'
      BY ZenonT(20), <1>7, <1>8, <2>2, <3>1
    <3>4. Waits(u)' <=> u \in tpiStore'[i].ts
      BY <3>3 DEF Waits, InLookup
    <3>5. Waits(u) <=> u \in tpiStore[i].ts
      BY <2>2, <3>1 DEF Waits, InLookup
    <3> QED
      BY ZenonT(20), <1>1, <1>9, <3>2, <3>4, <3>5
  <2> QED
    BY <2>1, <2>2
<1>12. ASSUME NEW u \in Tuples \ spoiled
      PROVE  /\ u \notin misfiled'
             /\ u \in todo' => saves'[u] = 0 /\ ~Waits(u)'
             /\ u \notin todo' => saves'[u] = IF Waits(u)' THEN 0 ELSE 1
  <2>1. CASE u = t
    BY ZenonT(20), <1>6, <1>11, <2>1 DEF SavedInv
  <2>2. CASE u # t
    BY ZenonT(20), <1>6, <1>11, <2>2 DEF SavedInv
  <2> QED
    BY <2>1, <2>2
<1>13. SavedInv'
  BY <1>6, <1>12 DEF SavedInv
<1> QED
  BY <1>10, <1>13

\* Once remove_tuple was called, no tuple that is not spoiled waits in the batch.
LEMMA SpoiledWaits ==
  ASSUME SpoiledInv, NEW u, u \notin spoiled
  PROVE  ~Waits(u)
  BY DEF SpoiledInv, Waits

\* batch_add after remove_tuple: the new entry is spoiled like the others.
LEMMA InsertSpoils ==
  ASSUME StoreInv, BatchInv, SavedInv, NEW t \in todo, t \in Tuples, todo' = todo \ {t},
         InsertTuple(t, TRUE), removed
  PROVE  BatchInv' /\ SavedInv'
<1>1. PICK e : e = [key |-> KeyOf[t], ts |-> {t}]
  OBVIOUS
<1>2. e \in Entry /\ e.ts = {t}
  BY <1>1, KeyAssumption DEF Entry
<1>3. BatchAdd(e) /\ UNCHANGED <<saves, misfiled, removed>> /\ spoiled' = spoiled \cup {t}
  BY <1>1 DEF InsertTuple
<1>4. \A i \in DOMAIN tpiStore' : tpiStore'[i] = e \/ (i \in DOMAIN tpiStore /\ tpiStore'[i] = tpiStore[i])
  <2>0. tpiStore \in Seq(Entry)
    BY DEF StoreInv, TypeOK
  <2>1. CASE holes # <<>>
    <3>1. tpiStore' = [tpiStore EXCEPT ![Head(holes)] = e]
      BY <1>3, <2>1 DEF BatchAdd, BatchSet
    <3> QED
      BY <2>0, <3>1
  <2>2. CASE holes = <<>>
    <3>1. tpiStore' = Append(tpiStore, e)
      BY <1>3, <2>2 DEF BatchAdd
    <3> QED
      BY SMTT(20), Z3T(20), SMTT(30), <1>2, <2>0, <3>1
  <2> QED
    BY <2>1, <2>2
<1>5. SpoiledInv'
  BY <1>2, <1>3, <1>4 DEF BatchInv, SpoiledInv
<1>6. \A u \in Tuples \ spoiled' : ~Waits(u)' /\ ~Waits(u)
  BY ZenonT(20), <1>3, <1>5 DEF BatchInv, SpoiledInv, Waits
<1>7. SavedInv'
  BY ZenonT(20), <1>3, <1>6 DEF SavedInv
<1> QED
  BY <1>3, <1>5, <1>7 DEF BatchInv

\* update_batched_tuple after remove_tuple, or calling it: the tuple and whatever
\* it is merged with are spoiled, and only spoiled tuples are saved.
LEMMA UpdateSpoils ==
  ASSUME StoreInv, BatchInv, SavedInv, NEW t \in todo, t \in Tuples, todo' = todo \ {t},
         NEW canBatch \in BOOLEAN, UpdateBatchedTuple(t, canBatch), removed \/ ~canBatch
  PROVE  BatchInv' /\ SavedInv'
<1>0. tpiStore \in Seq(Entry) /\ \A k \in DOMAIN lookup : lookup[k] \in DOMAIN tpiStore
  BY DEF StoreInv, TypeOK
<1>1. PICK j \in DOMAIN tpiStore : j = lookup[KeyOf[t]]
  BY <1>0 DEF UpdateBatchedTuple, InLookup
<1>2. tpiStore[j] \in Entry
  BY <1>0
<1>3. PICK e : e = [tpiStore[j] EXCEPT !.ts = tpiStore[j].ts \cup {t}]
  OBVIOUS
<1>4. e \in Entry /\ e.ts = tpiStore[j].ts \cup {t}
  BY <1>2, <1>3 DEF Entry
<1>5. PICK pos : pos = lookup[e.key]
  OBVIOUS
<1>6. tpiStore' = [tpiStore EXCEPT ![pos] = e] /\ removed' = TRUE
  BY <1>1, <1>3, <1>5 DEF UpdateBatchedTuple, BatchSet, StoreInv, TypeOK
<1>7. /\ t \in spoiled' /\ spoiled \subseteq spoiled'
      /\ \A i \in DOMAIN tpiStore : tpiStore[i].ts \subseteq spoiled'
  <2>1. CASE canBatch
    BY <2>1 DEF UpdateBatchedTuple, BatchInv, SpoiledInv
  <2>2. CASE ~canBatch
    <3>1. spoiled' = spoiled \cup Held \cup {t}
      BY <2>2 DEF UpdateBatchedTuple
    <3>2. \A i \in DOMAIN tpiStore : tpiStore[i].ts \subseteq Held
      BY DEF Held, Range
    <3> QED
      BY <3>1, <3>2
  <2> QED
    BY <2>1, <2>2
<1>8. e.ts \subseteq spoiled'
  BY <1>1, <1>4, <1>7
<1>9. \A i \in DOMAIN tpiStore' : tpiStore'[i] = e \/ (i \in DOMAIN tpiStore /\ tpiStore'[i] = tpiStore[i])
  BY <1>0, <1>6
<1>10. SpoiledInv'
  BY <1>7, <1>8, <1>9 DEF SpoiledInv
<1>11. ASSUME NEW u \in Tuples \ spoiled'
       PROVE  saves'[u] = saves[u] /\ (u \in misfiled' => u \in misfiled)
  <2>1. CASE canBatch
    BY <2>1 DEF UpdateBatchedTuple
  <2>2. CASE ~canBatch
    <3>1. Save(<<e>>)
      BY <1>1, <1>3, <2>2 DEF UpdateBatchedTuple
    <3> QED
      BY <1>4, <1>8, <3>1, SaveOther DEF StoreInv, TypeOK
  <2> QED
    BY <2>1, <2>2
<1>12. ASSUME NEW u \in Tuples \ spoiled' PROVE ~Waits(u)' /\ ~Waits(u)
  <2>1. ~Waits(u)'
    BY ZenonT(20), <1>10 DEF SpoiledInv, Waits
  <2>2. ~Waits(u)
    BY ZenonT(20), <1>7 DEF Waits
  <2> QED
    BY <2>1, <2>2
<1>13. SavedInv'
  BY ZenonT(20), <1>7, <1>11, <1>12 DEF SavedInv
<1> QED
  BY <1>6, <1>10, <1>13 DEF BatchInv

\* flush() of a batch that remove_tuple was not called on: what lookup points at is
\* every entry, once; what waited is now saved.
LEMMA FlushSaves ==
  ASSUME StoreInv, EntriesInv, SavedInv, Flush
  PROVE  SavedInv'
<1>0. /\ \A k \in DOMAIN lookup : lookup[k] \in DOMAIN tpiStore /\ tpiStore[lookup[k]].key = k
      /\ saves \in [Tuples -> Nat] /\ Compacted = tpiStore
  BY DEF StoreInv, TypeOK, EntriesInv, SavedInv, Compacted
<1>1. PICK Es \in [DOMAIN lookup -> Range(tpiStore)] :
        /\ \A k \in DOMAIN lookup : lookup[k] \in DOMAIN Compacted => Es[k] = Compacted[lookup[k]]
        /\ Save(Es)
  BY DEF Flush
<1>2. Save(Es) /\ DOMAIN Es = DOMAIN lookup /\ \A k \in DOMAIN lookup : Es[k] = tpiStore[lookup[k]]
  BY <1>0, <1>1
<1>3. \A k \in DOMAIN lookup : Es[k].key = k /\ \A t \in Es[k].ts : KeyOf[t] = k
  BY ZenonT(20), <1>0, <1>2 DEF EntriesInv
<1>4. misfiled' = misfiled
  BY <1>2, <1>3 DEF Save
<1>5. ASSUME NEW t \in Tuples PROVE saves'[t] = IF Waits(t) THEN saves[t] + 1 ELSE saves[t]
  <2>1. PICK H : H = {i \in DOMAIN Es : t \in Es[i].ts}
    OBVIOUS
  <2>2. saves'[t] = saves[t] + Cardinality(H) /\ saves[t] \in Nat
    BY <1>0, <1>2, <2>1 DEF Save
  <2>3. CASE Waits(t)
    <3>1. H = {KeyOf[t]}
      BY SMTT(20), Z3T(20), SMTT(30), <1>2, <1>3, <2>1, <2>3 DEF Waits, InLookup
    <3> QED
      BY ZenonT(20), <2>2, <2>3, <3>1, FS_Singleton
  <2>4. CASE ~Waits(t)
    <3>1. H = {}
      BY ZenonT(20), <1>0, <1>2, <1>3, <2>1, <2>4 DEF Waits, InLookup
    <3> QED
      BY SMTT(20), Z3T(20), SMTT(30), <2>2, <2>4, <3>1, FS_EmptySet
  <2> QED
    BY <2>3, <2>4
<1>6. DOMAIN lookup' = {} /\ todo' = todo /\ spoiled' = spoiled
  BY DEF Flush, NoKeys
<1>7. \A t \in Tuples : ~Waits(t)'
  BY <1>6 DEF Waits, InLookup
<1>8. ASSUME NEW t \in Tuples \ spoiled
      PROVE  /\ t \notin misfiled'
             /\ t \in todo' => saves'[t] = 0
             /\ t \notin todo' => saves'[t] = 1
  BY SMTT(20), Z3T(20), SMTT(30), <1>4, <1>5, <1>6 DEF SavedInv
<1> QED
  BY <1>6, <1>7, <1>8 DEF SavedInv

\* flush() of any other batch: whatever it reads, it saves spoiled tuples only.
LEMMA FlushSpoiled ==
  ASSUME StoreInv, SpoiledInv, SavedInv, Flush
  PROVE  SavedInv'
<1>1. PICK Es \in [DOMAIN lookup -> Range(tpiStore)] : Save(Es)
  BY DEF Flush
<1>2. \A k \in DOMAIN Es : Es[k].ts \subseteq spoiled
  <2>1. \A x \in Range(tpiStore) : x.ts \subseteq spoiled
    BY DEF Range, SpoiledInv
  <2> QED
    BY <1>1, <2>1
<1>3. \A u \in Tuples \ spoiled : saves'[u] = saves[u] /\ (u \in misfiled' => u \in misfiled)
  BY <1>1, <1>2, SaveNone DEF StoreInv, TypeOK
<1>4. DOMAIN lookup' = {} /\ todo' = todo /\ spoiled' = spoiled
  BY DEF Flush, NoKeys
<1>5. \A u \in Tuples \ spoiled : ~Waits(u)' /\ ~Waits(u)
  BY <1>4, SpoiledWaits DEF Waits, InLookup
<1> QED
  BY ZenonT(20), <1>3, <1>4, <1>5 DEF SavedInv

\* flush() leaves an empty batch behind.
LEMMA FlushClears ==
  ASSUME Flush
  PROVE  BatchInv'
<1>1. tpiStore' = <<>> /\ DOMAIN lookup' = {} /\ holes' = <<>> /\ removed' = FALSE
  BY DEF Flush, NoKeys
<1>2. EntriesInv'
  BY SMTT(20), Z3T(20), SMTT(30), <1>1 DEF EntriesInv
<1> QED
  BY <1>1, <1>2 DEF BatchInv

\* Whatever can_batch says of one tuple and the next, remove_tuple harms no tuple
\* outside the batch it is called on: every other tuple processed is saved exactly
\* once, in its own cell, or waits in the one entry of its key.
THEOREM SavedOnce == Spec => []EachOnce
<1>1. Init => BatchInv /\ SavedInv
  <2> SUFFICES ASSUME Init PROVE BatchInv /\ SavedInv
    OBVIOUS
  <2>1. /\ tpiStore = <<>> /\ DOMAIN lookup = {} /\ holes = <<>> /\ misfiled = {} /\ todo = Tuples
        /\ removed = FALSE
    BY DEF Init, NoKeys
  <2>2. EntriesInv
    BY SMTT(20), Z3T(20), SMTT(30), <2>1 DEF EntriesInv
  <2>3. \A t \in Tuples : saves[t] = 0 /\ ~Waits(t)
    BY <2>1 DEF Waits, InLookup, Init
  <2> QED
    BY ZenonT(20), <2>1, <2>2, <2>3 DEF BatchInv, SavedInv
<1>2. StoreInv /\ BatchInv /\ SavedInv /\ [Next]_vars => BatchInv' /\ SavedInv'
  <2> SUFFICES ASSUME StoreInv, BatchInv, SavedInv, [Next]_vars PROVE BatchInv' /\ SavedInv'
    OBVIOUS
  <2>0. removed \in BOOLEAN
    BY DEF StoreInv, TypeOK
  <2>1. ASSUME NEW t \in Tuples, Process(t) PROVE BatchInv' /\ SavedInv'
    <3>1. PICK canBatch \in Decisions[KeyOf[t]] :
            InsertTuple(t, canBatch) \/ UpdateBatchedTuple(t, canBatch)
      BY <2>1 DEF Process
    <3>2. t \in todo /\ todo' = todo \ {t} /\ KeyOf[t] \in Keys
      BY <2>1, KeyAssumption DEF Process
    <3>3. canBatch \in BOOLEAN
      BY ZenonT(20), <3>1, <3>2, DecisionAssumption
    <3>4. CASE InsertTuple(t, canBatch) /\ canBatch = FALSE
      BY ZenonT(20), <3>2, <3>4, InsertSaves
    <3>5. CASE canBatch = TRUE /\ ~removed
      <4>1. EntriesInv /\ removed' = removed
        BY <3>1, <3>5 DEF BatchInv, InsertTuple, UpdateBatchedTuple
      <4>2. EntriesInv' /\ SavedInv'
        BY ZenonT(20), <3>1, <3>2, <3>5, <4>1, InsertBatches, UpdateMerges
      <4> QED
        BY <3>5, <4>1, <4>2 DEF BatchInv
    <3>6. CASE InsertTuple(t, canBatch) /\ canBatch = TRUE /\ removed
      BY ZenonT(20), <3>2, <3>6, InsertSpoils
    <3>7. CASE UpdateBatchedTuple(t, canBatch) /\ (removed \/ ~canBatch)
      BY ZenonT(20), <3>2, <3>3, <3>7, UpdateSpoils
    <3> QED
      BY ZenonT(20), <3>1, <3>3, <3>4, <3>5, <3>6, <3>7
  <2>2. ASSUME Flush PROVE BatchInv' /\ SavedInv'
    BY ZenonT(20), <2>0, <2>2, FlushClears, FlushSaves, FlushSpoiled DEF BatchInv
  <2>3. CASE UNCHANGED vars
    BY ZenonT(20), <2>3 DEF vars, BatchInv, EntriesInv, SpoiledInv, SavedInv, Waits, InLookup
  <2> QED
    BY ZenonT(20), <2>1, <2>2, <2>3 DEF Next
<1>3. SavedInv => EachOnce
  BY DEF SavedInv, EachOnce, Waits
<1>4. Spec => []StoreInv
  BY Positions
<1> QED
  BY <1>1, <1>2, <1>3, <1>4, PTL DEF Spec
=============================================================================
