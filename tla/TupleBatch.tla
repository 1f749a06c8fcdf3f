----------------------------- MODULE TupleBatch -----------------------------
(***************************************************************************)
(* cube::TupleBatch (src/src/cube/tuple_batch.cc) as DataCube::do_process  *)
(* and batch_flush drive it: entries in tpi_store, a map from key to       *)
(* position, and a list of positions freed by remove_tuple.  An entry is a *)
(* shared TupleProcessingInfo: the key it was made for and the tuples      *)
(* merged into it so far.                                                  *)
(*                                                                         *)
(* can_batch is asked of the subscribers attached at that moment, so it    *)
(* may differ from one tuple of a key to the next.                         *)
(***************************************************************************)
EXTENDS Integers, FiniteSets, SequencesExt

CONSTANTS
  Tuples, Keys, KeyOf,
  Decisions    \* per key: the values can_batch may take in do_process

ASSUME KeyAssumption == KeyOf \in [Tuples -> Keys]
ASSUME DecisionAssumption == Decisions \in [Keys -> SUBSET BOOLEAN]

VARIABLES
  tpiStore,  \* tpi_store, positions from 1
  lookup,    \* key -> position, for the keys it holds
  holes,     \* freed positions, oldest first
  todo,      \* tuples not processed yet
  saves,     \* per tuple: how often it went to the cube's store
  misfiled,  \* tuples that went to the store merged into another key's entry
  \* What happened, for the properties.
  removed,   \* remove_tuple was called on this batch
  spoiled    \* tuples in such a batch, from the first call to its flush

vars == <<tpiStore, lookup, holes, todo, saves, misfiled, removed, spoiled>>

NoKeys == [k \in {} |-> 0]

Init ==
  /\ tpiStore = <<>> /\ lookup = NoKeys /\ holes = <<>>
  /\ todo = Tuples /\ saves = [t \in Tuples |-> 0] /\ misfiled = {}
  /\ removed = FALSE /\ spoiled = {}

\* The tuples merged into entries of the batch.
Held == UNION {e.ts : e \in Range(tpiStore)}

\* size(): its assert(tpi_store.size() >= holes.size()) ends the process.
\* do_process calls it after every change, through is_empty().
Size == Len(tpiStore) - Len(holes)
SizeAssert == Len(tpiStore) >= Len(holes)

InLookup(k) == k \in DOMAIN lookup
Put(k, pos) == [x \in DOMAIN lookup \cup {k} |-> IF x = k THEN pos ELSE lookup[x]]

\* cube->save_tuple or save_tuple_batch of the entries that Es lists.
Save(Es) ==
  /\ saves' = [t \in Tuples |-> saves[t] + Cardinality({i \in DOMAIN Es : t \in Es[i].ts})]
  /\ misfiled' = misfiled \cup
       {t \in Tuples : \E i \in DOMAIN Es : t \in Es[i].ts /\ KeyOf[t] # Es[i].key}

\* batch_set: the entry's own key is looked up at pos from now on.
BatchSet(e, pos) ==
  /\ tpiStore' = [tpiStore EXCEPT ![pos] = e]
  /\ lookup' = Put(e.key, pos)

\* Mutant: pos = tpi_store.size() after push_back.
BatchAddPastEnd(e) ==
  /\ tpiStore' = Append(tpiStore, e)
  /\ lookup' = Put(e.key, Len(tpiStore) + 2)
  /\ UNCHANGED holes

\* batch_add: reuse the oldest hole, or grow.
BatchAdd(e) ==
  IF holes # <<>>
    THEN /\ BatchSet(e, Head(holes))
         /\ holes' = Tail(holes)
    ELSE /\ tpiStore' = Append(tpiStore, e)
         /\ lookup' = Put(e.key, Len(tpiStore) + 1)
         /\ UNCHANGED holes

\* Mutant: a tuple that may not be batched is saved and batched as well.
InsertTupleTwice(t, canBatch) ==
  LET e == [key |-> KeyOf[t], ts |-> {t}] IN
  /\ ~InLookup(KeyOf[t])
  /\ BatchAdd(e)
  /\ IF canBatch THEN UNCHANGED <<saves, misfiled>> ELSE Save(<<e>>)
  /\ UNCHANGED <<removed, spoiled>>

\* do_process on a key that has no entry: insert_tuple.
InsertTuple(t, canBatch) ==
  LET e == [key |-> KeyOf[t], ts |-> {t}] IN
  /\ ~InLookup(KeyOf[t])
  /\ IF canBatch
       THEN /\ BatchAdd(e) /\ UNCHANGED <<saves, misfiled>>
            /\ spoiled' = IF removed THEN spoiled \cup {t} ELSE spoiled
       ELSE Save(<<e>>) /\ UNCHANGED <<tpiStore, lookup, holes, spoiled>>
  /\ UNCHANGED removed

\* do_process on a key that has one: merge into it, then update_batched_tuple.
\* The position comes from the entry's key.  remove_tuple only notes it as free:
\* entry and lookup stay, so a later tuple of the key is merged into the old
\* entry, or into whatever batch_add has put there since.
UpdateBatchedTuple(t, canBatch) ==
  LET found == tpiStore[lookup[KeyOf[t]]]
      e == [found EXCEPT !.ts = @ \cup {t}]
      pos == lookup[e.key] IN
  /\ InLookup(KeyOf[t])
  /\ IF canBatch
       THEN /\ BatchSet(e, pos) /\ UNCHANGED <<holes, saves, misfiled, removed>>
            /\ spoiled' = IF removed THEN spoiled \cup {t} ELSE spoiled
       ELSE /\ holes' = Append(holes, pos)
            /\ tpiStore' = [tpiStore EXCEPT ![pos] = e]
            /\ Save(<<e>>)
            /\ removed' = TRUE /\ spoiled' = spoiled \cup Held \cup {t}
            /\ UNCHANGED lookup

\* DataCube::do_process, as far as the batch sees it.
Process(t) ==
  /\ SizeAssert
  /\ t \in todo /\ todo' = todo \ {t}
  /\ \E canBatch \in Decisions[KeyOf[t]] :
       InsertTuple(t, canBatch) \/ UpdateBatchedTuple(t, canBatch)

\* The store after flush() erased the holes, each erase shifting what follows;
\* vector::erase past the end moves nothing and drops the last entry.
Erase(s, pos) == IF pos \in DOMAIN s THEN RemoveAt(s, pos) ELSE Front(s)
Compacted == IF holes = <<>> THEN tpiStore ELSE FoldLeft(Erase, tpiStore, holes)

\* batch_flush of a batch that is not empty: flush() saves what lookup points
\* at, in one save_tuple_batch.  A position past the end of the compacted vector
\* reads memory the erased entries leave behind: any entry of the old store.
Flush ==
  /\ SizeAssert /\ Size > 0
  /\ \E read \in [DOMAIN lookup -> Range(tpiStore)] :
       /\ \A k \in DOMAIN lookup : lookup[k] \in DOMAIN Compacted => read[k] = Compacted[lookup[k]]
       /\ Save(read)
  /\ tpiStore' = <<>> /\ lookup' = NoKeys /\ holes' = <<>>
  /\ removed' = FALSE
  /\ UNCHANGED <<todo, spoiled>>

Next == (\E t \in Tuples : Process(t)) \/ Flush

Spec == Init /\ [][Next]_vars

-----------------------------------------------------------------------------
Entry == [key : Keys, ts : SUBSET Tuples]

\* Type invariant; an index in lookup is always within the vector.
TypeOK ==
  /\ tpiStore \in Seq(Entry) /\ holes \in Seq(Nat)
  /\ DOMAIN lookup \subseteq Keys /\ \A k \in DOMAIN lookup : lookup[k] \in DOMAIN tpiStore
  /\ todo \subseteq Tuples /\ saves \in [Tuples -> Nat] /\ misfiled \subseteq Tuples
  /\ removed \in BOOLEAN /\ spoiled \subseteq Tuples

\* An unbatched update of a batched key, after which update_batched_tuple leaves
\* a freed position that lookup still names, harms no tuple outside that one
\* batch: every other tuple processed is saved exactly once, in its own cell, or
\* waits in the one entry of its own key.  It is what do_process relies on when
\* it merges into tupleBatcher->get(key), and flush() when it goes through lookup.
EachOnce ==
  \A t \in Tuples \ spoiled :
    LET k == KeyOf[t]
        waits == InLookup(k) /\ lookup[k] \in DOMAIN tpiStore /\ t \in tpiStore[lookup[k]].ts IN
    /\ t \notin misfiled
    /\ t \in todo => saves[t] = 0 /\ ~waits
    /\ t \notin todo => saves[t] = (IF waits THEN 0 ELSE 1)

\* The assertion of size() (tuple_batch.cc:190): no more positions are free than
\* the vector has.
SizeAssertHolds == SizeAssert
=============================================================================
