------------------------------- MODULE Queues -------------------------------
(* What the properties of the FIFO queues in this project say about a queue. *)
EXTENDS Integers, Sequences

Elems(q) == {q[i] : i \in DOMAIN q}

\* t begins with s.
PrefixOf(s, t) == Len(s) <= Len(t) /\ s = SubSeq(t, 1, Len(s))

\* No member of S is in q twice.
Once(S, q) == \A i, j \in DOMAIN q : q[i] \in S /\ q[i] = q[j] => i = j

\* All that q holds of S is ahead of x.
AllAhead(S, x, q) == \A i, j \in DOMAIN q : q[i] = x /\ q[j] \in S => j < i

\* Wherever x is in q, some y is ahead of it.
SomeAhead(y, x, q) == \A i \in DOMAIN q : q[i] = x => \E j \in DOMAIN q : j < i /\ q[j] = y
=============================================================================
