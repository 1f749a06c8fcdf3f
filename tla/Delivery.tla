------------------------------ MODULE Delivery ------------------------------
(***************************************************************************)
(* What a connection between two nodes promises the chain at its far end:  *)
(* items arrive in the order in which the near end took them, each once;   *)
(* an announced end means that nothing is missing; a broken connection     *)
(* may lose a suffix, and nothing comes after it.                          *)
(***************************************************************************)
EXTENDS Queues

CONSTANT Item
VARIABLES
  accepted,   \* items the near end took, in order
  delivered,  \* items the chain at the far end was given
  state       \* "open", "ended" (announced) or "broken", as the far end knows it

vars == <<accepted, delivered, state>>

Init == accepted = <<>> /\ delivered = <<>> /\ state = "open"

Accept ==
  /\ state # "ended"
  /\ \E x, y \in Item : accepted' \in {Append(accepted, x), accepted \o <<x, y>>}
  /\ UNCHANGED <<delivered, state>>

Deliver ==
  /\ state = "open"
  /\ PrefixOf(delivered, delivered') /\ delivered' # delivered /\ PrefixOf(delivered', accepted)
  /\ UNCHANGED <<accepted, state>>

End ==
  /\ state = "open" /\ delivered = accepted
  /\ state' = "ended"
  /\ UNCHANGED <<accepted, delivered>>

Break ==
  /\ state = "open" /\ state' = "broken"
  /\ UNCHANGED <<accepted, delivered>>

Next == Accept \/ Deliver \/ End \/ Break

Spec == Init /\ [][Next]_vars
=============================================================================
