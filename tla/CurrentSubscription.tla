------------------------- MODULE CurrentSubscription -------------------------
(***************************************************************************)
(* What the billing component promises the rest of the program, which only *)
(* ever asks an organization for its current subscription: there is at     *)
(* most one (a new organization may start with one, its trial), another    *)
(* becomes current only while there is none, and it stops being current by *)
(* ending.                                                                 *)
(***************************************************************************)
CONSTANT Ids

VARIABLE current   \* the current subscription, if any, as a set

Init == current = {} \/ \E i \in Ids : current = {i}

Begin(i) == current = {} /\ current' = {i}

End(i) == current = {i} /\ current' = {}

Next == \E i \in Ids : Begin(i) \/ End(i)

Spec == Init /\ [][Next]_current

=============================================================================
