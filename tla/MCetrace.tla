------------------------------ MODULE MCetrace ------------------------------
(* etrace on small instances. *)
EXTENDS etrace, TLC

CONSTANTS e1, e2, l1, l2, l3

TwoEvents == {e1, e2}
TwoListeners == {l1, l2}
ThreeListeners == {l1, l2, l3}
OneEvent == {e1}

Symmetry == Permutations(Events) \cup Permutations(Listeners)
=============================================================================
