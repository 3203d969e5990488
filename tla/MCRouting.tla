------------------------------ MODULE MCRouting ------------------------------
(* Model-checking instances of Routing.                                     *)
EXTENDS Routing

MCOffers == {[weight |-> 1, cost |-> 0]}
Symmetry == Permutations(Reporters)
==============================================================================
