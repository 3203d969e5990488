-------------------------- MODULE MCModelBindings --------------------------
(* Model-checking instances of ModelBindings.                              *)
EXTENDS ModelBindings, TLC

CONSTANTS b1, b2

MCBound         == {<<b1, 2>>}
MCBoundTwo      == {<<b1, 1>>, <<b1, 2>>}
MCBodies        == {{}, {2}, {1, 2}, {1, 3}}
MCSlidingBodies == {{}, {1, 2}, {2, 3}, {3, 4}}
Symmetry        == Permutations(Requests)
=============================================================================
