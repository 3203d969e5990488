----------------------------- MODULE MCDelivery -----------------------------
(* Model-checking instances of Delivery.                                   *)
EXTENDS Delivery, TLC

CONSTANTS c1, c2

MCExpects == (c1 :> 1) @@ (c2 :> 2)
MCSame    == (c1 :> 1) @@ (c2 :> 1)
MCMoved   == {<<c1, c2>>}
=============================================================================
