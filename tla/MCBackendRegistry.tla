------------------------- MODULE MCBackendRegistry -------------------------
(* Model-checking instances of BackendRegistry.             *)
EXTENDS BackendRegistry, TLC

CONSTANTS n1, n2, n3, u1, u2, u3

MCBatches  == {<<[name |-> n1, url |-> u2], [name |-> n2, url |-> u3]>>,
               <<[name |-> n2, url |-> u3], [name |-> n1, url |-> u2]>>,
               <<[name |-> n2, url |-> u2], [name |-> n2, url |-> u1]>>}
MCNoBatch  == {}
MCOneRow   == <<[name |-> n1, url |-> u1, state |-> "active", by |-> NoTxn]>>
MCCrossRow == <<[name |-> n3, url |-> u1, state |-> "active", by |-> NoTxn]>>
Symmetry   == Permutations(Requests)
=============================================================================
