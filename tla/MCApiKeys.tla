----------------------------- MODULE MCApiKeys -----------------------------
(* Model-checking instances of ApiKeys.                                    *)
EXTENDS ApiKeys, TLC

CONSTANTS k1, k2, k3, k4

Key(expires, name) ==
    [scopes |-> Scopes, expires |-> expires, revoked |-> Never, used |-> Never,
     name |-> name, by |-> NoTxn]

MCOneKey      == k1 :> Key(Never, "other")
MCSimilarKey  == k1 :> Key(Never, "similar")
MCExpiringKey == k1 :> Key(4, "other")
MCPrefixes == (k1 :> 1) @@ (k2 :> 2) @@ (k3 :> 2)
MCSharedPrefix == (k1 :> 1) @@ (k2 :> 2) @@ (k3 :> 2) @@ (k4 :> 3)
MCExpiries == {Never, 1}
MCGrants   == {{"infer"}}
Symmetry   == Permutations(Requests)
=============================================================================
