--------------------------- MODULE ReadCommitted ---------------------------
(***************************************************************************)
(* A PostgreSQL table at isolation level READ COMMITTED, as the service    *)
(* uses it: repository/session.py creates the engine without an isolation  *)
(* level, and every HTTP request is one transaction.                       *)
(*                                                                         *)
(* A table is a function from keys to slots.  A slot holds the last        *)
(* committed version of the row, the version the transaction that has      *)
(* written it will commit, and that transaction: it owns the row lock      *)
(* until it ends.                                                          *)
(***************************************************************************)

CONSTANT NoTxn          \* no transaction owns the row

Settled(row) == [row |-> row, draft |-> row, owner |-> NoTxn]

Table(Keys, Rows, Txns) ==
    [Keys -> [row : Rows, draft : Rows, owner : Txns \cup {NoTxn}]]

(* What a SELECT of transaction t returns for key k: its own writes, and    *)
(* otherwise the version committed last.  It never waits.                   *)
Visible(table, t, k) ==
    IF table[k].owner = t THEN table[k].draft ELSE table[k].row

(* t can lock the row of key k without waiting for another transaction.     *)
Lockable(table, t, k) == table[k].owner \in {NoTxn, t}

(* An index check of t for some value must wait: another transaction holds  *)
(* a row that has the value now or will have it if that transaction commits.*)
InDoubt(table, t, Has(_)) ==
    \E k \in DOMAIN table :
        /\ ~ Lockable(table, t, k)
        /\ Has(table[k].row) \/ Has(table[k].draft)

Write(table, t, k, row) ==
    [table EXCEPT ![k] = [row |-> @.row, draft |-> row, owner |-> t]]

Committed(table, t) ==
    [k \in DOMAIN table |->
        IF table[k].owner = t THEN Settled(table[k].draft) ELSE table[k]]

RolledBack(table, t) ==
    [k \in DOMAIN table |->
        IF table[k].owner = t THEN Settled(table[k].row) ELSE table[k]]
=============================================================================
