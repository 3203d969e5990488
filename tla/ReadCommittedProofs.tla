------------------------ MODULE ReadCommittedProofs ------------------------
(* What the operations of ReadCommitted do to a table: the lemmas that the  *)
(* proofs about the components share.                                       *)
EXTENDS ReadCommitted, TLAPS

(* A write makes a draft that the writer holds; what is committed stays.    *)
LEMMA WriteEffect ==
    ASSUME NEW Keys, NEW Values, NEW Txns, NEW table \in Table(Keys, Values, Txns),
           NEW r \in Txns, NEW k \in Keys, NEW row \in Values
    PROVE  /\ Write(table, r, k, row) \in Table(Keys, Values, Txns)
           /\ Write(table, r, k, row)[k].row = table[k].row
           /\ Write(table, r, k, row)[k].draft = row
           /\ Write(table, r, k, row)[k].owner = r
           /\ \A j \in Keys \ {k} : Write(table, r, k, row)[j] = table[j]
  BY DEF Table, Write

(* A commit publishes the drafts of its transaction and lets go of them.    *)
LEMMA CommittedEffect ==
    ASSUME NEW Keys, NEW Values, NEW Txns, NEW table \in Table(Keys, Values, Txns), NEW r \in Txns
    PROVE  /\ Committed(table, r) \in Table(Keys, Values, Txns)
           /\ \A k \in Keys :
                IF table[k].owner = r
                THEN /\ Committed(table, r)[k].row = table[k].draft
                     /\ Committed(table, r)[k].draft = table[k].draft
                     /\ Committed(table, r)[k].owner = NoTxn
                ELSE Committed(table, r)[k] = table[k]
  BY DEF Table, Committed, Settled

(* A rollback forgets them.                                                 *)
LEMMA RolledBackEffect ==
    ASSUME NEW Keys, NEW Values, NEW Txns, NEW table \in Table(Keys, Values, Txns), NEW r \in Txns
    PROVE  /\ RolledBack(table, r) \in Table(Keys, Values, Txns)
           /\ \A k \in Keys :
                IF table[k].owner = r
                THEN /\ RolledBack(table, r)[k].row = table[k].row
                     /\ RolledBack(table, r)[k].draft = table[k].row
                     /\ RolledBack(table, r)[k].owner = NoTxn
                ELSE RolledBack(table, r)[k] = table[k]
  BY DEF Table, RolledBack, Settled

(* Owners are transactions, or nobody.                                      *)
LEMMA Owners ==
    ASSUME NEW Keys, NEW Values, NEW Txns, NEW table \in Table(Keys, Values, Txns), NEW k \in Keys
    PROVE  /\ table[k].owner \in Txns \cup {NoTxn}
           /\ table[k].row \in Values
           /\ table[k].draft \in Values
  BY DEF Table
=============================================================================
