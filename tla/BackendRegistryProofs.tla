----------------------- MODULE BackendRegistryProofs -----------------------
(* The safety of the backend registry, for any number of requests, names,  *)
(* URLs and backends.                                                      *)
EXTENDS BackendRegistry, FiniteSetTheorems, TLAPS

(* The inductive invariant behind NameUnique and FailedLeavesNothing.       *)

(* A request is where its call leads; whoever is about to update a row has  *)
(* found it.                                                                *)
OpsAt == [checkName |-> {"register"}, checkUrl |-> {"register", "update"},
          resolve |-> {"register"}, insert |-> {"register"}, bulk |-> {"bulk"},
          read |-> {"update", "state"}, write |-> {"update", "state"}]

ControlOK ==
    \A r \in Requests :
        /\ pc[r] \in DOMAIN OpsAt => call[r] \in Calls /\ call[r].op \in OpsAt[pc[r]]
        /\ pc[r] = "write" \/ (pc[r] = "checkUrl" /\ call[r].op = "update")
              => table[call[r].id].row # NoRow

(* Only requests that have written hold row locks; a row that no request    *)
(* holds is settled, and a new row belongs to the request that inserted it. *)
SlotOK(k) ==
    /\ table[k].owner \in Requests => pc[table[k].owner] \in {"bulk", "commit"}
    /\ table[k].owner = NoTxn => table[k].draft = table[k].row
    /\ table[k].row # NoRow => /\ table[k].draft # NoRow
                              /\ table[k].draft.name = table[k].row.name
                              /\ table[k].draft.by = table[k].row.by
    /\ table[k].row = NoRow /\ table[k].draft # NoRow
          => table[k].draft.by = table[k].owner
    /\ k >= nextId => table[k] = Settled(NoRow)

SlotsOK == \A k \in Ids : SlotOK(k)

(* The names are distinct in what would be there if everybody committed.    *)
DraftNamesDistinct ==
    \A j, k \in Ids :
        table[j].draft # NoRow /\ table[k].draft # NoRow /\ table[j].draft.name = table[k].draft.name
            => j = k

(* No row of a request that failed, or that has not ended, is ever visible  *)
(* to others (Database.transaction).                                        *)
FailedLeavesNothing ==
    \A k \in Ids :
        table[k].row # NoRow /\ table[k].row.by \in Requests => pc[table[k].row.by] = "committed"

IInv == TypeOK /\ ControlOK /\ SlotsOK /\ DraftNamesDistinct /\ FailedLeavesNothing

(* What is needed besides for the other properties.  A row has two versions *)
(* at most: the one committed last and the one that is about to be.         *)
Versions(k) == {table[k].row, table[k].draft} \ {NoRow}

(* No version of a row has the URL of a version of another one; a bulk, so  *)
(* far, has only written rows of its own.                                   *)
UrlInv ==
    /\ \A j, k \in Ids : \A v \in Versions(j), w \in Versions(k) : v.url = w.url => j = k
    /\ \A k \in Ids : \A r \in Requests :
          table[k].owner = r /\ pc[r] = "bulk" => table[k].row = NoRow

(* A request counts the rows it has inserted.                               *)
DraftsOf(r) == {k \in Ids : table[k].draft # NoRow /\ table[k].draft.by = r}

CountInv ==
    \A r \in Requests : pc[r] # "rolledBack" => Cardinality(DraftsOf(r)) = inserted[r]

(* A bulk sees the name of every item it is done with.                      *)
BulkOK(r) ==
    /\ pc[r] = "idle" => item[r] = 1
    /\ pc[r] \in {"bulk", "commit", "committed"} /\ call[r].op = "bulk" =>
          /\ pc[r] # "bulk" => item[r] > Len(call[r].items)
          /\ call[r].items \in Seq(Items)
          /\ \A i \in 1..Len(call[r].items) :
                i < item[r] => NameTaken(r, call[r].items[i].name)

BulkInv == \A r \in Requests : BulkOK(r)

(* What a commit is going to show: backends that are new, or a change of    *)
(* one column of one backend.                                               *)
Modified(row) == {[row EXCEPT !.url = url] : url \in Urls}
            \cup {[row EXCEPT !.state = state] : state \in States}

WrittenOK(k) ==
    /\ table[k].row # NoRow => table[k].draft \in {table[k].row} \cup Modified(table[k].row)
    /\ table[k].row = NoRow /\ table[k].draft # NoRow => table[k].draft.state = "active"

WrittenInv ==
    /\ \A k \in Ids : WrittenOK(k)
    /\ \A k \in Ids : \A r \in Requests :
          table[k].owner = r /\ table[k].row # NoRow =>
              pc[r] # "bulk" /\ \A j \in Ids : table[j].owner = r => j = k

-----------------------------------------------------------------------------
USE SizeAssumption, FreshAssumption

(* A bound of the id sequence is not a row: the row operators keep types.   *)
LEMMA WriteKeepsType ==
    ASSUME table \in Table(Ids, Row \cup {NoRow}, Requests),
           NEW r \in Requests, NEW k \in Ids, NEW row \in Row
    PROVE  Write(table, r, k, row) \in Table(Ids, Row \cup {NoRow}, Requests)
  BY DEF Table, Write

LEMMA EndKeepsType ==
    ASSUME table \in Table(Ids, Row \cup {NoRow}, Requests), NEW r \in Requests
    PROVE  /\ Committed(table, r) \in Table(Ids, Row \cup {NoRow}, Requests)
           /\ RolledBack(table, r) \in Table(Ids, Row \cup {NoRow}, Requests)
  BY DEF Table, Committed, RolledBack, Settled

LEMMA InitType == Init => TypeOK
<1> SUFFICES ASSUME Init PROVE TypeOK
  OBVIOUS
<1> USE ExistingAssumption DEF Init
<1>1. table \in Table(Ids, Row \cup {NoRow}, Requests)
  BY DEF Table, Settled, Ids
<1>2. nextId \in 1..(MaxBackends + 1)
  OBVIOUS
<1> QED
  BY <1>1, <1>2 DEF TypeOK

LEMMA InitInv == Init => IInv
<1> SUFFICES ASSUME Init PROVE IInv
  OBVIOUS
<1>1. TypeOK
  BY InitType
<1> USE ExistingAssumption DEF Init, Ids, Settled
<1>2. ControlOK
  BY DEF ControlOK, OpsAt
<1>3. \A k \in Ids : k <= Len(Existing) => Existing[k] \in Row /\ Existing[k] # NoRow
  OBVIOUS
<1>4. SlotsOK
  BY <1>3 DEF SlotsOK, SlotOK
<1>5. DraftNamesDistinct
  <2> SUFFICES ASSUME NEW j \in Ids, NEW k \in Ids,
                      table[j].draft # NoRow, table[k].draft # NoRow,
                      table[j].draft.name = table[k].draft.name
               PROVE  j = k
    BY DEF DraftNamesDistinct
  <2>1. j <= Len(Existing) /\ k <= Len(Existing)
    OBVIOUS
  <2>2. table[j].draft = Existing[j] /\ table[k].draft = Existing[k]
    BY <2>1
  <2>3. j \in DOMAIN Existing /\ k \in DOMAIN Existing
    BY <2>1
  <2> QED
    BY <2>2, <2>3
<1>6. FailedLeavesNothing
  BY <1>3 DEF FailedLeavesNothing
<1> QED
  BY <1>1, <1>2, <1>4, <1>5, <1>6 DEF IInv

(* A step changes the table in one of five ways, one lemma for each.        *)

(* A request moves on without writing.                                      *)
LEMMA MoveStep ==
    ASSUME IInv, NEW r \in Requests, NEW label \in InFlight \cup {"idle"},
           pc[r] \notin Ended,
           pc[r] \in {"bulk", "commit"} => label \in {"bulk", "commit"},
           GoTo(r, label),
           UNCHANGED <<table, nextId, inserted>>,
           call' \in [Requests -> Calls \cup {NoCall}],
           \A s \in Requests \ {r} : call'[s] = call[s],
           label \in DOMAIN OpsAt => call'[r] \in Calls /\ call'[r].op \in OpsAt[label],
           label = "write" \/ (label = "checkUrl" /\ call'[r].op = "update")
               => table[call'[r].id].row # NoRow,
           item' \in [Requests -> Nat \ {0}],
           reply' \in [Requests -> {0, 200, 201, 404, 409, 422, 500}]
    PROVE  IInv'
<1> USE DEF IInv, TypeOK, GoTo
<1>1. TypeOK'
  OBVIOUS
<1>2. ControlOK'
  BY DEF ControlOK
<1>3. SlotsOK'
  BY DEF SlotsOK, SlotOK
<1>4. DraftNamesDistinct'
  BY DEF DraftNamesDistinct
<1>5. FailedLeavesNothing'
  BY DEF FailedLeavesNothing, Ended
<1> QED
  BY <1>1, <1>2, <1>3, <1>4, <1>5

(* A request ends without an effect.                                        *)
LEMMA FailStep ==
    ASSUME IInv, NEW r \in Requests,
           pc[r] \notin Ended,
           table' = RolledBack(table, r),
           GoTo(r, "rolledBack"),
           UNCHANGED <<nextId, inserted>>,
           call' \in [Requests -> Calls \cup {NoCall}],
           \A s \in Requests \ {r} : call'[s] = call[s],
           item' \in [Requests -> Nat \ {0}],
           reply' \in [Requests -> {0, 200, 201, 404, 409, 422, 500}]
    PROVE  IInv'
<1> USE DEF IInv, GoTo
<1>1. TypeOK'
  BY EndKeepsType DEF TypeOK, Ended
<1>2. /\ DOMAIN table = Ids
      /\ pc' = [pc EXCEPT ![r] = "rolledBack"] /\ pc \in [Requests -> {"idle"} \cup InFlight \cup Ended]
      /\ \A k \in Ids : /\ table[k] = [row |-> table[k].row, draft |-> table[k].draft, owner |-> table[k].owner]
                        /\ table[k].owner \in Requests \cup {NoTxn}
  BY DEF Table, TypeOK
<1>3. \A k \in Ids : /\ table'[k].row = table[k].row
                     /\ table'[k].draft = IF table[k].owner = r THEN table[k].row ELSE table[k].draft
                     /\ table'[k].owner = IF table[k].owner = r THEN NoTxn ELSE table[k].owner
                     /\ table[k].owner # r => table'[k] = table[k]
  BY <1>2 DEF RolledBack, Settled
<1>4. ControlOK'
  <2> SUFFICES ASSUME NEW s \in Requests
               PROVE /\ pc'[s] \in DOMAIN OpsAt => call'[s] \in Calls /\ call'[s].op \in OpsAt[pc'[s]]
                     /\ pc'[s] = "write" \/ (pc'[s] = "checkUrl" /\ call'[s].op = "update")
                          => table'[call'[s].id].row # NoRow
    BY DEF ControlOK
  <2>1. CASE s = r
    BY <2>1, <1>2 DEF OpsAt
  <2>2. CASE s # r
    <3>1. pc'[s] = pc[s] /\ call'[s] = call[s]
      BY <2>2, <1>2
    <3>2. pc[s] \in {"write", "checkUrl"} /\ call[s].op \in {"update", "state"} => call[s].id \in Ids
      BY DEF ControlOK, OpsAt, Calls
    <3>3. pc[s] = "write" => call[s].op \in {"update", "state"}
      BY DEF ControlOK, OpsAt
    <3> QED
      BY <3>1, <3>2, <3>3, <1>3 DEF ControlOK
  <2> QED
    BY <2>1, <2>2
<1>5. SlotsOK'
  <2>1. \A k \in Ids : k >= nextId => table'[k] = Settled(NoRow)
    <3>1. \A k \in Ids : k >= nextId => table[k] = Settled(NoRow)
      BY DEF SlotsOK, SlotOK
    <3>2. Settled(NoRow).owner # r
      BY DEF Settled
    <3> QED
      BY <3>1, <3>2, <1>3
  <2>2. ASSUME NEW k \in Ids, table[k].owner = r
        PROVE  /\ table'[k].owner = NoTxn
               /\ table'[k].draft = table'[k].row
    BY <2>2, <1>3
  <2>3. ASSUME NEW k \in Ids, table[k].owner # r
        PROVE  /\ table'[k] = table[k]
               /\ table[k].owner \in Requests => pc'[table[k].owner] = pc[table[k].owner]
    BY <2>3, <1>2, <1>3
  <2>4. nextId' = nextId
    OBVIOUS
  <2> SUFFICES ASSUME NEW k \in Ids
               PROVE  SlotOK(k)'
    BY DEF SlotsOK
  <2>5. CASE table[k].owner = r
    BY <2>1, <2>2, <2>4, <2>5 DEF SlotsOK, SlotOK
  <2>6. CASE table[k].owner # r
    BY <2>1, <2>3, <2>4, <2>6 DEF SlotsOK, SlotOK
  <2> QED
    BY <2>5, <2>6
<1>6. DraftNamesDistinct'
  BY <1>3 DEF DraftNamesDistinct, SlotsOK, SlotOK
<1>7. FailedLeavesNothing'
  BY <1>2, <1>3 DEF FailedLeavesNothing, Ended
<1> QED
  BY <1>1, <1>4, <1>5, <1>6, <1>7

(* A request commits what it has written.                                   *)
LEMMA CommitStep ==
    ASSUME IInv, NEW r \in Requests, Commit(r)
    PROVE  IInv'
<1> USE DEF IInv, GoTo, Commit
<1>1. TypeOK'
  BY EndKeepsType DEF TypeOK, Ended
<1>2. /\ DOMAIN table = Ids
      /\ pc \in [Requests -> {"idle"} \cup InFlight \cup Ended]
      /\ \A k \in Ids : /\ table[k] = [row |-> table[k].row, draft |-> table[k].draft, owner |-> table[k].owner]
                        /\ table[k].owner \in Requests \cup {NoTxn}
  BY DEF Table, TypeOK
<1>3. \A k \in Ids :
        /\ table'[k].draft = table[k].draft
        /\ table[k].owner = r => table'[k].owner = NoTxn /\ table'[k].row = table[k].draft
        /\ table[k].owner # r => table'[k] = table[k]
  BY <1>2 DEF Committed, Settled
<1>4. \A s \in Requests : pc'[s] = IF s = r THEN "committed" ELSE pc[s]
  BY <1>2
<1>5. ControlOK'
  <2>1. \A s \in Requests : pc[s] \in {"write", "checkUrl"} /\ call[s].op \in {"update", "state"}
                              => call[s].id \in Ids
    BY DEF ControlOK, OpsAt, Calls
  <2>2. \A k \in Ids : table[k].row # NoRow => table'[k].row # NoRow
    BY <1>3 DEF SlotsOK, SlotOK
  <2> QED
    BY <1>4, <2>1, <2>2 DEF ControlOK, OpsAt
<1>6. SlotsOK'
  <2> SUFFICES ASSUME NEW k \in Ids
               PROVE  SlotOK(k)'
    BY DEF SlotsOK
  <2>1. k >= nextId => table'[k] = Settled(NoRow)
    <3>1. Settled(NoRow).owner # r
      BY DEF Settled
    <3> QED
      BY <3>1, <1>3 DEF SlotsOK, SlotOK
  <2>2. CASE table[k].owner = r
    BY <2>1, <2>2, <1>3 DEF SlotsOK, SlotOK
  <2>3. CASE table[k].owner # r
    BY <2>1, <2>3, <1>2, <1>3, <1>4 DEF SlotsOK, SlotOK
  <2> QED
    BY <2>2, <2>3
<1>7. DraftNamesDistinct'
  BY <1>3 DEF DraftNamesDistinct
<1>8. FailedLeavesNothing'
  <2> SUFFICES ASSUME NEW k \in Ids, table'[k].row # NoRow, table'[k].row.by \in Requests
               PROVE  pc'[table'[k].row.by] = "committed"
    BY DEF FailedLeavesNothing
  <2>1. CASE table[k].owner = r /\ table[k].row = NoRow
    BY <2>1, <1>3, <1>4 DEF SlotsOK, SlotOK
  <2>2. CASE table[k].owner = r /\ table[k].row # NoRow
    BY <2>2, <1>3, <1>4 DEF SlotsOK, SlotOK, FailedLeavesNothing
  <2>3. CASE table[k].owner # r
    BY <2>3, <1>3, <1>4 DEF FailedLeavesNothing
  <2> QED
    BY <2>1, <2>2, <2>3
<1> QED
  BY <1>1, <1>5, <1>6, <1>7, <1>8

(* What a request that writes to row k changes: the draft of that row.      *)
LEMMA WriteStep ==
    ASSUME IInv, NEW r \in Requests, NEW k \in Ids, NEW row \in Row,
           NEW label \in {"bulk", "commit"},
           pc[r] \in {"insert", "bulk", "write"},
           label = "bulk" => pc[r] = "bulk",
           Lockable(table, r, k),
           table' = Write(table, r, k, row),
           GoTo(r, label),
           UNCHANGED call,
           nextId' \in nextId..(MaxBackends + 1), k < nextId',
           inserted' \in [Requests -> Nat],
           item' \in [Requests -> Nat \ {0}],
           reply' \in [Requests -> {0, 200, 201, 404, 409, 422, 500}],
           table[k].row # NoRow => row.name = table[k].row.name /\ row.by = table[k].row.by,
           table[k].row = NoRow => row.by = r,
           \A j \in Ids \ {k} : table[j].draft # NoRow => table[j].draft.name # row.name
    PROVE  IInv'
<1> USE DEF IInv, GoTo
<1>0. row # NoRow
  OBVIOUS
<1>1. TypeOK'
  <2>1. nextId' \in 1..(MaxBackends + 1)
    BY DEF TypeOK
  <2>2. pc' \in [Requests -> {"idle"} \cup InFlight \cup Ended]
    BY DEF TypeOK, InFlight
  <2> QED
    BY <2>1, <2>2, WriteKeepsType DEF TypeOK
<1>2. /\ DOMAIN table = Ids
      /\ pc \in [Requests -> {"idle"} \cup InFlight \cup Ended]
      /\ nextId \in Nat
      /\ \A j \in Ids : /\ table[j] = [row |-> table[j].row, draft |-> table[j].draft, owner |-> table[j].owner]
                        /\ table[j].owner \in Requests \cup {NoTxn}
  BY DEF Table, TypeOK
<1>3. /\ table'[k].row = table[k].row /\ table'[k].draft = row /\ table'[k].owner = r
      /\ \A j \in Ids \ {k} : table'[j] = table[j]
  BY <1>2 DEF Write
<1>4. \A s \in Requests : pc'[s] = IF s = r THEN label ELSE pc[s]
  BY <1>2
<1>5. ControlOK'
  <2>1. \A s \in Requests : pc[s] \in {"write", "checkUrl"} /\ call[s].op \in {"update", "state"}
                              => call[s].id \in Ids
    BY DEF ControlOK, OpsAt, Calls
  <2>2. \A j \in Ids : table'[j].row = table[j].row
    BY <1>3
  <2>3. label \in DOMAIN OpsAt => label = "bulk"
    BY DEF OpsAt
  <2> QED
    BY <1>4, <2>1, <2>2, <2>3 DEF ControlOK, OpsAt
<1>6. SlotsOK'
  <2> SUFFICES ASSUME NEW j \in Ids
               PROVE  SlotOK(j)'
    BY DEF SlotsOK
  <2>1. CASE j = k
    <3>1. ~ (k >= nextId')
      BY <1>2 DEF Ids
    <3> QED
      BY <2>1, <3>1, <1>0, <1>3, <1>4 DEF SlotOK
  <2>2. CASE j # k
    <3>1. j >= nextId' => j >= nextId
      BY <1>2 DEF Ids
    <3>2. table[j].owner \in Requests => pc'[table[j].owner] \in {"bulk", "commit"}
      BY <1>4 DEF SlotsOK, SlotOK
    <3> QED
      BY <2>2, <3>1, <3>2, <1>3 DEF SlotsOK, SlotOK
  <2> QED
    BY <2>1, <2>2
<1>7. DraftNamesDistinct'
  BY <1>3 DEF DraftNamesDistinct
<1>8. FailedLeavesNothing'
  BY <1>3, <1>4 DEF FailedLeavesNothing
<1> QED
  BY <1>1, <1>5, <1>6, <1>7, <1>8

(* A name that is neither in doubt nor taken is in no draft at all: what    *)
(* the unique index contributes.                                            *)
LEMMA FreeName ==
    ASSUME IInv, NEW r \in Requests, NEW name,
           ~ NameInDoubt(r, name), ~ NameTaken(r, name)
    PROVE  \A k \in Ids : table[k].draft # NoRow => table[k].draft.name # name
<1> SUFFICES ASSUME NEW k \in Ids, table[k].draft # NoRow, table[k].draft.name = name
             PROVE  FALSE
  OBVIOUS
<1>1. DOMAIN table = Ids
  BY DEF IInv, TypeOK, Table
<1>2. Lockable(table, r, k)
  BY <1>1 DEF NameInDoubt, InDoubt
<1>3. Visible(table, r, k) = table[k].draft
  BY <1>2 DEF Lockable, Visible, IInv, SlotsOK, SlotOK
<1> QED
  BY <1>3 DEF NameTaken, FindByName

(* The rows an insertion adds.                                              *)
LEMMA InsertStep ==
    ASSUME IInv, NEW r \in Requests, NEW it, it.name \in Names, it.url \in Urls,
           NEW label \in {"bulk", "commit"},
           pc[r] \in {"insert", "bulk"}, label = "bulk" => pc[r] = "bulk",
           ~ NameInDoubt(r, it.name), ~ NameTaken(r, it.name),
           InsertRow(r, it), GoTo(r, label), UNCHANGED call,
           item' \in [Requests -> Nat \ {0}],
           reply' \in [Requests -> {0, 200, 201, 404, 409, 422, 500}]
    PROVE  IInv'
<1> DEFINE row == [name |-> it.name, url |-> it.url, state |-> "active", by |-> r]
<1>1. row \in Row
  BY DEF Row, States
<1>2. /\ nextId \in Ids /\ nextId' = nextId + 1 /\ table' = Write(table, r, nextId, row)
      /\ inserted' \in [Requests -> Nat]
  BY DEF InsertRow, IInv, TypeOK
<1>3. nextId' \in nextId..(MaxBackends + 1) /\ nextId < nextId'
  BY <1>2 DEF Ids
<1>4. table[nextId] = Settled(NoRow)
  BY <1>2 DEF IInv, SlotsOK, SlotOK, Ids
<1>5. Lockable(table, r, nextId) /\ table[nextId].row = NoRow
  BY <1>4 DEF Lockable, Settled
<1>6. \A j \in Ids \ {nextId} : table[j].draft # NoRow => table[j].draft.name # row.name
  BY FreeName
<1>7. row.by = r
  OBVIOUS
<1> HIDE DEF row
<1> QED
  BY <1>1, <1>2, <1>3, <1>5, <1>6, <1>7, WriteStep

-----------------------------------------------------------------------------
(* Every action preserves the invariant.                                    *)

LEMMA CallsOfOp ==
    ASSUME NEW c \in Calls
    PROVE  /\ c.op \in {"register", "bulk", "update", "state"}
           /\ c.op = "register" => c.name \in Names /\ c.url \in Urls
           /\ c.op = "bulk" => c.items \in Batches
           /\ c.op \in {"update", "state"} => c.id \in Ids
           /\ c.op = "update" => c.url \in Urls \cup {NoUrl}
           /\ c.op = "state" => c.target \in States
  BY DEF Calls

LEMMA ArriveStep ==
    ASSUME IInv, NEW r \in Requests, Arrive(r)
    PROVE  IInv'
<1> PICK c \in Calls : Begin(r, c) \/ Refuse(r, c)
  BY DEF Arrive
<1>1. CASE Begin(r, c)
  <2>1. FirstStatement(c.op) \in InFlight
    BY DEF FirstStatement, InFlight
  <2>2. c.op \in OpsAt[FirstStatement(c.op)] /\ FirstStatement(c.op) \notin {"write", "checkUrl"}
    BY CallsOfOp DEF FirstStatement, OpsAt
  <2> QED
    BY <1>1, <2>1, <2>2, MoveStep DEF Begin, Ended, IInv, TypeOK
<1>2. CASE Refuse(r, c)
  BY <1>2, FailStep DEF Refuse, Fail, Ended, IInv, TypeOK
<1> QED
  BY <1>1, <1>2

(* Each failure of a handler, and an abort.                                 *)
LEMMA FailsKeep ==
    ASSUME IInv, NEW r \in Requests, NEW code \in {404, 409, 422, 500}, pc[r] \in InFlight,
           Fail(r, code), UNCHANGED <<nextId, call, inserted>>, item' \in [Requests -> Nat \ {0}]
    PROVE  IInv'
<1>1. pc[r] \notin Ended
  BY DEF InFlight, Ended
<1>2. reply' \in [Requests -> {0, 200, 201, 404, 409, 422, 500}]
  BY DEF Fail, IInv, TypeOK
<1>3. call' \in [Requests -> Calls \cup {NoCall}] /\ \A s \in Requests \ {r} : call'[s] = call[s]
  BY DEF IInv, TypeOK
<1> QED
  BY <1>1, <1>2, <1>3, FailStep DEF Fail

(* A request of a given operation goes from one statement to the next.      *)
LEMMA GoesOn ==
    ASSUME IInv, NEW r \in Requests, NEW label \in InFlight,
           pc[r] \in InFlight \ {"bulk", "commit"},
           GoTo(r, label), UNCHANGED <<table, nextId, call, inserted, item, reply>>,
           label \in DOMAIN OpsAt => call[r].op \in OpsAt[label],
           label = "write" \/ (label = "checkUrl" /\ call[r].op = "update")
               => table[call[r].id].row # NoRow
    PROVE  IInv'
<1>1. pc[r] \notin Ended /\ pc[r] \notin {"bulk", "commit"}
  BY DEF InFlight, Ended
<1>2. call[r] \in Calls
  BY DEF IInv, ControlOK, OpsAt, InFlight
<1>3. /\ call' \in [Requests -> Calls \cup {NoCall}] /\ \A s \in Requests \ {r} : call'[s] = call[s]
      /\ item' \in [Requests -> Nat \ {0}]
      /\ reply' \in [Requests -> {0, 200, 201, 404, 409, 422, 500}]
  BY DEF IInv, TypeOK
<1> QED
  BY <1>1, <1>2, <1>3, MoveStep

LEMMA CheckNameStep ==
    ASSUME IInv, NEW r \in Requests, CheckName(r)
    PROVE  IInv'
<1>1. pc[r] \in InFlight /\ pc[r] = "checkName" /\ call[r].op = "register"
  BY DEF CheckName, InFlight, IInv, ControlOK, OpsAt
<1>2. item' \in [Requests -> Nat \ {0}]
  BY DEF CheckName, IInv, TypeOK
<1>3. CASE GoTo(r, "checkUrl") /\ UNCHANGED <<table, reply>>
  BY <1>1, <1>3, GoesOn DEF CheckName, OpsAt, InFlight
<1>4. CASE Fail(r, 409)
  BY <1>1, <1>2, <1>4, FailsKeep DEF CheckName
<1> QED
  BY <1>3, <1>4 DEF CheckName

LEMMA CheckUrlStep ==
    ASSUME IInv, NEW r \in Requests, CheckUrl(r)
    PROVE  IInv'
<1>1. pc[r] \in InFlight /\ pc[r] = "checkUrl" /\ call[r].op \in {"register", "update"}
  BY DEF CheckUrl, InFlight, IInv, ControlOK, OpsAt
<1>2. item' \in [Requests -> Nat \ {0}]
  BY DEF CheckUrl, IInv, TypeOK
<1>3. CASE Fail(r, 409) \/ Fail(r, 500)
  BY <1>1, <1>2, <1>3, FailsKeep DEF CheckUrl
<1>4. CASE call[r].op = "update" /\ GoTo(r, "write") /\ UNCHANGED <<table, reply>>
  <2>1. table[call[r].id].row # NoRow
    BY <1>1, <1>4 DEF IInv, ControlOK
  <2> QED
    BY <1>1, <1>4, <2>1, GoesOn DEF CheckUrl, OpsAt, InFlight
<1>5. CASE call[r].op = "register" /\ GoTo(r, "resolve") /\ UNCHANGED <<table, reply>>
  BY <1>1, <1>5, GoesOn DEF CheckUrl, OpsAt, InFlight
<1> QED
  BY <1>1, <1>3, <1>4, <1>5 DEF CheckUrl

LEMMA ResolveModelsStep ==
    ASSUME IInv, NEW r \in Requests, ResolveModels(r)
    PROVE  IInv'
<1>1. pc[r] \in InFlight /\ pc[r] = "resolve" /\ call[r].op = "register"
  BY DEF ResolveModels, InFlight, IInv, ControlOK, OpsAt
<1>2. item' \in [Requests -> Nat \ {0}]
  BY DEF ResolveModels, IInv, TypeOK
<1>3. CASE GoTo(r, "insert") /\ UNCHANGED <<table, reply>>
  BY <1>1, <1>3, GoesOn DEF ResolveModels, OpsAt, InFlight
<1>4. CASE Fail(r, 404)
  BY <1>1, <1>2, <1>4, FailsKeep DEF ResolveModels
<1> QED
  BY <1>3, <1>4 DEF ResolveModels

LEMMA InsertActionStep ==
    ASSUME IInv, NEW r \in Requests, Insert(r)
    PROVE  IInv'
<1>1. pc[r] \in InFlight /\ pc[r] = "insert" /\ call[r] \in Calls /\ call[r].op = "register"
  BY DEF Insert, InFlight, IInv, ControlOK, OpsAt
<1>2. item' \in [Requests -> Nat \ {0}]
  BY DEF Insert, IInv, TypeOK
<1>3. CASE ~ NameTaken(r, call[r].name) /\ InsertRow(r, call[r]) /\ Answer(r, 201)
  <2>1. call[r].name \in Names /\ call[r].url \in Urls
    BY <1>1, CallsOfOp
  <2>2. ~ NameInDoubt(r, call[r].name)
    BY <1>1 DEF Insert, Blocked, MustWait
  <2>3. GoTo(r, "commit") /\ reply' \in [Requests -> {0, 200, 201, 404, 409, 422, 500}] /\ UNCHANGED call
    BY <1>3 DEF Answer, Insert, IInv, TypeOK
  <2> QED
    BY <1>1, <1>2, <1>3, <2>1, <2>2, <2>3, InsertStep
<1>4. CASE Fail(r, 409) /\ UNCHANGED <<nextId, inserted>>
  BY <1>1, <1>2, <1>4, FailsKeep DEF Insert
<1> QED
  BY <1>3, <1>4 DEF Insert

LEMMA BulkItemStep ==
    ASSUME IInv, NEW r \in Requests, BulkItem(r)
    PROVE  IInv'
<1> DEFINE it == call[r].items[item[r]]
<1>1. /\ pc[r] \in InFlight /\ pc[r] = "bulk" /\ call[r] \in Calls /\ call[r].op = "bulk"
      /\ item[r] \in Nat \ {0} /\ item[r] <= Len(call[r].items)
      /\ UNCHANGED call
  BY DEF BulkItem, InFlight, IInv, ControlOK, OpsAt, TypeOK
<1>2. item' \in [Requests -> Nat \ {0}]
  BY DEF BulkItem, IInv, TypeOK
<1>3. it.name \in Names /\ it.url \in Urls
  <2>1. call[r].items \in Seq(Items)
    BY <1>1, CallsOfOp, BatchAssumption
  <2>2. it \in Items
    BY <1>1, <2>1
  <2> QED
    BY <2>2 DEF Items
<1>4. CASE UNCHANGED <<table, nextId, inserted, pc, reply>>
  <2>1. GoTo(r, "bulk")
    BY <1>1, <1>4 DEF GoTo, IInv, TypeOK
  <2>2. /\ call' \in [Requests -> Calls \cup {NoCall}] /\ \A s \in Requests \ {r} : call'[s] = call[s]
        /\ reply' \in [Requests -> {0, 200, 201, 404, 409, 422, 500}]
        /\ call'[r] \in Calls /\ call'[r].op \in OpsAt["bulk"]
    BY <1>1, <1>4 DEF OpsAt, IInv, TypeOK
  <2>3. "bulk" \in InFlight /\ "bulk" \notin Ended
    BY DEF InFlight, Ended
  <2> HIDE DEF it
  <2> QED
    BY <1>1, <1>2, <1>4, <2>1, <2>2, <2>3, MoveStep
<1>5. CASE ~ NameTaken(r, it.name) /\ InsertRow(r, it) /\ UNCHANGED <<pc, reply>>
  <2>1. ~ NameInDoubt(r, it.name)
    BY <1>1 DEF BulkItem, Blocked, MustWait
  <2>2. GoTo(r, "bulk") /\ reply' \in [Requests -> {0, 200, 201, 404, 409, 422, 500}]
    BY <1>1, <1>5 DEF GoTo, IInv, TypeOK
  <2> HIDE DEF it
  <2> QED
    BY <1>1, <1>2, <1>3, <1>5, <2>1, <2>2, InsertStep
<1>6. CASE Fail(r, 409) /\ UNCHANGED <<nextId, inserted>>
  BY <1>1, <1>2, <1>6, FailsKeep
<1> QED
  BY <1>4, <1>5, <1>6 DEF BulkItem

LEMMA BulkDoneStep ==
    ASSUME IInv, NEW r \in Requests, BulkDone(r)
    PROVE  IInv'
<1>1. /\ call' \in [Requests -> Calls \cup {NoCall}] /\ \A s \in Requests \ {r} : call'[s] = call[s]
      /\ item' \in [Requests -> Nat \ {0}]
      /\ reply' \in [Requests -> {0, 200, 201, 404, 409, 422, 500}]
  BY DEF BulkDone, Answer, IInv, TypeOK
<1>2. /\ pc[r] \notin Ended /\ GoTo(r, "commit") /\ "commit" \in InFlight /\ "commit" \notin DOMAIN OpsAt
      /\ UNCHANGED <<table, nextId, inserted>>
  BY DEF BulkDone, Answer, InFlight, Ended, OpsAt
<1> QED
  BY <1>1, <1>2, MoveStep

LEMMA ReadStep ==
    ASSUME IInv, NEW r \in Requests, Read(r)
    PROVE  IInv'
<1> DEFINE c == call[r]
           seen == Visible(table, r, c.id)
<1>1. /\ pc[r] \in InFlight /\ pc[r] = "read" /\ c.op \in {"update", "state"}
      /\ c \in Calls /\ c.id \in Ids
  BY CallsOfOp DEF Read, InFlight, IInv, ControlOK, OpsAt
<1>2. item' \in [Requests -> Nat \ {0}]
  BY DEF Read, IInv, TypeOK
<1>3. CASE Fail(r, 404) \/ Fail(r, 409) \/ Fail(r, 422)
  BY <1>1, <1>2, <1>3, FailsKeep DEF Read
<1>4. CASE seen # NoRow /\ GoTo(r, "write") /\ UNCHANGED <<table, reply>>
  <2>1. table[c.id].owner # r
    BY <1>1 DEF IInv, SlotsOK, SlotOK
  <2>2. table[c.id].row # NoRow
    BY <2>1, <1>4 DEF Visible
  <2> QED
    BY <1>1, <1>4, <2>2, GoesOn DEF Read, OpsAt, InFlight
<1>5. CASE seen # NoRow /\ c.op = "update" /\ GoTo(r, "checkUrl") /\ UNCHANGED <<table, reply>>
  <2>1. table[c.id].owner # r
    BY <1>1 DEF IInv, SlotsOK, SlotOK
  <2>2. table[c.id].row # NoRow
    BY <2>1, <1>5 DEF Visible
  <2> QED
    BY <1>1, <1>5, <2>2, GoesOn DEF Read, OpsAt, InFlight
<1> QED
  BY <1>3, <1>4, <1>5 DEF Read

LEMMA ChangedKeepsIdentity ==
    ASSUME NEW row \in Row, NEW c \in Calls, c.op \in {"update", "state"}
    PROVE  /\ Changed(row, c) \in Row
           /\ Changed(row, c).name = row.name
           /\ Changed(row, c).by = row.by
<1>1. CASE c.op = "state"
  BY <1>1, CallsOfOp DEF Changed, Row
<1>2. CASE c.op = "update"
  BY <1>2, CallsOfOp DEF Changed, Row
<1> QED
  BY <1>1, <1>2

LEMMA ApplyUpdateStep ==
    ASSUME IInv, NEW r \in Requests, ApplyUpdate(r)
    PROVE  IInv'
<1> DEFINE c == call[r]
           row == Changed(table[c.id].draft, c)
<1>1. /\ pc[r] \in InFlight /\ pc[r] = "write" /\ c.op \in {"update", "state"}
      /\ c \in Calls /\ c.id \in Ids
  BY CallsOfOp DEF ApplyUpdate, InFlight, IInv, ControlOK, OpsAt
<1>2. item' \in [Requests -> Nat \ {0}]
  BY DEF ApplyUpdate, IInv, TypeOK
<1>3. CASE Fail(r, 409)
  BY <1>1, <1>2, <1>3, FailsKeep DEF ApplyUpdate
<1>4. CASE table' = Write(table, r, c.id, row) /\ Answer(r, 200)
  <2>1. table[c.id].row # NoRow
    BY <1>1 DEF IInv, ControlOK
  <2>2. /\ table[c.id].draft \in Row
        /\ table[c.id].draft.name = table[c.id].row.name
        /\ table[c.id].draft.by = table[c.id].row.by
    BY <1>1, <2>1 DEF IInv, SlotsOK, SlotOK, TypeOK, Table
  <2>3. row \in Row /\ row.name = table[c.id].draft.name /\ row.by = table[c.id].draft.by
    BY <1>1, <2>2, ChangedKeepsIdentity
  <2>4. Lockable(table, r, c.id)
    BY <1>1 DEF ApplyUpdate, Blocked
  <2>5. nextId' \in nextId..(MaxBackends + 1) /\ c.id < nextId'
    <3>1. nextId' = nextId /\ nextId \in 1..(MaxBackends + 1)
      BY DEF ApplyUpdate, IInv, TypeOK
    <3>2. table[c.id] # Settled(NoRow)
      BY <2>1 DEF Settled
    <3>3. ~ (c.id >= nextId)
      BY <1>1, <3>2 DEF IInv, SlotsOK, SlotOK
    <3> QED
      BY <1>1, <3>1, <3>3 DEF Ids
  <2>6. \A j \in Ids \ {c.id} : table[j].draft # NoRow => table[j].draft.name # row.name
    BY <1>1, <2>2, <2>3 DEF IInv, DraftNamesDistinct
  <2>7. /\ GoTo(r, "commit") /\ UNCHANGED call
        /\ inserted' \in [Requests -> Nat]
        /\ reply' \in [Requests -> {0, 200, 201, 404, 409, 422, 500}]
    BY <1>4 DEF Answer, ApplyUpdate, IInv, TypeOK
  <2> HIDE DEF c, row
  <2> QED
    BY <1>1, <1>2, <1>4, <2>1, <2>2, <2>3, <2>4, <2>5, <2>6, <2>7, WriteStep
<1> QED
  BY <1>3, <1>4 DEF ApplyUpdate

LEMMA LockWaitAbortedStep ==
    ASSUME IInv, NEW r \in Requests, LockWaitAborted(r)
    PROVE  IInv'
<1>1. pc[r] \in InFlight /\ item' \in [Requests -> Nat \ {0}]
  BY DEF LockWaitAborted, Blocked, InFlight, IInv, TypeOK
<1> QED
  BY <1>1, FailsKeep DEF LockWaitAborted

LEMMA AbortedStep ==
    ASSUME IInv, NEW r \in Requests, Aborted(r)
    PROVE  IInv'
<1>1. pc[r] \notin Ended
  BY DEF Aborted, InFlight, Ended
<1>2. /\ item' \in [Requests -> Nat \ {0}]
      /\ call' \in [Requests -> Calls \cup {NoCall}] /\ \A s \in Requests \ {r} : call'[s] = call[s]
      /\ reply' \in [Requests -> {0, 200, 201, 404, 409, 422, 500}]
  BY DEF Aborted, IInv, TypeOK
<1> QED
  BY <1>1, <1>2, FailStep DEF Aborted

LEMMA NextInv == IInv /\ [Next]_vars => IInv'
<1> SUFFICES ASSUME IInv, [Next]_vars PROVE IInv'
  OBVIOUS
<1>1. CASE UNCHANGED vars
  BY <1>1 DEF vars, IInv, TypeOK, ControlOK, SlotsOK, SlotOK, DraftNamesDistinct, FailedLeavesNothing
<1>2. ASSUME NEW r \in Requests, Arrive(r) PROVE IInv'
  BY <1>2, ArriveStep
<1>3. ASSUME NEW r \in Requests, Step(r) PROVE IInv'
  BY <1>3, CheckNameStep, CheckUrlStep, ResolveModelsStep, InsertActionStep, BulkItemStep,
     BulkDoneStep, ReadStep, ApplyUpdateStep, CommitStep, LockWaitAbortedStep DEF Step
<1>4. ASSUME NEW r \in Requests, Aborted(r) PROVE IInv'
  BY <1>4, AbortedStep
<1>5. CASE Done
  BY <1>1, <1>5 DEF Done
<1> QED
  BY <1>1, <1>2, <1>3, <1>4, <1>5 DEF Next

-----------------------------------------------------------------------------

LEMMA Invariance == Spec => []IInv
  BY InitInv, NextInv, PTL DEF Spec

(* Every variable of the registry keeps its type, whatever requests arrive  *)
(* and however their transactions interleave.                               *)
THEOREM TypeCorrect == Spec => []TypeOK
<1>1. IInv => TypeOK
  BY DEF IInv
<1> QED
  BY <1>1, Invariance, PTL

(* Two committed backends never have the same name, however the checks and  *)
(* insertions of register and bulk_register interleave: the unique index    *)
(* on the name is enough, the checks of the service are not needed for it.  *)
THEOREM NamesStayUnique == Spec => []NameUnique
<1>1. IInv => NameUnique
  BY DEF IInv, NameUnique, DraftNamesDistinct, SlotsOK, SlotOK
<1> QED
  BY <1>1, Invariance, PTL

(* A backend is visible to others only once the request that registered it  *)
(* has committed; a failed batch is taken back as a whole.                  *)
THEOREM FailuresLeaveNothing == Spec => []FailedLeavesNothing
<1>1. IInv => FailedLeavesNothing
  BY DEF IInv
<1> QED
  BY <1>1, Invariance, PTL

-----------------------------------------------------------------------------
(* The steps by what they do to the table.                                  *)

Looks(r) ==
    /\ UNCHANGED <<table, inserted>>
    /\ pc[r] \notin Ended
    /\ \E label \in InFlight : GoTo(r, label) /\ (label = "bulk" => pc[r] \in {"idle", "bulk"})

Rolls(r) ==
    /\ pc[r] \notin Ended
    /\ table' = RolledBack(table, r) /\ GoTo(r, "rolledBack") /\ UNCHANGED inserted

InsertsOne(r, it) ==
    /\ pc[r] \in {"insert", "bulk"}
    /\ it.name \in Names /\ it.url \in Urls
    /\ ~ NameInDoubt(r, it.name) /\ ~ UrlInDoubt(r, it.url)
    /\ ~ NameTaken(r, it.name) /\ ~ UrlTaken(r, it.url, {})
    /\ InsertRow(r, it)
    /\ GoTo(r, IF pc[r] = "bulk" THEN "bulk" ELSE "commit")

Updates(r) ==
    LET c == call[r]
    IN  /\ pc[r] = "write" /\ c \in Calls /\ c.op \in {"update", "state"} /\ c.id \in Ids
        /\ table[c.id].row # NoRow /\ Lockable(table, r, c.id)
        /\ c.op = "update" => ~ UrlInDoubt(r, c.url) /\ ~ UrlTaken(r, c.url, {c.id})
        /\ table' = Write(table, r, c.id, Changed(table[c.id].draft, c))
        /\ GoTo(r, "commit") /\ UNCHANGED inserted

LEMMA InsertEffect ==
    ASSUME IInv, NEW r \in Requests, Insert(r)
    PROVE  Rolls(r) \/ \E it : InsertsOne(r, it)
<1>1. pc[r] = "insert" /\ call[r] \in Calls /\ call[r].op = "register" /\ ~ MustWait(r, call[r])
  BY DEF Insert, Blocked, IInv, ControlOK, OpsAt
<1>2. call[r].name \in Names /\ call[r].url \in Urls
  BY <1>1, CallsOfOp
<1>3. CASE ~ NameTaken(r, call[r].name) /\ ~ UrlTaken(r, call[r].url, {}) /\ InsertRow(r, call[r]) /\ Answer(r, 201)
  <2>1. InsertsOne(r, call[r])
    BY <1>1, <1>2, <1>3 DEF InsertsOne, Answer, MustWait
  <2> QED
    BY <2>1
<1>4. CASE Fail(r, 409) /\ UNCHANGED <<nextId, inserted>>
  BY <1>1, <1>4 DEF Rolls, Fail, Ended
<1> QED
  BY <1>3, <1>4 DEF Insert

LEMMA BulkEffect ==
    ASSUME IInv, NEW r \in Requests, BulkItem(r)
    PROVE  \/ Looks(r) /\ pc' = pc /\ NameTaken(r, call[r].items[item[r]].name)
           \/ Rolls(r)
           \/ InsertsOne(r, call[r].items[item[r]])
<1> DEFINE it == call[r].items[item[r]]
<1>1. /\ pc[r] = "bulk" /\ call[r] \in Calls /\ call[r].op = "bulk" /\ ~ MustWait(r, it)
      /\ item[r] \in Nat \ {0} /\ item[r] <= Len(call[r].items)
  BY DEF BulkItem, Blocked, IInv, ControlOK, OpsAt, TypeOK
<1>2. it \in Items
  BY <1>1, CallsOfOp, BatchAssumption
<1>3. GoTo(r, "bulk") <=> pc' = pc
  BY <1>1 DEF GoTo, IInv, TypeOK
<1>4. CASE NameTaken(r, it.name) /\ UNCHANGED <<table, nextId, inserted, pc, reply>>
  BY <1>1, <1>3, <1>4 DEF Looks, InFlight, Ended
<1>5. CASE ~ NameTaken(r, it.name) /\ ~ UrlTaken(r, it.url, {}) /\ InsertRow(r, it) /\ UNCHANGED <<pc, reply>>
  <2>1. InsertsOne(r, it)
    BY <1>1, <1>2, <1>3, <1>5 DEF InsertsOne, MustWait, Items
  <2> QED
    BY <2>1
<1>6. CASE Fail(r, 409) /\ UNCHANGED <<nextId, inserted>>
  BY <1>1, <1>6 DEF Rolls, Fail, Ended
<1> QED
  BY <1>4, <1>5, <1>6 DEF BulkItem

LEMMA UpdateEffect ==
    ASSUME IInv, NEW r \in Requests, ApplyUpdate(r)
    PROVE  Rolls(r) \/ Updates(r)
<1>1. /\ pc[r] = "write" /\ call[r].op \in {"update", "state"}
      /\ call[r] \in Calls /\ call[r].id \in Ids /\ table[call[r].id].row # NoRow
      /\ Lockable(table, r, call[r].id)
      /\ call[r].op = "update" => ~ UrlInDoubt(r, call[r].url)
  BY CallsOfOp DEF ApplyUpdate, Blocked, IInv, ControlOK, OpsAt
<1>2. CASE Fail(r, 409)
  BY <1>1, <1>2 DEF Rolls, Fail, Ended, ApplyUpdate
<1>3. CASE /\ call[r].op = "update" => ~ UrlTaken(r, call[r].url, {call[r].id})
           /\ table' = Write(table, r, call[r].id, Changed(table[call[r].id].draft, call[r]))
           /\ Answer(r, 200)
  BY <1>1, <1>3 DEF Updates, Answer, ApplyUpdate
<1> QED
  BY <1>2, <1>3 DEF ApplyUpdate

LEMMA LookEffect ==
    ASSUME IInv, NEW r \in Requests,
           Arrive(r) \/ CheckName(r) \/ CheckUrl(r) \/ ResolveModels(r) \/ BulkDone(r) \/ Read(r)
             \/ LockWaitAborted(r) \/ Aborted(r)
    PROVE  Looks(r) \/ Rolls(r)
<1>1. \A label \in {"checkName", "checkUrl", "resolve", "insert", "bulk", "read", "write", "commit"} :
         label \in InFlight
  BY DEF InFlight
<1>2. CASE Arrive(r)
  <2>1. PICK c \in Calls : Begin(r, c) \/ Refuse(r, c)
    BY <1>2 DEF Arrive
  <2>2. FirstStatement(c.op) \in InFlight
    BY DEF FirstStatement, InFlight
  <2> QED
    BY <2>1, <2>2 DEF Begin, Refuse, Fail, Looks, Rolls, Ended
<1>3. CASE CheckName(r) \/ CheckUrl(r) \/ ResolveModels(r)
  <2>1. CASE Fail(r, 409) \/ Fail(r, 500) \/ Fail(r, 404)
    BY <1>3, <2>1 DEF CheckName, CheckUrl, ResolveModels, Fail, Rolls, Ended
  <2>2. CASE UNCHANGED table /\ \E label \in {"checkUrl", "write", "resolve", "insert"} : GoTo(r, label)
    BY <1>1, <1>3, <2>2 DEF CheckName, CheckUrl, ResolveModels, Looks, Ended
  <2> QED
    BY <1>3, <2>1, <2>2 DEF CheckName, CheckUrl, ResolveModels
<1>4. CASE BulkDone(r)
  BY <1>1, <1>4 DEF BulkDone, Answer, Looks, Ended
<1>5. CASE Read(r)
  <2>1. CASE Fail(r, 404) \/ Fail(r, 422) \/ Fail(r, 409)
    BY <1>5, <2>1 DEF Read, Fail, Rolls, Ended
  <2>2. CASE UNCHANGED table /\ \E label \in {"checkUrl", "write"} : GoTo(r, label)
    BY <1>1, <1>5, <2>2 DEF Read, Looks, Ended
  <2> QED
    BY <1>5, <2>1, <2>2 DEF Read
<1>6. CASE LockWaitAborted(r) \/ Aborted(r)
  BY <1>6 DEF LockWaitAborted, Blocked, Aborted, Fail, Rolls, Ended, InFlight
<1> QED
  BY <1>2, <1>3, <1>4, <1>5, <1>6

LEMMA Effects ==
    ASSUME IInv, [Next]_vars
    PROVE  \/ UNCHANGED <<table, pc, inserted>>
           \/ \E r \in Requests : \/ Looks(r) \/ Rolls(r) \/ Commit(r) \/ Updates(r)
                                  \/ \E it : InsertsOne(r, it)
<1>1. ASSUME NEW r \in Requests, Step(r)
      PROVE  Looks(r) \/ Rolls(r) \/ Commit(r) \/ Updates(r) \/ \E it : InsertsOne(r, it)
  BY <1>1, InsertEffect, BulkEffect, UpdateEffect, LookEffect DEF Step
<1>2. ASSUME NEW r \in Requests, Arrive(r) \/ Aborted(r) PROVE Looks(r) \/ Rolls(r)
  BY <1>2, LookEffect
<1> QED
  BY <1>1, <1>2 DEF Next, Done, vars

LEMMA SlotFacts ==
    ASSUME IInv
    PROVE  /\ DOMAIN table = Ids
           /\ \A k \in Ids : /\ table[k].row \in Row \cup {NoRow} /\ table[k].draft \in Row \cup {NoRow}
                             /\ table[k].owner \in Requests \cup {NoTxn}
           /\ \A k \in Ids : SlotOK(k)
  BY DEF IInv, TypeOK, Table, SlotsOK

LEMMA PcAfter ==
    ASSUME IInv, NEW r \in Requests, NEW label, GoTo(r, label), NEW s \in Requests
    PROVE  pc'[s] = IF s = r THEN label ELSE pc[s]
  BY DEF GoTo, IInv, TypeOK

LEMMA RollSlots ==
    ASSUME IInv, NEW r, Rolls(r), NEW k \in Ids
    PROVE  /\ table'[k].row = table[k].row
           /\ table'[k].draft = IF table[k].owner = r THEN table[k].row ELSE table[k].draft
           /\ table'[k].owner = IF table[k].owner = r THEN NoTxn ELSE table[k].owner
  BY SlotFacts DEF Rolls, RolledBack, Settled

LEMMA CommitSlots ==
    ASSUME IInv, NEW r, Commit(r), NEW k \in Ids
    PROVE  /\ table'[k].draft = table[k].draft
           /\ table'[k].row = IF table[k].owner = r THEN table[k].draft ELSE table[k].row
           /\ table'[k].owner = IF table[k].owner = r THEN NoTxn ELSE table[k].owner
  BY SlotFacts DEF Commit, Committed, Settled

LEMMA WriteSlots ==
    ASSUME IInv, NEW r, NEW j \in Ids, NEW row, table' = Write(table, r, j, row), NEW k \in Ids
    PROVE  /\ table'[k].row = table[k].row
           /\ table'[k].draft = IF k = j THEN row ELSE table[k].draft
           /\ table'[k].owner = IF k = j THEN r ELSE table[k].owner
  BY SlotFacts DEF Write, IInv, TypeOK, Table

(* A request that has not begun to write holds no row.                      *)
LEMMA HoldsNone ==
    ASSUME IInv, NEW r \in Requests, pc[r] \notin {"bulk", "commit"}, NEW k \in Ids
    PROVE  table[k].owner # r
  BY SlotFacts DEF SlotOK

(* The row an insertion writes.                                             *)
LEMMA InsertSlots ==
    ASSUME IInv, NEW r \in Requests, NEW it, InsertsOne(r, it)
    PROVE  \E row \in Row :
              /\ row.name = it.name /\ row.url = it.url /\ row.by = r /\ row.state = "active"
              /\ nextId \in Ids /\ table[nextId] = Settled(NoRow)
              /\ table' = Write(table, r, nextId, row)
<1> DEFINE row == [name |-> it.name, url |-> it.url, state |-> "active", by |-> r]
<1>1. row \in Row /\ row.name = it.name /\ row.url = it.url /\ row.by = r /\ row.state = "active"
  BY DEF InsertsOne, Row, States
<1>2. nextId \in Ids /\ table' = Write(table, r, nextId, row)
  BY DEF InsertsOne, InsertRow
<1>3. table[nextId] = Settled(NoRow)
  BY <1>2, SlotFacts DEF SlotOK, Ids
<1> HIDE DEF row
<1> QED
  BY <1>1, <1>2, <1>3

(* The row an update writes.                                                *)
LEMMA UpdateSlots ==
    ASSUME IInv, NEW r \in Requests, Updates(r)
    PROVE  \E row \in Row :
              /\ table[call[r].id].row # NoRow /\ table[call[r].id].draft # NoRow
              /\ row.name = table[call[r].id].draft.name /\ row.by = table[call[r].id].draft.by
              /\ \/ row.url = table[call[r].id].draft.url
                 \/ call[r].op = "update" /\ row.url = call[r].url
              /\ row \in {table[call[r].id].draft} \cup Modified(table[call[r].id].draft)
              /\ table' = Write(table, r, call[r].id, row)
<1> DEFINE c == call[r]
           old == table[c.id].draft
<1>1. c \in Calls /\ c.op \in {"update", "state"} /\ c.id \in Ids /\ table[c.id].row # NoRow
  BY DEF Updates
<1>2. old \in Row /\ old # NoRow
  BY <1>1, SlotFacts DEF SlotOK
<1>3. Changed(old, c) \in Row /\ Changed(old, c).name = old.name /\ Changed(old, c).by = old.by
  BY <1>1, <1>2, ChangedKeepsIdentity
<1>4. Changed(old, c).url = old.url \/ (c.op = "update" /\ Changed(old, c).url = c.url)
  BY <1>1, <1>2 DEF Changed, Row
<1>5. Changed(old, c) \in {old} \cup Modified(old)
  BY <1>1, CallsOfOp DEF Changed, Modified
<1>6. table' = Write(table, r, c.id, Changed(old, c))
  BY DEF Updates
<1> QED
  BY <1>1, <1>2, <1>3, <1>4, <1>5, <1>6

-----------------------------------------------------------------------------
(* URLs that have a unique index.                                           *)

LEMMA FreeUrl ==
    ASSUME IInv, "url" \in UniqueColumns, NEW r \in Requests, NEW url, NEW own,
           ~ UrlInDoubt(r, url), ~ UrlTaken(r, url, own),
           NEW k \in Ids \ own, table[k].owner = r => table[k].row = NoRow,
           NEW v \in Versions(k)
    PROVE  v.url # url
<1> SUFFICES ASSUME v.url = url PROVE FALSE
  OBVIOUS
<1>1. v # NoRow /\ (v = table[k].row \/ v = table[k].draft)
  BY DEF Versions
<1>2. Lockable(table, r, k)
  BY <1>1, SlotFacts DEF UrlInDoubt, InDoubt
<1>3. v = Visible(table, r, k)
  BY <1>1, <1>2, SlotFacts DEF Lockable, Visible, SlotOK
<1> QED
  BY <1>1, <1>3 DEF UrlTaken, FindByUrl

(* A row is written whose URL no other row has.                             *)
LEMMA UrlWrite ==
    ASSUME IInv, UrlInv, NEW r \in Requests, NEW j \in Ids, NEW row,
           table' = Write(table, r, j, row),
           \A k \in Ids \ {j} : \A v \in Versions(k) : v.url # row.url,
           \/ GoTo(r, "commit")
           \/ GoTo(r, "bulk") /\ pc[r] = "bulk" /\ table[j].row = NoRow
    PROVE  UrlInv'
<1>1. ASSUME NEW k \in Ids
      PROVE  /\ k # j => Versions(k)' = Versions(k)
             /\ k = j => Versions(k)' \subseteq Versions(k) \cup {row}
  BY WriteSlots DEF Versions
<1>2. ASSUME NEW k \in Ids, NEW m \in Ids, NEW v \in Versions(k)', NEW w \in Versions(m)', v.url = w.url
      PROVE  k = m
  <2>1. CASE k = j /\ m # j
    <3>1. w \in Versions(m) /\ (v \in Versions(k) \/ v = row)
      BY <1>1, <2>1
    <3> QED
      BY <1>2, <2>1, <3>1 DEF UrlInv
  <2>2. CASE k # j /\ m = j
    <3>1. v \in Versions(k) /\ (w \in Versions(m) \/ w = row)
      BY <1>1, <2>2
    <3> QED
      BY <1>2, <2>2, <3>1 DEF UrlInv
  <2>3. CASE k # j /\ m # j
    <3>1. v \in Versions(k) /\ w \in Versions(m)
      BY <1>1, <2>3
    <3> QED
      BY <1>2, <3>1 DEF UrlInv
  <2> QED
    BY <2>1, <2>2, <2>3
<1>3. ASSUME NEW k \in Ids, NEW s \in Requests, table'[k].owner = s, pc'[s] = "bulk"
      PROVE  table'[k].row = NoRow
  <2>1. table'[k].row = table[k].row /\ table'[k].owner = IF k = j THEN r ELSE table[k].owner
    BY WriteSlots
  <2>2. pc[s] = "bulk"
    BY <1>3, PcAfter
  <2>3. s = r => table[j].row = NoRow
    BY <1>3, PcAfter
  <2> QED
    BY <1>3, <2>1, <2>2, <2>3 DEF UrlInv
<1> QED
  BY <1>2, <1>3 DEF UrlInv

LEMMA UrlNext ==
    ASSUME IInv, UrlInv, [Next]_vars, "url" \in UniqueColumns
    PROVE  UrlInv'
<1>1. CASE UNCHANGED <<table, pc, inserted>>
  BY <1>1 DEF UrlInv, Versions
<1>2. ASSUME NEW r \in Requests, Looks(r) PROVE UrlInv'
  <2>1. \A k \in Ids : Versions(k)' = Versions(k)
    BY <1>2 DEF Looks, Versions
  <2>2. PICK label \in InFlight : GoTo(r, label) /\ (label = "bulk" => pc[r] \in {"idle", "bulk"})
    BY <1>2 DEF Looks
  <2>3. ASSUME NEW k \in Ids, NEW s \in Requests, table[k].owner = s, pc'[s] = "bulk"
        PROVE  table[k].row = NoRow
    <3>1. pc[s] \in {"idle", "bulk"}
      BY <2>2, <2>3, PcAfter
    <3> QED
      BY <2>3, <3>1, HoldsNone DEF UrlInv
  <2> QED
    BY <1>2, <2>1, <2>3 DEF Looks, UrlInv
<1>3. ASSUME NEW r \in Requests, Rolls(r) \/ Commit(r) PROVE UrlInv'
  <2>1. \A k \in Ids : Versions(k)' \subseteq Versions(k)
    BY <1>3, RollSlots, CommitSlots DEF Versions
  <2>2. GoTo(r, "rolledBack") \/ GoTo(r, "committed")
    BY <1>3 DEF Rolls, Commit
  <2>3. ASSUME NEW k \in Ids, NEW s \in Requests, table'[k].owner = s, pc'[s] = "bulk"
        PROVE  table'[k].row = NoRow
    <3>1. s # r /\ pc[s] = "bulk"
      BY <2>2, <2>3, PcAfter
    <3>2. table[k].owner = s /\ table'[k].row = table[k].row
      BY <1>3, <2>3, <3>1, RollSlots, CommitSlots, FreshAssumption
    <3> QED
      BY <3>1, <3>2 DEF UrlInv
  <2> QED
    BY <2>1, <2>3 DEF UrlInv
<1>4. ASSUME NEW r \in Requests, NEW it, InsertsOne(r, it) PROVE UrlInv'
  <2>1. PICK row \in Row : /\ row.url = it.url
                           /\ nextId \in Ids /\ table[nextId] = Settled(NoRow)
                           /\ table' = Write(table, r, nextId, row)
    BY <1>4, InsertSlots
  <2>2. \A k \in Ids : table[k].owner = r => table[k].row = NoRow
    BY <1>4, HoldsNone DEF InsertsOne, UrlInv
  <2>3. ~ UrlInDoubt(r, it.url) /\ ~ UrlTaken(r, it.url, {})
    BY <1>4 DEF InsertsOne
  <2>4. \A k \in Ids \ {nextId} : \A v \in Versions(k) : v.url # row.url
    BY <2>1, <2>2, <2>3, FreeUrl
  <2>5. GoTo(r, "commit") \/ (GoTo(r, "bulk") /\ pc[r] = "bulk")
    BY <1>4 DEF InsertsOne
  <2>6. table[nextId].row = NoRow
    BY <2>1 DEF Settled
  <2> QED
    BY <2>1, <2>4, <2>5, <2>6, UrlWrite
<1>5. ASSUME NEW r \in Requests, Updates(r) PROVE UrlInv'
  <2>0. PICK j \in Ids : j = call[r].id
    BY <1>5 DEF Updates
  <2>1. PICK row \in Row : /\ table[j].draft # NoRow
                           /\ row.url = table[j].draft.url \/ (call[r].op = "update" /\ row.url = call[r].url)
                           /\ table' = Write(table, r, j, row)
    BY <1>5, <2>0, UpdateSlots
  <2>2. GoTo(r, "commit") /\ pc[r] = "write"
    BY <1>5 DEF Updates
  <2>3. CASE row.url = table[j].draft.url
    <3>1. table[j].draft \in Versions(j)
      BY <2>1 DEF Versions
    <3>2. \A k \in Ids \ {j} : \A v \in Versions(k) : v.url # row.url
      BY <2>3, <3>1 DEF UrlInv
    <3> QED
      BY <2>1, <2>2, <3>2, UrlWrite
  <2>4. CASE call[r].op = "update" /\ row.url = call[r].url
    <3>1. ~ UrlInDoubt(r, row.url) /\ ~ UrlTaken(r, row.url, {j})
      BY <1>5, <2>0, <2>4 DEF Updates
    <3>2. \A k \in Ids : table[k].owner # r
      BY <2>2, HoldsNone
    <3>3. \A k \in Ids \ {j} : \A v \in Versions(k) : v.url # row.url
      BY <3>1, <3>2, FreeUrl
    <3> QED
      BY <2>1, <2>2, <3>3, UrlWrite
  <2> QED
    BY <2>1, <2>3, <2>4
<1> QED
  BY <1>1, <1>2, <1>3, <1>4, <1>5, Effects

(* With a unique index on the URL too, no two committed backends ever have  *)
(* the same URL, also where bulk_register and update insert and change it   *)
(* without having looked for it in the same statement.                      *)
THEOREM UrlsStayUnique ==
    ASSUME "url" \in UniqueColumns,
           \A i, j \in DOMAIN Existing : Existing[i].url = Existing[j].url => i = j
    PROVE  Spec => []UrlUnique
<1>1. ASSUME Init PROVE UrlInv
  <2>1. \A k \in Ids : Versions(k) = (IF k <= Len(Existing) THEN {Existing[k]} ELSE {NoRow}) \ {NoRow}
    BY <1>1 DEF Init, Versions, Settled
  <2>2. \A k \in Ids : k <= Len(Existing) => k \in DOMAIN Existing
    BY ExistingAssumption DEF Ids
  <2>3. \A r \in Requests : pc[r] # "bulk"
    BY <1>1 DEF Init
  <2> QED
    BY <2>1, <2>2, <2>3 DEF UrlInv
<1>2. IInv /\ UrlInv /\ [Next]_vars => UrlInv'
  BY UrlNext
<1>3. UrlInv => UrlUnique
  BY DEF UrlInv, UrlUnique, Versions
<1> QED
  BY <1>1, <1>2, <1>3, Invariance, PTL DEF Spec

-----------------------------------------------------------------------------
(* What a request counts.                                                   *)

(* A row keeps the request that has inserted it, unless that one rolls back.*)
LEMMA DraftsStay ==
    ASSUME IInv, NEW r \in Requests, NEW s \in Requests,
           \/ Rolls(r) /\ s # r
           \/ Commit(r)
           \/ Updates(r)
           \/ \E it : InsertsOne(r, it) /\ s # r
    PROVE  DraftsOf(s)' = DraftsOf(s)
<1> SUFFICES ASSUME NEW k \in Ids
             PROVE  table'[k].draft # NoRow /\ table'[k].draft.by = s
                       <=> table[k].draft # NoRow /\ table[k].draft.by = s
  BY DEF DraftsOf
<1>1. CASE Rolls(r) /\ s # r
  <2>1. table'[k].draft = IF table[k].owner = r THEN table[k].row ELSE table[k].draft
    BY <1>1, RollSlots
  <2> QED
    BY <1>1, <2>1, SlotFacts DEF SlotOK
<1>2. CASE Commit(r)
  BY <1>2, CommitSlots
<1>3. CASE Updates(r)
  <2>0. PICK j \in Ids : j = call[r].id
    BY <1>3 DEF Updates
  <2>1. PICK row \in Row : /\ table[j].draft # NoRow /\ row.by = table[j].draft.by
                           /\ table' = Write(table, r, j, row)
    BY <1>3, <2>0, UpdateSlots
  <2>2. table'[k].draft = IF k = j THEN row ELSE table[k].draft
    BY <2>1, WriteSlots
  <2> QED
    BY <2>1, <2>2
<1>4. CASE \E it : InsertsOne(r, it) /\ s # r
  <2>1. PICK it : InsertsOne(r, it)
    BY <1>4
  <2>2. PICK row \in Row : /\ row.by = r /\ nextId \in Ids /\ table[nextId] = Settled(NoRow)
                           /\ table' = Write(table, r, nextId, row)
    BY <2>1, InsertSlots
  <2>3. table'[k].draft = IF k = nextId THEN row ELSE table[k].draft
    BY <2>2, WriteSlots
  <2> QED
    BY <1>4, <2>2, <2>3 DEF Settled
<1> QED
  BY <1>1, <1>2, <1>3, <1>4

LEMMA CountNext ==
    ASSUME IInv, CountInv, [Next]_vars
    PROVE  CountInv'
<1> SUFFICES ASSUME NEW s \in Requests, pc'[s] # "rolledBack"
             PROVE  Cardinality(DraftsOf(s)') = inserted'[s]
  BY DEF CountInv
<1>1. CASE UNCHANGED <<table, pc, inserted>>
  BY <1>1 DEF CountInv, DraftsOf
<1>2. ASSUME NEW r \in Requests, Looks(r) PROVE Cardinality(DraftsOf(s)') = inserted'[s]
  <2>1. DraftsOf(s)' = DraftsOf(s) /\ inserted' = inserted
    BY <1>2 DEF Looks, DraftsOf
  <2>2. PICK label : GoTo(r, label)
    BY <1>2 DEF Looks
  <2>3. pc[s] # "rolledBack"
    BY <1>2, <2>2, PcAfter DEF Looks, Ended
  <2> QED
    BY <2>1, <2>3 DEF CountInv
<1>3. ASSUME NEW r \in Requests, Rolls(r) PROVE Cardinality(DraftsOf(s)') = inserted'[s]
  <2>1. s # r /\ pc[s] # "rolledBack"
    BY <1>3, PcAfter DEF Rolls
  <2> QED
    BY <1>3, <2>1, DraftsStay DEF CountInv, Rolls
<1>4. ASSUME NEW r \in Requests, Commit(r) \/ Updates(r) PROVE Cardinality(DraftsOf(s)') = inserted'[s]
  <2>1. inserted' = inserted /\ pc[r] # "rolledBack" /\ (GoTo(r, "committed") \/ GoTo(r, "commit"))
    BY <1>4 DEF Commit, Updates
  <2>2. pc[s] # "rolledBack"
    BY <2>1, PcAfter
  <2> QED
    BY <1>4, <2>1, <2>2, DraftsStay DEF CountInv
<1>5. ASSUME NEW r \in Requests, NEW it, InsertsOne(r, it)
      PROVE  Cardinality(DraftsOf(s)') = inserted'[s]
  <2>1. /\ inserted' = [inserted EXCEPT ![r] = @ + 1] /\ inserted \in [Requests -> Nat]
        /\ pc[r] \in {"insert", "bulk"} /\ \E label : GoTo(r, label)
    BY <1>5 DEF InsertsOne, InsertRow, IInv, TypeOK
  <2>2. pc[s] # "rolledBack"
    BY <2>1, PcAfter
  <2>3. CASE s # r
    BY <1>5, <2>1, <2>2, <2>3, DraftsStay DEF CountInv
  <2>4. CASE s = r
    <3>1. PICK row \in Row : /\ row.by = r /\ nextId \in Ids /\ table[nextId] = Settled(NoRow)
                             /\ table' = Write(table, r, nextId, row)
      BY <1>5, InsertSlots
    <3>2. \A k \in Ids : table'[k].draft = IF k = nextId THEN row ELSE table[k].draft
      BY <3>1, WriteSlots
    <3>3. DraftsOf(r)' = DraftsOf(r) \cup {nextId} /\ nextId \notin DraftsOf(r)
      BY <3>1, <3>2 DEF DraftsOf, Settled
    <3>4. IsFiniteSet(DraftsOf(r))
      <4>1. IsFiniteSet(Ids)
        BY FS_Interval DEF Ids
      <4> QED
        BY <4>1, FS_Subset DEF DraftsOf
    <3>5. Cardinality(DraftsOf(r) \cup {nextId}) = Cardinality(DraftsOf(r)) + 1
      BY <3>3, <3>4, FS_AddElement
    <3>6. Cardinality(DraftsOf(r)) = inserted[r]
      BY <2>2, <2>4 DEF CountInv
    <3> QED
      BY <2>1, <2>4, <3>3, <3>5, <3>6
  <2> QED
    BY <2>3, <2>4
<1> QED
  BY <1>1, <1>2, <1>3, <1>4, <1>5, Effects

(* A request that commits has stored as many rows as it counts, one that    *)
(* does not none, whatever waits between the rows of a batch and whoever    *)
(* rolls back meanwhile.                                                    *)
THEOREM CountIsStored == Spec => []InsertedCounted
<1>1. ASSUME Init PROVE CountInv
  <2>0. \A k \in Ids : k <= Len(Existing) => Existing[k].by = NoTxn
    BY ExistingAssumption DEF Ids
  <2>1. \A r \in Requests : DraftsOf(r) = {}
    BY <1>1, <2>0 DEF Init, DraftsOf, Settled
  <2> QED
    BY <1>1, <2>1, FS_EmptySet DEF CountInv, Init
<1>2. IInv /\ CountInv /\ [Next]_vars => CountInv'
  BY CountNext
<1>3. ASSUME IInv, CountInv, NEW r \in Requests
      PROVE  Cardinality(BackendsOf(r)) = IF pc[r] = "committed" THEN inserted[r] ELSE 0
  <2>1. CASE pc[r] = "committed"
    <3>1. \A k \in Ids : table[k].owner # r
      BY <1>3, <2>1, HoldsNone
    <3>2. \A k \in Ids : table[k].row # NoRow /\ table[k].row.by = r
                            <=> table[k].draft # NoRow /\ table[k].draft.by = r
      BY <1>3, <3>1, SlotFacts DEF SlotOK
    <3>3. BackendsOf(r) = DraftsOf(r)
      BY <3>2 DEF BackendsOf, DraftsOf
    <3> QED
      BY <1>3, <2>1, <3>3 DEF CountInv
  <2>2. CASE pc[r] # "committed"
    <3>1. BackendsOf(r) = {}
      BY <1>3, <2>2 DEF BackendsOf, IInv, FailedLeavesNothing
    <3> QED
      BY <2>2, <3>1, FS_EmptySet
  <2> QED
    BY <2>1, <2>2
<1>4. IInv /\ CountInv => InsertedCounted
  BY <1>3 DEF InsertedCounted
<1> QED
  BY <1>1, <1>2, <1>4, Invariance, PTL DEF Spec

-----------------------------------------------------------------------------
(* What a bulk has seen.                                                    *)

(* A name that a request sees stays there, unless that request rolls back:  *)
(* nobody deletes or renames a backend.                                     *)
LEMMA NameStays ==
    ASSUME IInv, NEW s \in Requests, NEW name, NameTaken(s, name), NEW r \in Requests,
           \/ Looks(r) \/ Commit(r) \/ Updates(r) \/ \E it : InsertsOne(r, it)
           \/ Rolls(r) /\ s # r
    PROVE  NameTaken(s, name)'
<1>1. PICK k \in Ids : Visible(table, s, k) # NoRow /\ Visible(table, s, k).name = name
  BY DEF NameTaken, FindByName
<1>2. SlotOK(k) /\ table[k].owner \in Requests \cup {NoTxn}
  BY SlotFacts
<1> SUFFICES Visible(table', s, k) # NoRow /\ Visible(table', s, k).name = name
  BY DEF NameTaken, FindByName
<1>3. CASE Looks(r)
  BY <1>1, <1>3 DEF Looks
<1>4. CASE Commit(r)
  BY <1>1, <1>2, <1>4, CommitSlots DEF Visible, SlotOK
<1>5. CASE Rolls(r) /\ s # r
  BY <1>1, <1>2, <1>5, RollSlots DEF Visible, SlotOK
<1>6. CASE Updates(r)
  <2>0. PICK j \in Ids : j = call[r].id /\ Lockable(table, r, j)
    BY <1>6 DEF Updates
  <2>1. PICK row \in Row : /\ table[j].draft # NoRow /\ row.name = table[j].draft.name
                           /\ table' = Write(table, r, j, row)
    BY <1>6, <2>0, UpdateSlots
  <2>2. /\ table'[k].row = table[k].row
        /\ table'[k].draft = IF k = j THEN row ELSE table[k].draft
        /\ table'[k].owner = IF k = j THEN r ELSE table[k].owner
    BY <2>1, WriteSlots
  <2>3. row # NoRow
    BY <2>1
  <2> QED
    BY <1>1, <1>2, <2>0, <2>1, <2>2, <2>3 DEF Visible, Lockable, SlotOK
<1>7. CASE \E it : InsertsOne(r, it)
  <2>1. PICK it : InsertsOne(r, it)
    BY <1>7
  <2>2. PICK row \in Row : /\ nextId \in Ids /\ table[nextId] = Settled(NoRow)
                           /\ table' = Write(table, r, nextId, row)
    BY <2>1, InsertSlots
  <2>3. k # nextId
    BY <1>1, <2>2 DEF Visible, Settled
  <2>4. table'[k].row = table[k].row /\ table'[k].draft = table[k].draft /\ table'[k].owner = table[k].owner
    BY <2>2, <2>3, WriteSlots
  <2> QED
    BY <1>1, <2>4 DEF Visible
<1> QED
  BY <1>3, <1>4, <1>5, <1>6, <1>7

(* A request sees what it has inserted.                                     *)
LEMMA InsertSeen ==
    ASSUME IInv, NEW r \in Requests, NEW it, InsertsOne(r, it)
    PROVE  \E k \in Ids : Visible(table', r, k) # NoRow /\ Visible(table', r, k).name = it.name
<1>1. PICK row \in Row : /\ row.name = it.name /\ nextId \in Ids
                         /\ table' = Write(table, r, nextId, row)
  BY InsertSlots
<1>2. table'[nextId].draft = row /\ table'[nextId].owner = r
  BY <1>1, WriteSlots
<1> QED
  BY <1>1, <1>2 DEF Visible

(* A request changes its own control only.                                  *)
LEMMA OwnControl ==
    ASSUME IInv, NEW r \in Requests, Arrive(r) \/ Step(r) \/ Aborted(r), NEW s \in Requests \ {r}
    PROVE  pc'[s] = pc[s] /\ call'[s] = call[s] /\ item'[s] = item[s]
<1>1. CASE Arrive(r)
  BY <1>1 DEF Arrive, Begin, Refuse, Fail, GoTo, IInv, TypeOK
<1>2. CASE CheckName(r) \/ CheckUrl(r) \/ ResolveModels(r) \/ Read(r)
  BY <1>2 DEF CheckName, CheckUrl, ResolveModels, Read, Fail, GoTo, IInv, TypeOK
<1>3. CASE Insert(r) \/ BulkDone(r) \/ ApplyUpdate(r) \/ Commit(r) \/ LockWaitAborted(r) \/ Aborted(r)
  BY <1>3 DEF Insert, BulkDone, ApplyUpdate, Commit, LockWaitAborted, Aborted, Answer, Fail, GoTo, IInv, TypeOK
<1>4. CASE BulkItem(r)
  BY <1>4 DEF BulkItem, Fail, GoTo, IInv, TypeOK
<1> QED
  BY <1>1, <1>2, <1>3, <1>4 DEF Step

(* A step that leaves the names there which the request has seen.           *)
LEMMA BulkKeeps ==
    ASSUME IInv, NEW s \in Requests, BulkOK(s),
           call'[s] = call[s], item'[s] = item[s],
           pc'[s] \in {pc[s], "rolledBack"} \/ (pc[s] = "commit" /\ pc'[s] = "committed"),
           \A name : NameTaken(s, name) => NameTaken(s, name)'
    PROVE  BulkOK(s)'
  BY DEF BulkOK

LEMMA BulkNext ==
    ASSUME IInv, BulkInv, [Next]_vars, NEW s \in Requests
    PROVE  BulkOK(s)'
<1>0. BulkOK(s) /\ item[s] \in Nat \ {0}
  BY DEF BulkInv, IInv, TypeOK
<1>1. CASE UNCHANGED vars \/ Done
  BY <1>0, <1>1 DEF BulkOK, NameTaken, FindByName, Done, vars
<1>2. ASSUME NEW r \in Requests \ {s}, Arrive(r) \/ Step(r) \/ Aborted(r)
      PROVE  BulkOK(s)'
  <2>1. pc'[s] = pc[s] /\ call'[s] = call[s] /\ item'[s] = item[s]
    BY <1>2, OwnControl
  <2>2. Looks(r) \/ Rolls(r) \/ Commit(r) \/ Updates(r) \/ \E it : InsertsOne(r, it)
    BY <1>2, InsertEffect, BulkEffect, UpdateEffect, LookEffect DEF Step
  <2>3. \A name : NameTaken(s, name) => NameTaken(s, name)'
    BY <2>2, NameStays
  <2> QED
    BY <1>0, <2>1, <2>3, BulkKeeps
<1>3. CASE Arrive(s)
  <2>1. PICK c \in Calls : Begin(s, c) \/ Refuse(s, c)
    BY <1>3 DEF Arrive
  <2>2. CASE Refuse(s, c)
    <3>1. pc'[s] = "rolledBack"
      BY <2>2, PcAfter DEF Refuse, Fail
    <3> QED
      BY <3>1 DEF BulkOK
  <2>3. CASE Begin(s, c)
    <3>1. pc'[s] = FirstStatement(c.op) /\ call'[s] = c /\ item'[s] = 1
      BY <1>0, <2>3, PcAfter DEF Begin, BulkOK, IInv, TypeOK
    <3>2. c.op = "bulk" => pc'[s] = "bulk" /\ c.items \in Seq(Items)
      BY <3>1, CallsOfOp, BatchAssumption DEF FirstStatement
    <3>3. FirstStatement(c.op) # "idle"
      BY DEF FirstStatement
    <3>4. c.op = "bulk" => \A i \in 1..Len(c.items) : ~ (i < 1)
      BY <3>2
    <3> QED
      BY <3>1, <3>2, <3>3, <3>4 DEF BulkOK
  <2> QED
    BY <2>1, <2>2, <2>3
<1>4. ASSUME Rolls(s) PROVE BulkOK(s)'
  <2>1. pc'[s] = "rolledBack"
    BY <1>4, PcAfter DEF Rolls
  <2> QED
    BY <2>1 DEF BulkOK
<1>5. CASE CheckName(s) \/ CheckUrl(s) \/ ResolveModels(s) \/ Read(s)
  <2>1. Looks(s) \/ Rolls(s)
    BY <1>5, LookEffect
  <2>2. /\ pc[s] \in {"checkName", "checkUrl", "resolve", "read"} /\ call[s].op # "bulk"
        /\ call' = call
    BY <1>5 DEF CheckName, CheckUrl, ResolveModels, Read, IInv, ControlOK, OpsAt
  <2>3. ASSUME Looks(s) PROVE pc'[s] # "idle"
    BY <2>3, PcAfter DEF Looks, InFlight
  <2> QED
    BY <1>4, <2>1, <2>2, <2>3 DEF BulkOK
<1>6. CASE Insert(s) \/ ApplyUpdate(s)
  <2>1. Rolls(s) \/ Updates(s) \/ \E it : InsertsOne(s, it)
    BY <1>6, InsertEffect, UpdateEffect
  <2>2. pc[s] \in {"insert", "write"} /\ call[s].op # "bulk" /\ call' = call
    BY <1>6 DEF Insert, ApplyUpdate, IInv, ControlOK, OpsAt
  <2>3. ASSUME ~ Rolls(s) PROVE pc'[s] = "commit"
    BY <2>1, <2>2, <2>3, PcAfter DEF Updates, InsertsOne
  <2> QED
    BY <1>4, <2>1, <2>2, <2>3 DEF BulkOK
<1>7. CASE BulkItem(s)
  <2>2. /\ pc[s] = "bulk" /\ call[s].op = "bulk" /\ call' = call /\ item'[s] = item[s] + 1
        /\ item[s] <= Len(call[s].items)
    BY <1>7 DEF BulkItem, IInv, ControlOK, OpsAt, TypeOK
  <2>1. PICK name : name = call[s].items[item[s]].name
    OBVIOUS
  <2>3. /\ call[s].items \in Seq(Items)
        /\ \A i \in 1..Len(call[s].items) : i < item[s] => NameTaken(s, call[s].items[i].name)
    BY <1>0, <2>2 DEF BulkOK
  <2>4. ASSUME Looks(s) \/ InsertsOne(s, call[s].items[item[s]]),
               pc'[s] = "bulk", NameTaken(s, name)'
        PROVE  BulkOK(s)'
    <3>1. \A n : NameTaken(s, n) => NameTaken(s, n)'
      BY <2>4, NameStays
    <3>2. ASSUME NEW i \in 1..Len(call[s].items), i < item[s] + 1
          PROVE  \E n : n = call[s].items[i].name /\ NameTaken(s, n)'
      <4>1. CASE i < item[s]
        BY <2>3, <3>1, <4>1
      <4>2. CASE i = item[s]
        BY <2>1, <2>4, <4>2
      <4> QED
        BY <1>0, <3>2, <4>1, <4>2
    <3>3. \A i \in 1..Len(call'[s].items) : i < item'[s] => NameTaken(s, call[s].items[i].name)'
      BY <2>2, <3>2 DEF NameTaken, FindByName
    <3> QED
      BY <2>2, <2>3, <2>4, <3>3 DEF BulkOK
  <2>5. CASE Looks(s) /\ pc' = pc /\ NameTaken(s, name)
    <3>1. pc'[s] = "bulk"
      BY <2>2, <2>5
    <3>2. NameTaken(s, name)'
      BY <2>5, NameStays
    <3> QED
      BY <2>4, <2>5, <3>1, <3>2
  <2>6. CASE InsertsOne(s, call[s].items[item[s]])
    <3>1. pc'[s] = "bulk"
      BY <2>2, <2>6, PcAfter DEF InsertsOne
    <3>2. NameTaken(s, name)'
      BY <2>1, <2>6, InsertSeen DEF NameTaken, FindByName
    <3> QED
      BY <2>4, <2>6, <3>1, <3>2
  <2> QED
    BY <1>4, <1>7, <2>1, <2>5, <2>6, BulkEffect
<1>8. CASE BulkDone(s)
  <2>1. /\ UNCHANGED <<table, call, item>> /\ item[s] > Len(call[s].items) /\ pc[s] = "bulk"
        /\ pc'[s] = "commit"
    BY <1>8, PcAfter DEF BulkDone, Answer
  <2> QED
    BY <1>0, <2>1 DEF BulkOK, NameTaken, FindByName
<1>9. CASE Commit(s)
  <2>1. pc[s] = "commit" /\ pc'[s] = "committed" /\ call' = call /\ item' = item
    BY <1>9, PcAfter DEF Commit
  <2>2. \A name : NameTaken(s, name) => NameTaken(s, name)'
    BY <1>9, NameStays
  <2> QED
    BY <1>0, <2>1, <2>2, BulkKeeps
<1>10. CASE LockWaitAborted(s) \/ Aborted(s)
  BY <1>4, <1>10 DEF LockWaitAborted, Blocked, Aborted, Fail, Rolls, Ended, InFlight
<1> QED
  BY <1>1, <1>2, <1>3, <1>5, <1>6, <1>7, <1>8, <1>9, <1>10 DEF Next, Step

(* After a bulk registration every name of its body is registered, whether  *)
(* it was inserted or skipped: what is skipped has been committed, and      *)
(* nobody renames or deletes it (BackendRepository.upsert_many).            *)
THEOREM BulkNamesThere == Spec => []BulkComplete
<1>1. Init => BulkInv
  BY DEF Init, BulkInv, BulkOK
<1>2. IInv /\ BulkInv /\ [Next]_vars => BulkInv'
  BY BulkNext DEF BulkInv
<1>3. ASSUME IInv, BulkInv, NEW r \in Requests, pc[r] = "committed", call[r].op = "bulk",
             NEW i \in DOMAIN call[r].items
      PROVE  \E k \in Ids : table[k].row # NoRow /\ table[k].row.name = call[r].items[i].name
  <2>1. /\ call[r].items \in Seq(Items) /\ item[r] > Len(call[r].items) /\ item[r] \in Nat
        /\ \A j \in 1..Len(call[r].items) : j < item[r] => NameTaken(r, call[r].items[j].name)
    BY <1>3 DEF BulkInv, BulkOK, IInv, TypeOK
  <2>2. NameTaken(r, call[r].items[i].name)
    BY <2>1
  <2>3. \A k \in Ids : table[k].owner # r
    BY <1>3, HoldsNone
  <2> QED
    BY <2>2, <2>3 DEF NameTaken, FindByName, Visible
<1>4. IInv /\ BulkInv => BulkComplete
  BY <1>3 DEF BulkComplete
<1> QED
  BY <1>1, <1>2, <1>4, Invariance, PTL DEF Spec

-----------------------------------------------------------------------------
(* Conflicts that are answered.                                             *)

LEMMA Answered ==
    ASSUME IInv, NEW a \in Requests, NEW code, Fail(a, code) \/ Answer(a, code), NEW r \in Requests
    PROVE  reply'[r] = IF r = a THEN code ELSE reply[r]
  BY DEF Fail, Answer, IInv, TypeOK

LEMMA ConflictStep ==
    ASSUME IInv, NEW a \in Requests, Arrive(a) \/ Step(a) \/ Aborted(a),
           NEW r \in Requests, reply'[r] = 409, reply[r] # 409
    PROVE  \E k \in Ids : Visible(table, r, k) # NoRow /\ Clashes(r, Visible(table, r, k))
<1>1. CASE Arrive(a)
  BY <1>1, Answered DEF Arrive, Begin, Refuse
<1>2. CASE CheckName(a)
  <2>1. a = r /\ FindByName(r, call[r].name) # {} /\ call[r].op = "register"
    BY <1>2, Answered DEF CheckName, IInv, ControlOK, OpsAt
  <2> QED
    BY <2>1 DEF FindByName, Clashes
<1>3. CASE CheckUrl(a)
  <2>1. a = r
    BY <1>3, Answered DEF CheckUrl
  <2>2. Fail(r, 409) \/ Fail(r, 500) \/ UNCHANGED reply
    BY <1>3, <2>1 DEF CheckUrl
  <2>3. Cardinality(FindByUrl(r, call[r].url)) = 1
    BY <1>3, <2>1, <2>2, Answered DEF CheckUrl
  <2>4. FindByUrl(r, call[r].url) # {} /\ call[r].op \in {"register", "update"}
    BY <1>3, <2>1, <2>3, FS_EmptySet DEF CheckUrl, IInv, ControlOK, OpsAt
  <2> QED
    BY <2>4 DEF FindByUrl, Clashes
<1>4. CASE ResolveModels(a)
  BY <1>4, Answered DEF ResolveModels
<1>5. CASE Insert(a)
  <2>1. a = r /\ call[r].op = "register"
    BY <1>5, Answered DEF Insert, IInv, ControlOK, OpsAt
  <2>2. NameTaken(r, call[r].name) \/ UrlTaken(r, call[r].url, {})
    BY <1>5, <2>1, Answered DEF Insert
  <2> QED
    BY <2>1, <2>2 DEF NameTaken, UrlTaken, FindByName, FindByUrl, Clashes
<1>6. CASE BulkItem(a)
  <2>1. a = r /\ call[r].op = "bulk" /\ item[r] \in Nat \ {0} /\ item[r] <= Len(call[r].items)
    BY <1>6, Answered DEF BulkItem, IInv, ControlOK, OpsAt, TypeOK
  <2>2. item[r] \in DOMAIN call[r].items
    BY <1>6, <2>1, CallsOfOp, BatchAssumption DEF BulkItem, IInv, ControlOK, OpsAt
  <2>3. UrlTaken(r, call[r].items[item[r]].url, {})
    BY <1>6, <2>1 DEF BulkItem
  <2> QED
    BY <2>1, <2>2, <2>3 DEF UrlTaken, FindByUrl, Clashes
<1>7. CASE BulkDone(a) \/ Commit(a)
  BY <1>7, Answered DEF BulkDone, Commit
<1>8. CASE Read(a)
  <2>1. a = r
    BY <1>8, Answered DEF Read
  <2>2. call[r].id \in Ids
    BY <1>8, <2>1, CallsOfOp DEF Read, IInv, ControlOK, OpsAt
  <2>3. /\ Visible(table, r, call[r].id) # NoRow /\ call[r].op = "state"
        /\ call[r].target \notin STATE_TRANSITIONS[Visible(table, r, call[r].id).state]
    BY <1>8, <2>1, Answered DEF Read
  <2> QED
    BY <2>2, <2>3 DEF Clashes
<1>9. CASE ApplyUpdate(a)
  <2>1. a = r
    BY <1>9, Answered DEF ApplyUpdate
  <2>2. call[r].op = "update" /\ UrlTaken(r, call[r].url, {call[r].id})
    BY <1>9, <2>1, Answered DEF ApplyUpdate
  <2> QED
    BY <2>2 DEF UrlTaken, FindByUrl, Clashes
<1>10. CASE LockWaitAborted(a) \/ Aborted(a)
  BY <1>10, Answered DEF LockWaitAborted, Aborted, IInv, TypeOK
<1> QED
  BY <1>1, <1>2, <1>3, <1>4, <1>5, <1>6, <1>7, <1>8, <1>9, <1>10 DEF Step

(* Whoever is refused because of a conflict has another backend in front of *)
(* him that is the conflict, in the state that his statement sees: nobody   *)
(* is refused because of a registration that is then taken back.            *)
THEOREM ConflictsAreReal == Spec => ConflictIsReal
<1>1. ASSUME IInv, [Next]_vars, NEW r \in Requests, reply'[r] = 409, reply[r] # 409
      PROVE  \E k \in Ids : Visible(table, r, k) # NoRow /\ Clashes(r, Visible(table, r, k))
  BY <1>1, ConflictStep DEF Next, Done, vars
<1>2. IInv /\ [Next]_vars =>
         [\A r \in Requests : reply'[r] = 409 /\ reply[r] # 409 =>
             \E k \in Ids : /\ Visible(table, r, k) # NoRow
                            /\ Clashes(r, Visible(table, r, k))]_vars
  BY <1>1
<1> QED
  BY <1>2, Invariance, PTL DEF Spec, ConflictIsReal

-----------------------------------------------------------------------------
(* The catalogue that everybody reads.                                      *)

(* A request that updates a row holds no other, and holds it as committed.  *)
LEMMA WrittenNext ==
    ASSUME IInv, WrittenInv, [Next]_vars
    PROVE  WrittenInv'
<1>1. CASE UNCHANGED <<table, pc, inserted>>
  BY <1>1 DEF WrittenInv, WrittenOK
<1>2. ASSUME NEW r \in Requests, Looks(r) PROVE WrittenInv'
  <2>1. PICK label \in InFlight : GoTo(r, label) /\ (label = "bulk" => pc[r] \in {"idle", "bulk"})
    BY <1>2 DEF Looks
  <2>2. ASSUME NEW k \in Ids, NEW s \in Requests, table[k].owner = s, table[k].row # NoRow
        PROVE  pc'[s] # "bulk"
    <3>1. pc[s] \notin {"idle", "bulk"}
      BY <2>2, HoldsNone DEF WrittenInv
    <3> QED
      BY <2>1, <3>1, PcAfter
  <2> QED
    BY <1>2, <2>2 DEF Looks, WrittenInv, WrittenOK
<1>3. ASSUME NEW r \in Requests, Rolls(r) \/ Commit(r) PROVE WrittenInv'
  <2>1. ASSUME NEW k \in Ids
        PROVE  /\ table[k].owner = r => table'[k].draft = table'[k].row /\ table'[k].owner = NoTxn
               /\ table[k].owner # r => /\ table'[k].draft = table[k].draft
                                        /\ table'[k].row = table[k].row
                                        /\ table'[k].owner = table[k].owner
    BY <1>3, RollSlots, CommitSlots
  <2>2. \A s \in Requests \ {r} : pc'[s] = pc[s]
    BY <1>3, PcAfter DEF Rolls, Commit
  <2>3. \A k \in Ids : WrittenOK(k)'
    BY <2>1 DEF WrittenInv, WrittenOK
  <2>4. ASSUME NEW k \in Ids, NEW s \in Requests, table'[k].owner = s, table'[k].row # NoRow
        PROVE  pc'[s] # "bulk" /\ \A j \in Ids : table'[j].owner = s => j = k
    <3>1. s # r /\ table[k].owner = s /\ table[k].row # NoRow
      BY <2>1, <2>4, SlotFacts
    <3> QED
      BY <2>1, <2>2, <3>1 DEF WrittenInv
  <2> QED
    BY <2>3, <2>4 DEF WrittenInv
<1>4. ASSUME NEW r \in Requests, NEW it, InsertsOne(r, it) PROVE WrittenInv'
  <2>1. PICK row \in Row : /\ row.state = "active" /\ nextId \in Ids /\ table[nextId] = Settled(NoRow)
                           /\ table' = Write(table, r, nextId, row)
    BY <1>4, InsertSlots
  <2>2. \A k \in Ids : /\ table'[k].row = table[k].row
                       /\ table'[k].draft = IF k = nextId THEN row ELSE table[k].draft
                       /\ table'[k].owner = IF k = nextId THEN r ELSE table[k].owner
    BY <2>1, WriteSlots
  <2>3. table[nextId].row = NoRow
    BY <2>1 DEF Settled
  <2>4. \A k \in Ids : table[k].owner = r => table[k].row = NoRow
    BY <1>4, HoldsNone DEF InsertsOne, WrittenInv
  <2>5. \A s \in Requests \ {r} : pc'[s] = pc[s]
    BY <1>4, PcAfter DEF InsertsOne
  <2>6. \A k \in Ids : WrittenOK(k)'
    BY <2>1, <2>2, <2>3 DEF WrittenInv, WrittenOK
  <2>7. ASSUME NEW k \in Ids, NEW s \in Requests, table'[k].owner = s, table'[k].row # NoRow
        PROVE  pc'[s] # "bulk" /\ \A j \in Ids : table'[j].owner = s => j = k
    <3>1. s # r /\ table[k].owner = s /\ table[k].row # NoRow
      BY <2>2, <2>3, <2>4, <2>7
    <3> QED
      BY <2>2, <2>5, <3>1 DEF WrittenInv
  <2> QED
    BY <2>6, <2>7 DEF WrittenInv
<1>5. ASSUME NEW r \in Requests, Updates(r) PROVE WrittenInv'
  <2>0. PICK i \in Ids : i = call[r].id /\ Lockable(table, r, i) /\ table[i].row # NoRow
    BY <1>5 DEF Updates
  <2>1. PICK row \in Row : /\ row \in {table[i].draft} \cup Modified(table[i].draft)
                           /\ table' = Write(table, r, i, row)
    BY <1>5, <2>0, UpdateSlots
  <2>2. \A k \in Ids : /\ table'[k].row = table[k].row
                       /\ table'[k].draft = IF k = i THEN row ELSE table[k].draft
                       /\ table'[k].owner = IF k = i THEN r ELSE table[k].owner
    BY <2>1, WriteSlots
  <2>3. \A k \in Ids : table[k].owner # r
    BY <1>5, HoldsNone DEF Updates
  <2>4. table[i].draft = table[i].row
    BY <2>0, <2>3, SlotFacts DEF Lockable, SlotOK
  <2>5. \A k \in Ids : WrittenOK(k)'
    BY <2>0, <2>1, <2>2, <2>4 DEF WrittenInv, WrittenOK
  <2>6. \A s \in Requests : pc'[s] = IF s = r THEN "commit" ELSE pc[s]
    BY <1>5, PcAfter DEF Updates
  <2>7. ASSUME NEW k \in Ids, NEW s \in Requests, table'[k].owner = s, table'[k].row # NoRow
        PROVE  pc'[s] # "bulk" /\ \A j \in Ids : table'[j].owner = s => j = k
    <3>1. CASE s = r
      BY <2>2, <2>3, <2>6, <2>7, <3>1
    <3>2. CASE s # r
      BY <2>2, <2>6, <2>7, <3>2 DEF WrittenInv
    <3> QED
      BY <3>1, <3>2
  <2> QED
    BY <2>5, <2>7 DEF WrittenInv
<1> QED
  BY <1>1, <1>2, <1>3, <1>4, <1>5, Effects

(* Only a commit changes what others read.                                  *)
LEMMA RowsStay ==
    ASSUME IInv, [Next]_vars, \A r \in Requests : ~ Commit(r)
    PROVE  CommittedRows' = CommittedRows
<1> SUFFICES ASSUME NEW k \in Ids PROVE table'[k].row = table[k].row
  BY DEF CommittedRows
<1>1. ASSUME NEW r \in Requests, Looks(r) \/ Rolls(r) PROVE table'[k].row = table[k].row
  BY <1>1, RollSlots DEF Looks
<1>2. ASSUME NEW r \in Requests, NEW it, InsertsOne(r, it) PROVE table'[k].row = table[k].row
  BY <1>2, InsertSlots, WriteSlots
<1>3. ASSUME NEW r \in Requests, Updates(r) PROVE table'[k].row = table[k].row
  BY <1>3, UpdateSlots, WriteSlots DEF Updates
<1> QED
  BY <1>1, <1>2, <1>3, Effects

(* A commit shows the new backends of a request, all of them at once ..     *)
LEMMA CommitRegisters ==
    ASSUME IInv, WrittenInv, NEW r \in Requests, Commit(r), NEW new \in SUBSET Ids,
           \A k \in new : table[k].owner = r /\ table[k].row = NoRow /\ table[k].draft # NoRow
    PROVE  Catalogue!Register(new, r)
<1>1. \A k \in Ids : /\ CommittedRows[k] = table[k].row
                     /\ CommittedRows'[k] = IF table[k].owner = r THEN table[k].draft ELSE table[k].row
  BY CommitSlots DEF CommittedRows
<1>2. ASSUME NEW k \in Ids, table[k].row # NoRow PROVE table[k].row.by # r
  BY <1>2 DEF Commit, IInv, FailedLeavesNothing
<1>3. ASSUME NEW k \in new
      PROVE  table[k].draft \in [name : Names, url : Urls, state : {"active"}, by : {r}]
  <2>1. table[k].draft \in Row /\ table[k].draft.by = r /\ table[k].draft.state = "active"
    BY <1>3, SlotFacts DEF SlotOK, WrittenInv, WrittenOK
  <2> QED
    BY <2>1 DEF Row
<1>4. ASSUME NEW k \in new, NEW j \in Ids \ {k}, CommittedRows'[j] # NoRow
      PROVE  CommittedRows'[j].name # table[k].draft.name
  <2>1. table[j].draft # NoRow /\ CommittedRows'[j].name = table[j].draft.name
    BY <1>1, <1>4, SlotFacts DEF SlotOK
  <2> QED
    BY <1>4, <2>1 DEF IInv, DraftNamesDistinct
<1> QED
  BY <1>1, <1>2, <1>3, <1>4 DEF Catalogue!Register

(* .. or one column of one backend.                                         *)
LEMMA CommitModifies ==
    ASSUME IInv, WrittenInv, NEW r \in Requests, Commit(r), NEW k \in Ids,
           table[k].owner = r, table[k].row # NoRow, table[k].draft # table[k].row
    PROVE  /\ Catalogue!Modify(k)
           /\ \A j \in Ids \ {k} : CommittedRows'[j] = CommittedRows[j]
<1>1. \A j \in Ids : /\ CommittedRows[j] = table[j].row
                     /\ CommittedRows'[j] = IF table[j].owner = r THEN table[j].draft ELSE table[j].row
  BY CommitSlots DEF CommittedRows
<1>2. table[k].draft \in Modified(table[k].row)
  BY DEF WrittenInv, WrittenOK
<1>3. \A j \in Ids \ {k} : table[j].owner # r
  BY DEF WrittenInv
<1> QED
  BY <1>1, <1>2, <1>3 DEF Modified, Catalogue!Modify

LEMMA CommitFollows ==
    ASSUME IInv, WrittenInv, NEW r \in Requests, Commit(r)
    PROVE  Catalogue!CatalogueNext \/ CommittedRows' = CommittedRows
<1> DEFINE changed == {k \in Ids : CommittedRows'[k] # CommittedRows[k]}
<1>1. \A k \in Ids : /\ CommittedRows[k] = table[k].row
                     /\ CommittedRows'[k] = IF table[k].owner = r THEN table[k].draft ELSE table[k].row
  BY CommitSlots DEF CommittedRows
<1>2. \A k \in changed : table[k].owner = r /\ table[k].draft # table[k].row
  BY <1>1
<1>3. CommittedRows' = [k \in Ids |-> CommittedRows'[k]]
  BY DEF CommittedRows
<1>4. CASE changed = {}
  BY <1>4 DEF CommittedRows
<1>5. ASSUME NEW k \in changed, table[k].row # NoRow PROVE Catalogue!CatalogueNext
  <2>1. Catalogue!Modify(k) /\ \A j \in Ids \ {k} : CommittedRows'[j] = CommittedRows[j]
    BY <1>2, <1>5, CommitModifies
  <2>2. changed = {k}
    BY <2>1
  <2> QED
    BY <1>3, <2>1, <2>2 DEF Catalogue!CatalogueNext
<1>6. CASE changed # {} /\ \A k \in changed : table[k].row = NoRow
  <2>1. Catalogue!Register(changed, r)
    BY <1>2, <1>6, CommitRegisters
  <2> QED
    BY <1>3, <1>6, <2>1 DEF Catalogue!CatalogueNext
<1> QED
  BY <1>4, <1>5, <1>6

(* To those who read it the registry is BackendCatalogue: backends appear   *)
(* with all those of their request, then change one column at a time, and   *)
(* neither their name nor they themselves ever go.                          *)
THEOREM RegistryImplementsCatalogue == Spec => ImplementsCatalogue
<1>1. ASSUME Init PROVE Catalogue!CatalogueInit /\ WrittenInv
  <2>1. IInv
    BY <1>1, InitInv
  <2>2. CommittedRows \in [Ids -> Row \cup {NoRow}]
    BY <2>1, SlotFacts DEF CommittedRows
  <2>3. \A k \in Ids : table[k].draft = table[k].row /\ table[k].owner = NoTxn
    BY <1>1 DEF Init, Settled
  <2> QED
    BY <2>2, <2>3 DEF WrittenInv, WrittenOK, Catalogue!CatalogueInit, Catalogue!Backends, Row
<1>2. IInv /\ WrittenInv /\ [Next]_vars => WrittenInv'
  BY WrittenNext
<1>3. IInv /\ WrittenInv /\ [Next]_vars => [Catalogue!CatalogueNext]_CommittedRows
  BY CommitFollows, RowsStay
<1> QED
  BY <1>1, <1>2, <1>3, Invariance, PTL DEF Spec, ImplementsCatalogue, Catalogue!CatalogueSpec
=============================================================================
