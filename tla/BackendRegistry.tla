-------------------------- MODULE BackendRegistry --------------------------
(***************************************************************************)
(* The registry of inference backends: the writing operations of           *)
(* service/backend_service.py on table "backend".                          *)
(*                                                                         *)
(* Each HTTP request is a process with a database transaction of its own   *)
(* (api/deps.py get_session).  A step is one SQL statement together with   *)
(* the Python code up to the next "await", so that the requests interleave *)
(* exactly where the service waits for the database.                       *)
(***************************************************************************)
EXTENDS ReadCommitted, Integers, Sequences, FiniteSets

CONSTANTS
    Requests,       \* HTTP requests, each of them served once
    Names, Urls,
    MaxBackends,    \* bound: ids the sequence of table backend can hand out
    Batches,        \* bodies of POST /backends/bulk: sequences of items
    Existing,       \* rows that were registered before: a sequence of rows
    UniqueColumns,  \* columns with a unique index (the schema is external)
    NoRow, NoUrl, NoCall

States == {"active", "draining", "disabled"}
Items  == [name : Names, url : Urls]
Row    == [name : Names, url : Urls, state : States, by : Requests \cup {NoTxn}]
Ids    == 1..MaxBackends

ASSUME SizeAssumption   == MaxBackends \in Nat
ASSUME BatchAssumption  == Batches \subseteq Seq(Items)
ASSUME FreshAssumption  == NoRow \notin Row /\ NoTxn \notin Requests /\ NoUrl \notin Urls
ASSUME UniqueAssumption == "name" \in UniqueColumns
ASSUME ExistingAssumption ==
    /\ Existing \in Seq(Row)
    /\ Len(Existing) <= MaxBackends
    /\ \A i, j \in DOMAIN Existing : Existing[i].name = Existing[j].name => i = j
    /\ \A i \in DOMAIN Existing : Existing[i].by = NoTxn

(* The requests the routes accept.  A PATCH has a url, other columns        *)
(* (weight, max_concurrency, cost_per_token), both or neither.              *)
Calls ==
         [op : {"register"}, name : Names, url : Urls]
    \cup [op : {"bulk"}, items : Batches]
    \cup [op : {"update"}, id : Ids, url : Urls \cup {NoUrl}, tuning : BOOLEAN]
    \cup [op : {"state"}, id : Ids, target : States]

STATE_TRANSITIONS ==
    [active   |-> {"draining", "disabled"},
     draining |-> {"active", "disabled"},
     disabled |-> {"active"}]

VARIABLES
    table,      \* table backend
    nextId,     \* its id sequence, which no rollback takes back
    pc,         \* the statement each request executes next
    call,       \* what the request asks for
    inserted,   \* rows it has inserted (for a bulk: the count it answers)
    item,       \* the item of its batch that a bulk inserts next
    reply       \* HTTP status the handler has produced, 0 before that

vars == <<table, nextId, pc, call, inserted, item, reply>>

InFlight == {"checkName", "checkUrl", "resolve", "insert", "bulk", "read", "write", "commit"}
Ended    == {"committed", "rolledBack"}

TypeOK ==
    /\ table \in Table(Ids, Row \cup {NoRow}, Requests)
    /\ nextId \in 1..(MaxBackends + 1)
    /\ pc \in [Requests -> {"idle"} \cup InFlight \cup Ended]
    /\ call \in [Requests -> Calls \cup {NoCall}]
    /\ inserted \in [Requests -> Nat]
    /\ item \in [Requests -> Nat \ {0}]
    /\ reply \in [Requests -> {0, 200, 201, 404, 409, 422, 500}]

Init ==
    /\ table = [k \in Ids |-> Settled(IF k <= Len(Existing) THEN Existing[k] ELSE NoRow)]
    /\ nextId = Len(Existing) + 1
    /\ pc = [r \in Requests |-> "idle"]
    /\ call = [r \in Requests |-> NoCall]
    /\ inserted = [r \in Requests |-> 0]
    /\ item = [r \in Requests |-> 1]
    /\ reply = [r \in Requests |-> 0]

-----------------------------------------------------------------------------
(* What a request finds in the table.                                       *)

(* Mutant: the look for the name sees what others have not committed.       *)
FindByNameDirty(r, name) ==
    {k \in Ids : table[k].draft # NoRow /\ table[k].draft.name = name}

FindByName(r, name) ==
    {k \in Ids : Visible(table, r, k) # NoRow /\ Visible(table, r, k).name = name}
FindByUrl(r, url) ==
    {k \in Ids : Visible(table, r, k) # NoRow /\ Visible(table, r, k).url = url}

(* The unique indexes: a check waits while another transaction may still    *)
(* add, drop or release the value, and otherwise finds it taken or free.    *)
NameInDoubt(r, name) == LET Has(row) == row # NoRow /\ row.name = name
                        IN  InDoubt(table, r, Has)
UrlInDoubt(r, url)   == LET Has(row) == row # NoRow /\ row.url = url
                        IN  "url" \in UniqueColumns /\ InDoubt(table, r, Has)
NameTaken(r, name)   == FindByName(r, name) # {}
UrlTaken(r, url, own) == "url" \in UniqueColumns /\ FindByUrl(r, url) \ own # {}

MustWait(r, it) ==
    NameInDoubt(r, it.name) \/ (~ NameTaken(r, it.name) /\ UrlInDoubt(r, it.url))

(* The request in flight waits for a transaction of another one.            *)
Blocked(r) ==
    \/ pc[r] = "insert" /\ MustWait(r, call[r])
    \/ /\ pc[r] = "bulk"
       /\ item[r] <= Len(call[r].items)
       /\ MustWait(r, call[r].items[item[r]])
    \/ /\ pc[r] = "write"
       /\ \/ ~ Lockable(table, r, call[r].id)
          \/ call[r].op = "update" /\ UrlInDoubt(r, call[r].url)

(* Control moves on, or an exception ends the request: the transaction      *)
(* rolls back and the error handlers of api/errors.py answer.               *)
GoTo(r, label) == pc' = [pc EXCEPT ![r] = label]

Fail(r, code) ==
    /\ table' = RolledBack(table, r)
    /\ reply' = [reply EXCEPT ![r] = code]
    /\ GoTo(r, "rolledBack")

Answer(r, code) ==
    /\ reply' = [reply EXCEPT ![r] = code]
    /\ GoTo(r, "commit")

InsertRow(r, it) ==
    /\ nextId \in Ids
    /\ table' = Write(table, r, nextId,
                      [name |-> it.name, url |-> it.url, state |-> "active", by |-> r])
    /\ nextId' = nextId + 1
    /\ inserted' = [inserted EXCEPT ![r] = @ + 1]

-----------------------------------------------------------------------------
FirstStatement(op) == CASE op = "register" -> "checkName"
                        [] op = "bulk"     -> "bulk"
                        [] OTHER           -> "read"

Begin(r, c) ==
    /\ pc[r] = "idle"
    /\ call' = [call EXCEPT ![r] = c]
    /\ GoTo(r, FirstStatement(c.op))
    /\ UNCHANGED <<table, nextId, inserted, item, reply>>

(* register and bulk_register validate their fields before any statement.   *)
Refuse(r, c) ==
    /\ pc[r] = "idle"
    /\ c.op \in {"register", "bulk"}
    /\ call' = [call EXCEPT ![r] = c]
    /\ Fail(r, 422)
    /\ UNCHANGED <<nextId, inserted, item>>

CheckName(r) ==
    /\ pc[r] = "checkName"
    /\ \/ FindByName(r, call[r].name) = {} /\ GoTo(r, "checkUrl") /\ UNCHANGED <<table, reply>>
       \/ FindByName(r, call[r].name) # {} /\ Fail(r, 409)
    /\ UNCHANGED <<nextId, call, inserted, item>>

(* find_by_url ends in scalar_one_or_none, which raises when two rows match.*)
CheckUrl(r) ==
    LET found == FindByUrl(r, call[r].url)
        own   == IF call[r].op = "update" THEN {call[r].id} ELSE {}
    IN  /\ pc[r] = "checkUrl"
        /\ \/ /\ found \subseteq own
              /\ GoTo(r, IF call[r].op = "update" THEN "write" ELSE "resolve")
              /\ UNCHANGED <<table, reply>>
           \/ Cardinality(found) = 1 /\ ~ found \subseteq own /\ Fail(r, 409)
           \/ Cardinality(found) > 1 /\ Fail(r, 500)
        /\ UNCHANGED <<nextId, call, inserted, item>>

(* Some model id of the body may not exist; the models are not in this module. *)
ResolveModels(r) ==
    /\ pc[r] = "resolve"
    /\ \/ GoTo(r, "insert") /\ UNCHANGED <<table, reply>>
       \/ Fail(r, 404)
    /\ UNCHANGED <<nextId, call, inserted, item>>

(* Mutant: what find_by_name and find_by_url have found is relied on.       *)
InsertUnchecked(r) ==
    /\ pc[r] = "insert"
    /\ InsertRow(r, call[r])
    /\ Answer(r, 201)
    /\ UNCHANGED <<call, item>>

Insert(r) ==
    LET c == call[r]
    IN  /\ pc[r] = "insert"
        /\ ~ Blocked(r)
        /\ \/ /\ ~ NameTaken(r, c.name) /\ ~ UrlTaken(r, c.url, {})
              /\ InsertRow(r, c)
              /\ Answer(r, 201)
           \/ /\ NameTaken(r, c.name) \/ UrlTaken(r, c.url, {})
              /\ Fail(r, 409)
              /\ UNCHANGED <<nextId, inserted>>
        /\ UNCHANGED <<call, item>>

(* Mutant: skipped items are counted as inserted.                           *)
BulkItemCountsAll(r) ==
    LET it == call[r].items[item[r]]
    IN  /\ pc[r] = "bulk"
        /\ item[r] <= Len(call[r].items)
        /\ ~ Blocked(r)
        /\ item' = [item EXCEPT ![r] = @ + 1]
        /\ \/ /\ NameTaken(r, it.name)
              /\ inserted' = [inserted EXCEPT ![r] = @ + 1]
              /\ UNCHANGED <<table, nextId>>
           \/ ~ NameTaken(r, it.name) /\ InsertRow(r, it)
        /\ UNCHANGED <<call, pc, reply>>

(* Mutant: a name that another request is about to take is skipped at once. *)
BulkItemSkipsDoubt(r) ==
    LET it == call[r].items[item[r]]
    IN  /\ pc[r] = "bulk"
        /\ item[r] <= Len(call[r].items)
        /\ item' = [item EXCEPT ![r] = @ + 1]
        /\ \/ /\ NameTaken(r, it.name) \/ NameInDoubt(r, it.name)
              /\ UNCHANGED <<table, nextId, inserted>>
           \/ /\ ~ (NameTaken(r, it.name) \/ NameInDoubt(r, it.name))
              /\ InsertRow(r, it)
        /\ UNCHANGED <<call, pc, reply>>

(* Mutant: each item is committed for itself.                               *)
BulkItemAutocommit(r) ==
    LET it == call[r].items[item[r]]
    IN  /\ pc[r] = "bulk"
        /\ item[r] <= Len(call[r].items)
        /\ ~ Blocked(r)
        /\ item' = [item EXCEPT ![r] = @ + 1]
        /\ \/ NameTaken(r, it.name) /\ UNCHANGED <<table, nextId, inserted>>
           \/ /\ ~ NameTaken(r, it.name) /\ ~ UrlTaken(r, it.url, {}) /\ nextId \in Ids
              /\ table' = [table EXCEPT ![nextId] = Settled(
                              [name |-> it.name, url |-> it.url, state |-> "active", by |-> r])]
              /\ nextId' = nextId + 1
              /\ inserted' = [inserted EXCEPT ![r] = @ + 1]
        /\ UNCHANGED <<call, pc, reply>>

(* INSERT .. ON CONFLICT ON CONSTRAINT backend_name_unique DO NOTHING takes *)
(* the items one after the other, in the order of the body.                 *)
BulkItem(r) ==
    LET it == call[r].items[item[r]]
    IN  /\ pc[r] = "bulk"
        /\ item[r] <= Len(call[r].items)
        /\ ~ Blocked(r)
        /\ item' = [item EXCEPT ![r] = @ + 1]
        /\ \/ NameTaken(r, it.name) /\ UNCHANGED <<table, nextId, inserted, pc, reply>>
           \/ /\ ~ NameTaken(r, it.name) /\ ~ UrlTaken(r, it.url, {})
              /\ InsertRow(r, it)
              /\ UNCHANGED <<pc, reply>>
           \/ /\ ~ NameTaken(r, it.name) /\ UrlTaken(r, it.url, {})
              /\ Fail(r, 409)
              /\ UNCHANGED <<nextId, inserted>>
        /\ UNCHANGED call

BulkDone(r) ==
    /\ pc[r] = "bulk"
    /\ item[r] > Len(call[r].items)
    /\ Answer(r, 200)
    /\ UNCHANGED <<table, nextId, call, inserted, item>>

(* update and change_state read the row and decide on what they have read.  *)
Read(r) ==
    LET c   == call[r]
        row == Visible(table, r, c.id)
    IN  /\ pc[r] = "read"
        /\ \/ row = NoRow /\ Fail(r, 404)
           \/ /\ row # NoRow /\ c.op = "update" /\ c.url # NoUrl
              /\ GoTo(r, "checkUrl") /\ UNCHANGED <<table, reply>>
           \/ /\ row # NoRow /\ c.op = "update" /\ c.url = NoUrl /\ c.tuning
              /\ GoTo(r, "write") /\ UNCHANGED <<table, reply>>
           \/ /\ row # NoRow /\ c.op = "update" /\ c.url = NoUrl /\ ~ c.tuning
              /\ Fail(r, 422)
           \/ /\ row # NoRow /\ c.op = "state" /\ c.target \in STATE_TRANSITIONS[row.state]
              /\ GoTo(r, "write") /\ UNCHANGED <<table, reply>>
           \/ /\ row # NoRow /\ c.op = "state" /\ c.target \notin STATE_TRANSITIONS[row.state]
              /\ Fail(r, 409)
        /\ UNCHANGED <<nextId, call, inserted, item>>

(* Mutant: a PATCH without a url writes that, too.                          *)
ChangedBlindly(row, c) ==
    IF c.op = "state" THEN [row EXCEPT !.state = c.target]
    ELSE [row EXCEPT !.url = c.url]

(* apply_update names the changed columns only: the other columns keep what *)
(* the version committed last has.                                          *)
Changed(row, c) ==
    IF c.op = "state" THEN [row EXCEPT !.state = c.target]
    ELSE IF c.url # NoUrl THEN [row EXCEPT !.url = c.url]
    ELSE row

ApplyUpdate(r) ==
    LET c == call[r]
    IN  /\ pc[r] = "write"
        /\ ~ Blocked(r)
        /\ \/ /\ c.op = "update" => ~ UrlTaken(r, c.url, {c.id})
              /\ table' = Write(table, r, c.id, Changed(table[c.id].draft, c))
              /\ Answer(r, 200)
           \/ /\ c.op = "update" /\ UrlTaken(r, c.url, {c.id})
              /\ Fail(r, 409)
        /\ UNCHANGED <<nextId, call, inserted, item>>

Commit(r) ==
    /\ pc[r] = "commit"
    /\ table' = Committed(table, r)
    /\ GoTo(r, "committed")
    /\ UNCHANGED <<nextId, call, inserted, item, reply>>

(* PostgreSQL ends a wait itself: deadlock detection or statement_timeout.  *)
LockWaitAborted(r) ==
    /\ Blocked(r)
    /\ Fail(r, 500)
    /\ UNCHANGED <<nextId, call, inserted, item>>

(* A statement or the commit fails, or the process or the connection dies.  *)
(* FastAPI leaves the session dependency after it has sent the answer: when *)
(* the commit fails the client keeps the answer it has.                     *)
Aborted(r) ==
    /\ pc[r] \in InFlight
    /\ table' = RolledBack(table, r)
    /\ reply' = [reply EXCEPT ![r] = IF pc[r] = "commit" THEN @ ELSE 500]
    /\ GoTo(r, "rolledBack")
    /\ UNCHANGED <<nextId, call, inserted, item>>

Step(r) ==
    \/ CheckName(r) \/ CheckUrl(r) \/ ResolveModels(r) \/ Insert(r)
    \/ BulkItem(r) \/ BulkDone(r)
    \/ Read(r) \/ ApplyUpdate(r)
    \/ Commit(r) \/ LockWaitAborted(r)

Arrive(r) == \E c \in Calls : Begin(r, c) \/ Refuse(r, c)

Done == /\ \A r \in Requests : pc[r] \in Ended
        /\ UNCHANGED vars

Next == \/ \E r \in Requests : Arrive(r) \/ Step(r) \/ Aborted(r)
        \/ Done

(* Every statement that can execute does, and a wait that never ends is cut *)
(* off; requests need not arrive and nothing need fail.                     *)
Spec     == Init /\ [][Next]_vars
FairSpec == Spec /\ \A r \in Requests : WF_vars(Step(r))

-----------------------------------------------------------------------------
(* Correctness. *)

BackendsOf(r) == {k \in Ids : table[k].row # NoRow /\ table[k].row.by = r}

(* The names of the committed backends are distinct, however the requests   *)
(* that looked for the name before they inserted it interleave              *)
(* (BackendService.register and bulk_register).                             *)
NameUnique ==
    \A j, k \in Ids :
        table[j].row # NoRow /\ table[k].row # NoRow /\ table[j].row.name = table[k].row.name
            => j = k

(* With a unique index on it, a URL is registered once, by whichever of the *)
(* operations, also those that do not look for it (bulk_register).  Without *)
(* one it is not (tests/test_backend_service.py                             *)
(* test_duplicate_url_conflicts expects that it is).                        *)
UrlUnique ==
    \A j, k \in Ids :
        table[j].row # NoRow /\ table[k].row # NoRow /\ table[j].row.url = table[k].row.url
            => j = k

(* A request that fails leaves nothing behind, and one that succeeds has    *)
(* stored exactly as many rows as its answer counts (bulk_register's        *)
(* "inserted" is summed over a statement that may wait between its rows).   *)
InsertedCounted ==
    \A r \in Requests :
        Cardinality(BackendsOf(r)) = IF pc[r] = "committed" THEN inserted[r] ELSE 0

(* After a bulk registration that succeeded every name of its body is       *)
(* registered: what it skipped was there and is not taken back              *)
(* (BackendRepository.upsert_many).                                         *)
BulkComplete ==
    \A r \in Requests :
        pc[r] = "committed" /\ call[r].op = "bulk" =>
            \A i \in DOMAIN call[r].items :
                \E k \in Ids : table[k].row # NoRow /\ table[k].row.name = call[r].items[i].name

(* What a row must have for a request to be refused because of it.          *)
Clashes(r, row) ==
    \/ call[r].op = "register" /\ (row.name = call[r].name \/ row.url = call[r].url)
    \/ call[r].op = "bulk" /\ \E i \in DOMAIN call[r].items : row.url = call[r].items[i].url
    \/ call[r].op = "update" /\ row.url = call[r].url
    \/ call[r].op = "state" /\ call[r].target \notin STATE_TRANSITIONS[row.state]

(* A name or URL conflict is answered only when another backend really has  *)
(* the name or the URL: never because of a request that then fails          *)
(* (BackendService.register, and the unique violation in api/errors.py).    *)
ConflictIsReal ==
    [][\A r \in Requests : reply'[r] = 409 /\ reply[r] # 409 =>
          \E k \in Ids : /\ Visible(table, r, k) # NoRow
                         /\ Clashes(r, Visible(table, r, k))]_vars

(* The state a backend has changes only along STATE_TRANSITIONS             *)
(* (BackendService.change_state).                                           *)
StateTransitionsEnforced ==
    [][\A k \in Ids :
          LET old == table[k].row
              new == table'[k].row
          IN  old # NoRow /\ new # NoRow /\ old.state # new.state
                  => new.state \in STATE_TRANSITIONS[old.state]]_vars

(* What everybody reads.                                                    *)
CommittedRows == [k \in Ids |-> table[k].row]

Catalogue == INSTANCE BackendCatalogue
               WITH catalogue <- CommittedRows, Makers <- Requests \cup {NoTxn}

(* To those who read it the registry is BackendCatalogue, however the       *)
(* requests interleave: the rows of a bulk registration appear all at once, *)
(* no row ever goes or changes its name, and a PATCH and a change of state  *)
(* of the same backend do not take back each other's columns                *)
(* (BackendService, BackendRepository.apply_update).                        *)
ImplementsCatalogue == Catalogue!CatalogueSpec
=============================================================================
