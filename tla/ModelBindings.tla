--------------------------- MODULE ModelBindings ---------------------------
(***************************************************************************)
(* The model catalogue and which models a backend serves: the writing      *)
(* operations of service/model_service.py, and the operations of           *)
(* service/backend_service.py on table "backend_model".                    *)
(*                                                                         *)
(* As in BackendRegistry every request is a transaction, and a step is one *)
(* statement; an INSERT or DELETE of several rows takes its rows one after *)
(* the other and may wait at each, so it is several steps here.            *)
(***************************************************************************)
EXTENDS ReadCommitted, Integers, FiniteSets

CONSTANTS
    Requests,           \* HTTP requests, each of them served once
    Backends,           \* ids of backends, those not registered yet included
    Models,             \* ids of models, likewise
    ExistingBackends,   \* registered at the start
    ExistingModels,     \* in the catalogue at the start
    InitiallyBound,     \* pairs <<backend, model>> bound at the start
    Bodies,             \* the sets of model ids that requests carry
    Absent, NoCall

Pairs == Backends \X Models
Rows  == Requests \cup {NoTxn}      \* a row, named after the request that inserted it

ASSUME ModelAssumption == Models \subseteq Nat
ASSUME BodyAssumption  == Bodies \subseteq SUBSET Models
ASSUME ExistingAssumption ==
    /\ ExistingBackends \subseteq Backends
    /\ ExistingModels \subseteq Models
    /\ InitiallyBound \subseteq ExistingBackends \X ExistingModels
ASSUME FreshAssumption == NoTxn \notin Requests /\ Absent \notin Rows

Calls ==
         [op : {"bind", "unbind", "replace", "register"}, backend : Backends, models : Bodies]
    \cup [op : {"createModel", "upsertModel"}, model : Models]

VARIABLES
    backend,    \* table backend, here only which rows there are
    model,      \* table model
    binding,    \* table backend_model
    pc, call,
    toAdd,      \* model ids the INSERT of the request has still to take
    toRemove,   \* model ids its DELETE has still to take
    at,         \* the one of them whose row the DELETE is about to lock
    seen        \* the rows of its backend in the snapshot of its DELETE

tables == <<backend, model, binding>>
vars   == <<backend, model, binding, pc, call, toAdd, toRemove, at, seen>>

InFlight == {"get", "resolve", "bound", "createRow", "insert", "snapshot", "delete",
             "findModel", "insertModel", "commit"}
Ended    == {"committed", "rolledBack"}

NothingSeen == [m \in Models |-> Absent]

TypeOK ==
    /\ backend \in Table(Backends, Rows \cup {Absent}, Requests)
    /\ model \in Table(Models, Rows \cup {Absent}, Requests)
    /\ binding \in Table(Pairs, Rows \cup {Absent}, Requests)
    /\ pc \in [Requests -> {"idle"} \cup InFlight \cup Ended]
    /\ call \in [Requests -> Calls \cup {NoCall}]
    /\ toAdd \in [Requests -> SUBSET Models]
    /\ toRemove \in [Requests -> SUBSET Models]
    /\ at \in [Requests -> Models \cup {Absent}]
    /\ seen \in [Requests -> [Models -> Rows \cup {Absent}]]

InitialRows(Keys, Present) ==
    [k \in Keys |-> Settled(IF k \in Present THEN NoTxn ELSE Absent)]

Init ==
    /\ backend = InitialRows(Backends, ExistingBackends)
    /\ model = InitialRows(Models, ExistingModels)
    /\ binding = InitialRows(Pairs, InitiallyBound)
    /\ pc = [r \in Requests |-> "idle"]
    /\ call = [r \in Requests |-> NoCall]
    /\ toAdd = [r \in Requests |-> {}]
    /\ toRemove = [r \in Requests |-> {}]
    /\ at = [r \in Requests |-> Absent]
    /\ seen = [r \in Requests |-> NothingSeen]

-----------------------------------------------------------------------------
GoTo(r, label) == pc' = [pc EXCEPT ![r] = label]

EndWith(End(_, _), r, label) ==
    /\ backend' = End(backend, r)
    /\ model' = End(model, r)
    /\ binding' = End(binding, r)
    /\ toAdd' = [toAdd EXCEPT ![r] = {}]
    /\ toRemove' = [toRemove EXCEPT ![r] = {}]
    /\ at' = [at EXCEPT ![r] = Absent]
    /\ seen' = [seen EXCEPT ![r] = NothingSeen]
    /\ GoTo(r, label)
    /\ UNCHANGED call

Fail(r) == EndWith(RolledBack, r, "rolledBack")

(* Mutant: ids are not looked up.                                           *)
NoneMissing(r, ids) == {}

Missing(r, ids) == {m \in ids : Visible(model, r, m) = Absent}
BoundIn(r, b)   == {m \in Models : Visible(binding, r, <<b, m>>) # Absent}

(* Mutant: the ids are used in any order.                                   *)
AnyOf(m, ids) == m \in ids

(* _resolve_model_ids and replace_models sort the ids: an INSERT takes the  *)
(* rows of its VALUES from the least one on.                                *)
First(m, ids) == m \in ids /\ \A n \in ids : m <= n

(* The row that the DELETE of the request is about to lock.                 *)
Reached(r, m) == m \in toRemove[r] /\ m = at[r]

(* The request waits at model m for a transaction of s.  An INSERT waits    *)
(* for everybody who has written the pair, a DELETE for those who have      *)
(* written the very row that its snapshot holds.                            *)
WaitsAt(r, s, m) ==
    LET pair == <<call[r].backend, m>>
    IN  /\ pc[r] \in {"insert", "delete"}
        /\ binding[pair].owner = s /\ s # NoTxn /\ s # r
        /\ \/ pc[r] = "insert" /\ First(m, toAdd[r])
           \/ pc[r] = "delete" /\ Reached(r, m) /\ binding[pair].row = seen[r][m]

Waits(r, s) == \E m \in Models : WaitsAt(r, s, m)

Blocked(r) ==
    \/ pc[r] \in {"insert", "delete"} /\ \E s \in Requests : Waits(r, s)
    \/ pc[r] = "insertModel" /\ ~ Lockable(model, r, call[r].model)

-----------------------------------------------------------------------------
FirstStatement(op) == CASE op = "register"    -> "resolve"
                        [] op = "createModel" -> "findModel"
                        [] op = "upsertModel" -> "insertModel"
                        [] OTHER              -> "get"

(* A registration gets an id from the sequence that nobody else gets.       *)
Begin(r, c) ==
    /\ pc[r] = "idle"
    /\ c.op = "register" =>
         /\ c.backend \notin ExistingBackends
         /\ \A s \in Requests : pc[s] # "idle" /\ call[s].op = "register"
                                    => call[s].backend # c.backend
    /\ call' = [call EXCEPT ![r] = c]
    /\ GoTo(r, FirstStatement(c.op))
    /\ UNCHANGED <<tables, toAdd, toRemove, at, seen>>

Get(r) ==
    /\ pc[r] = "get"
    /\ \/ /\ Visible(backend, r, call[r].backend) # Absent
          /\ GoTo(r, "resolve")
          /\ UNCHANGED <<tables, call, toAdd, toRemove, at, seen>>
       \/ /\ Visible(backend, r, call[r].backend) = Absent
          /\ Fail(r)

(* Every id has to be in the catalogue.  Then bind_models and register have *)
(* rows to insert, unbind_models has rows to delete.                        *)
ResolveModels(r) ==
    LET c == call[r]
    IN  /\ pc[r] = "resolve"
        /\ \/ Missing(r, c.models) # {} /\ Fail(r)
           \/ /\ Missing(r, c.models) = {}
              /\ toAdd' = [toAdd EXCEPT ![r] = IF c.op \in {"bind", "register"} THEN c.models ELSE {}]
              /\ toRemove' = [toRemove EXCEPT ![r] = IF c.op = "unbind" THEN c.models ELSE {}]
              /\ GoTo(r, CASE c.op = "register" -> "createRow"
                           [] c.op = "replace"  -> "bound"
                           [] OTHER             -> "insert")
              /\ UNCHANGED <<tables, call, at, seen>>

CreateBackend(r) ==
    /\ pc[r] = "createRow"
    /\ backend' = Write(backend, r, call[r].backend, r)
    /\ GoTo(r, "insert")
    /\ UNCHANGED <<model, binding, call, toAdd, toRemove, at, seen>>

(* replace_models computes both differences from what it reads here.        *)
ReadBound(r) ==
    LET bound == BoundIn(r, call[r].backend)
    IN  /\ pc[r] = "bound"
        /\ toAdd' = [toAdd EXCEPT ![r] = call[r].models \ bound]
        /\ toRemove' = [toRemove EXCEPT ![r] = bound \ call[r].models]
        /\ GoTo(r, "insert")
        /\ UNCHANGED <<tables, call, at, seen>>

(* Mutant: a pair that another request is about to insert is skipped.       *)
InsertItemSkipsDoubt(r, m) ==
    LET pair == <<call[r].backend, m>>
    IN  /\ pc[r] = "insert"
        /\ First(m, toAdd[r])
        /\ binding' = IF Visible(binding, r, pair) = Absent /\ Lockable(binding, r, pair)
                      THEN Write(binding, r, pair, r) ELSE binding
        /\ toAdd' = [toAdd EXCEPT ![r] = @ \ {m}]
        /\ UNCHANGED <<backend, model, pc, call, toRemove, at, seen>>

(* INSERT .. ON CONFLICT DO NOTHING, one row.                               *)
InsertItem(r, m) ==
    LET pair == <<call[r].backend, m>>
    IN  /\ pc[r] = "insert"
        /\ First(m, toAdd[r])
        /\ ~ \E s \in Requests : WaitsAt(r, s, m)
        /\ binding' = IF Visible(binding, r, pair) = Absent
                      THEN Write(binding, r, pair, r) ELSE binding
        /\ toAdd' = [toAdd EXCEPT ![r] = @ \ {m}]
        /\ UNCHANGED <<backend, model, pc, call, toRemove, at, seen>>

(* No statement is sent for an empty list.                                  *)
InsertDone(r) ==
    /\ pc[r] = "insert"
    /\ toAdd[r] = {}
    /\ GoTo(r, IF toRemove[r] = {} THEN "commit" ELSE "snapshot")
    /\ UNCHANGED <<tables, call, toAdd, toRemove, at, seen>>

(* The order in which a DELETE meets its rows is that of its plan.          *)
MoveTo(r, ids) ==
    \/ ids = {} /\ at' = [at EXCEPT ![r] = Absent]
    \/ \E m \in ids : at' = [at EXCEPT ![r] = m]

(* DELETE takes its snapshot and finds rows in it ..                        *)
DeleteStart(r) ==
    LET rows  == [m \in Models |-> Visible(binding, r, <<call[r].backend, m>>)]
        found == {m \in toRemove[r] : rows[m] # Absent}
    IN  /\ pc[r] = "snapshot"
        /\ seen' = [seen EXCEPT ![r] = rows]
        /\ toRemove' = [toRemove EXCEPT ![r] = found]
        /\ MoveTo(r, found)
        /\ GoTo(r, "delete")
        /\ UNCHANGED <<tables, call, toAdd>>

(* .. and deletes each of them that nobody else has deleted by then.        *)
DeleteItem(r, m) ==
    LET pair == <<call[r].backend, m>>
    IN  /\ pc[r] = "delete"
        /\ Reached(r, m)
        /\ ~ \E s \in Requests : WaitsAt(r, s, m)
        /\ binding' = IF binding[pair].row = seen[r][m]
                      THEN Write(binding, r, pair, Absent) ELSE binding
        /\ toRemove' = [toRemove EXCEPT ![r] = @ \ {m}]
        /\ MoveTo(r, toRemove[r] \ {m})
        /\ UNCHANGED <<backend, model, pc, call, toAdd, seen>>

DeleteDone(r) ==
    /\ pc[r] = "delete"
    /\ toRemove[r] = {}
    /\ GoTo(r, "commit")
    /\ UNCHANGED <<tables, call, toAdd, toRemove, at, seen>>

(* Mutant: create returns the model it has found.                           *)
FindModelReturns(r) ==
    /\ pc[r] = "findModel"
    /\ GoTo(r, IF Visible(model, r, call[r].model) = Absent THEN "insertModel" ELSE "return")
    /\ UNCHANGED <<tables, call, toAdd, toRemove, at, seen>>

FindModel(r) ==
    /\ pc[r] = "findModel"
    /\ \/ /\ Visible(model, r, call[r].model) = Absent
          /\ GoTo(r, "insertModel")
          /\ UNCHANGED <<tables, call, toAdd, toRemove, at, seen>>
       \/ /\ Visible(model, r, call[r].model) # Absent
          /\ Fail(r)

(* A plain INSERT fails when the model is there, an upsert updates it.      *)
InsertModel(r) ==
    LET m   == call[r].model
        row == Visible(model, r, m)
    IN  /\ pc[r] = "insertModel"
        /\ ~ Blocked(r)
        /\ \/ row # Absent /\ call[r].op = "createModel" /\ Fail(r)
           \/ /\ row = Absent \/ call[r].op = "upsertModel"
              /\ model' = Write(model, r, m, IF row = Absent THEN r ELSE row)
              /\ GoTo(r, "commit")
              /\ UNCHANGED <<backend, binding, call, toAdd, toRemove, at, seen>>

Commit(r) == pc[r] = "commit" /\ EndWith(Committed, r, "committed")

LockWaitAborted(r) == Blocked(r) /\ Fail(r)

(* Requests of which each waits for another one, and is waited for.         *)
Circle(S) ==
    \A r \in S : (\E s \in S : Waits(r, s)) /\ (\E s \in S : Waits(s, r))

InCircle(r) == \E S \in SUBSET Requests : r \in S /\ Circle(S)

(* PostgreSQL looks for circles whenever a wait takes long.                 *)
DeadlockDetected(r) == InCircle(r) /\ Fail(r)

Aborted(r) == pc[r] \in InFlight /\ Fail(r)

Step(r) ==
    \/ Get(r) \/ ResolveModels(r) \/ CreateBackend(r) \/ ReadBound(r)
    \/ \E m \in Models : InsertItem(r, m) \/ DeleteItem(r, m)
    \/ InsertDone(r) \/ DeleteStart(r) \/ DeleteDone(r)
    \/ FindModel(r) \/ InsertModel(r)
    \/ Commit(r)

Arrive(r) == \E c \in Calls : Begin(r, c)

Done == /\ \A r \in Requests : pc[r] \in Ended
        /\ UNCHANGED vars

Next == \/ \E r \in Requests : Arrive(r) \/ Step(r) \/ LockWaitAborted(r)
                              \/ DeadlockDetected(r) \/ Aborted(r)
        \/ Done

(* Statements that can execute do, and a DELETE in a circle is cut off.  No *)
(* other wait has to be, neither by the detector nor by statement_timeout.  *)
Spec     == Init /\ [][Next]_vars
FairSpec == Spec /\ \A r \in Requests :
                        /\ WF_vars(Step(r))
                        /\ WF_vars(pc[r] = "delete" /\ DeadlockDetected(r))

-----------------------------------------------------------------------------
(* Correctness. *)

(* A bound pair has its backend and its models, registered for good: the    *)
(* check of the ids (BackendService._resolve_model_ids) and the insertion   *)
(* of the pairs are separate statements.                                    *)
BoundExists ==
    \A pair \in Pairs :
        binding[pair].row # Absent =>
            backend[pair[1]].row # Absent /\ model[pair[2]].row # Absent

(* An INSERT is never part of a circle of waits: all insert in the order of *)
(* the ids (the sorted lists of _resolve_model_ids and replace_models), and *)
(* delete after they have inserted.  Only DELETEs can cross each other,     *)
(* whose order nobody chooses (BackendRepository.unbind_models).            *)
OnlyDeletesCircle ==
    \A r \in Requests : InCircle(r) => pc[r] = "delete"

(* What a body asks for, and the contrary: what takes the pair away.        *)
AsksFor(r, b, m) ==
    /\ call[r].op \in {"bind", "replace", "register"}
    /\ call[r].backend = b /\ m \in call[r].models
AsksAgainst(r, b, m) ==
    /\ call[r].op \in {"unbind", "replace"}
    /\ call[r].backend = b
    /\ (call[r].op = "unbind") = (m \in call[r].models)

Binds(r, b, m)   == pc[r] = "committed" /\ AsksFor(r, b, m)
Unbinds(r, b, m) == pc[r] = "committed" /\ AsksAgainst(r, b, m)

Quiet == \A r \in Requests : pc[r] \notin InFlight

(* Whether a pair is bound at the end is what some request that committed   *)
(* asked for, or what it was: a bind that skips a row and an unbind that    *)
(* waits for another one lose no effect that nobody contradicts             *)
(* (BackendRepository.bind_models, unbind_models).                          *)
OutcomeExplained ==
    Quiet => \A b \in Backends, m \in Models :
        LET bound == binding[<<b, m>>].row # Absent
        IN  /\ bound => \/ \E r \in Requests : Binds(r, b, m)
                        \/ <<b, m>> \in InitiallyBound
            /\ ~ bound => \/ \E r \in Requests : Unbinds(r, b, m)
                          \/ /\ <<b, m>> \notin InitiallyBound
                             /\ \A r \in Requests : ~ Binds(r, b, m)

(* A request that fails leaves nothing, in no table.                        *)
Inserters(table) == {table[k].row : k \in DOMAIN table} \ {NoTxn, Absent}

FailedLeavesNothing ==
    \A r \in Inserters(backend) \cup Inserters(model) \cup Inserters(binding) :
        pc[r] = "committed"

(* Whoever starts gets to its end although nothing cuts waits off, DELETEs  *)
(* that have crossed each other excepted.                                   *)
EveryRequestEnds ==
    \A r \in Requests : pc[r] \in InFlight ~> pc[r] \in Ended
=============================================================================
