------------------------ MODULE ModelBindingsProofs ------------------------
(* The safety of the bindings, for any number of requests, backends and     *)
(* models: bound pairs have their backend and model, no INSERT is part of a *)
(* circle of waits, a failing request leaves nothing, and what is bound in  *)
(* the end is what somebody asked for.                                      *)
EXTENDS ModelBindings, ReadCommittedProofs, WellFoundedInduction

(* The inductive invariant behind BoundExists, OnlyDeletesCircle and        *)
(* FailedLeavesNothing.                                                     *)

OpsAt == [get |-> {"bind", "unbind", "replace"},
          resolve |-> {"bind", "unbind", "replace", "register"},
          createRow |-> {"register"}, bound |-> {"replace"},
          insert |-> {"bind", "unbind", "replace", "register"},
          snapshot |-> {"bind", "unbind", "replace", "register"},
          delete |-> {"bind", "unbind", "replace", "register"},
          findModel |-> {"createModel"}, insertModel |-> {"createModel", "upsertModel"},
          commit |-> {"bind", "unbind", "replace", "register", "createModel", "upsertModel"}]

(* Where a request may have written.                                        *)
Writing == {"insert", "snapshot", "delete", "commit"}

(* A request is where its call leads, and no two registrations get one id.  *)
ControlOK ==
    /\ \A r \in Requests : pc[r] # "idle" => call[r] \in Calls
    /\ \A r \in Requests : pc[r] \in InFlight => call[r].op \in OpsAt[pc[r]]
    /\ \A r, s \in Requests :
          pc[r] # "idle" /\ pc[s] # "idle" /\ call[r].op = "register" /\ call[s].op = "register"
              => r = s \/ call[r].backend # call[s].backend

(* Who holds a row lock, and where it is by then.                           *)
OwnersOK ==
    \A s \in Requests :
        /\ \A b \in Backends : backend[b].owner = s =>
              pc[s] \in Writing /\ call[s].op = "register" /\ call[s].backend = b
        /\ \A m \in Models : model[m].owner = s =>
              pc[s] = "commit" /\ call[s].op \in {"createModel", "upsertModel"}
        /\ \A b \in Backends, m \in Models : binding[<<b, m>>].owner = s =>
              /\ pc[s] \in Writing /\ call[s].op \notin {"createModel", "upsertModel"}
              /\ call[s].backend = b

(* A row that nobody holds is settled; backends and models do not go.       *)
SlotsOK ==
    /\ \A b \in Backends : /\ backend[b].owner = NoTxn => backend[b].draft = backend[b].row
                           /\ backend[b].row # Absent => backend[b].draft # Absent
    /\ \A m \in Models : /\ model[m].owner = NoTxn => model[m].draft = model[m].row
                         /\ model[m].row # Absent => model[m].draft # Absent
    /\ \A p \in Pairs : binding[p].owner = NoTxn => binding[p].draft = binding[p].row

(* What a request has looked up is still there.                             *)
FoundBy(r) ==
    /\ pc[r] \in {"resolve", "bound"} \cup Writing /\ call[r].op \in {"bind", "unbind", "replace"}
          => backend[call[r].backend].row # Absent
    /\ pc[r] \in Writing /\ call[r].op = "register"
          => /\ backend[call[r].backend].owner = r
             /\ backend[call[r].backend].draft # Absent
    /\ pc[r] = "bound" => \A m \in call[r].models : model[m].row # Absent
    /\ \A m \in toAdd[r] : model[m].row # Absent

FoundOK == \A r \in Requests : FoundBy(r)

(* A request adds pairs upwards, and then removes some that are committed.  *)
WorkOf(r) ==
    /\ \A b \in Backends, m \in Models : binding[<<b, m>>].owner = r =>
          /\ pc[r] = "insert" => \A n \in toAdd[r] : m < n
          /\ pc[r] \in {"insert", "snapshot"} => binding[<<b, m>>].row = Absent
    /\ pc[r] = "delete" => \A m \in toRemove[r] : seen[r][m] # Absent

WorkOK == \A r \in Requests : WorkOf(r)

(* A pair that is bound, or is to be, has its model.                        *)
PairsOK ==
    \A b \in Backends, m \in Models :
        binding[<<b, m>>].draft # Absent => model[m].row # Absent

(* Whose insertions there are.                                              *)
AuthorOK(slot) ==
    /\ slot.row \in Requests => pc[slot.row] = "committed"
    /\ slot.draft \in Requests => slot.draft = slot.owner \/ pc[slot.draft] = "committed"

AuthorsOK ==
    /\ \A b \in Backends : AuthorOK(backend[b])
    /\ \A m \in Models : AuthorOK(model[m])
    /\ \A p \in Pairs : AuthorOK(binding[p])

IInv == /\ TypeOK /\ ControlOK /\ OwnersOK /\ SlotsOK /\ FoundOK
        /\ WorkOK /\ PairsOK /\ BoundExists /\ AuthorsOK

(* What makes outcomes explicable.  A request has before it what it asks    *)
(* for ..                                                                   *)
ListedBy(r) ==
    /\ \A m \in toAdd[r] : AsksFor(r, call[r].backend, m)
    /\ \A m \in toRemove[r] : AsksAgainst(r, call[r].backend, m)
    /\ pc[r] \notin {"createRow", "insert"} => toAdd[r] = {}
    /\ pc[r] = "idle" => toRemove[r] = {}

(* .. a row is there at somebody's wish, and goes at somebody's wish ..     *)
WishedFor(row, b, m) ==
    /\ row \in Requests => AsksFor(row, b, m)
    /\ row = NoTxn => <<b, m>> \in InitiallyBound

RowExplained(b, m) ==
    /\ WishedFor(binding[<<b, m>>].row, b, m)
    /\ WishedFor(binding[<<b, m>>].draft, b, m)
    /\ \A s \in Requests :
          binding[<<b, m>>].owner = s /\ binding[<<b, m>>].draft = Absent => AsksAgainst(s, b, m)

(* .. a pair that was asked for, and will not be there when the request has *)
(* committed, was taken away by another one ..                              *)
TakenAway(b, m) == \E s \in Requests : Unbinds(s, b, m)

ServedBy(r) ==
    pc[r] \in Writing \cup {"createRow"} =>
        \A b \in Backends, m \in Models :
            AsksFor(r, b, m) /\ m \notin toAdd[r] =>
                \/ binding[<<b, m>>].row # Absent
                \/ binding[<<b, m>>].owner = r /\ binding[<<b, m>>].draft # Absent
                \/ TakenAway(b, m)

(* .. and so was every pair that was there at the start or was bound since. *)
GoneExplained(b, m) ==
    binding[<<b, m>>].row = Absent
      /\ (<<b, m>> \in InitiallyBound \/ \E r \in Requests : Binds(r, b, m))
          => TakenAway(b, m)

WishesOK ==
    /\ \A r \in Requests : ListedBy(r) /\ ServedBy(r)
    /\ \A b \in Backends, m \in Models : RowExplained(b, m) /\ GoneExplained(b, m)

-----------------------------------------------------------------------------
USE FreshAssumption

-----------------------------------------------------------------------------
LEMMA InitInv == Init => IInv
<1> SUFFICES ASSUME Init PROVE IInv
  OBVIOUS
<1> USE DEF Init, InitialRows, Settled
<1>1. TypeOK
  BY DEF TypeOK, Table, Rows, NothingSeen
<1>2. ControlOK
  BY DEF ControlOK, InFlight
<1>3. OwnersOK
  BY DEF OwnersOK, Pairs
<1>4. SlotsOK
  BY DEF SlotsOK
<1>5. FoundOK
  BY DEF FoundOK, FoundBy, Writing
<1>6. WorkOK
  BY DEF WorkOK, WorkOf, Pairs
<1>7. PairsOK /\ BoundExists
  BY ExistingAssumption DEF PairsOK, BoundExists, Pairs, Rows
<1>8. AuthorsOK
  BY DEF AuthorsOK, AuthorOK, Rows
<1> QED
  BY <1>1, <1>2, <1>3, <1>4, <1>5, <1>6, <1>7, <1>8 DEF IInv

-----------------------------------------------------------------------------
(* A request moves on without writing.                                      *)
LEMMA MoveStep ==
    ASSUME IInv, NEW r \in Requests, NEW label \in InFlight,
           pc[r] \notin Ended, pc[r] # "commit",
           pc[r] \in Writing => label \in Writing,
           GoTo(r, label), UNCHANGED tables,
           call' \in [Requests -> Calls \cup {NoCall}],
           toAdd' \in [Requests -> SUBSET Models],
           toRemove' \in [Requests -> SUBSET Models],
           at' \in [Requests -> Models \cup {Absent}],
           seen' \in [Requests -> [Models -> Rows \cup {Absent}]],
           \A s \in Requests \ {r} : /\ call'[s] = call[s] /\ toAdd'[s] = toAdd[s]
                                     /\ toRemove'[s] = toRemove[s] /\ seen'[s] = seen[s],
           pc[r] # "idle" => call'[r] = call[r],
           call'[r] \in Calls, call'[r].op \in OpsAt[label],
           pc[r] = "idle" /\ call'[r].op = "register" =>
               \A s \in Requests \ {r} : pc[s] # "idle" /\ call[s].op = "register"
                   => call[s].backend # call'[r].backend,
           FoundBy(r)', WorkOf(r)'
    PROVE  IInv'
<1> USE DEF IInv, GoTo, tables
<1>1. pc \in [Requests -> {"idle"} \cup InFlight \cup Ended] /\ pc' = [pc EXCEPT ![r] = label]
  BY DEF TypeOK
<1>2. pc'[r] = label /\ \A s \in Requests \ {r} : pc'[s] = pc[s]
  BY <1>1
<1>3. label # "idle" /\ label \notin Ended
  BY DEF InFlight, Ended
<1>4. TypeOK'
  BY DEF TypeOK
<1>5. ControlOK'
  <2>1. /\ \A s \in Requests : pc[s] # "idle" => call[s] \in Calls
        /\ \A s \in Requests : pc[s] \in InFlight => call[s].op \in OpsAt[pc[s]]
        /\ \A s, t \in Requests :
              pc[s] # "idle" /\ pc[t] # "idle" /\ call[s].op = "register" /\ call[t].op = "register"
                  => s = t \/ call[s].backend # call[t].backend
    BY DEF ControlOK
  <2> HIDE DEF IInv
  <2>2. \A s \in Requests : /\ pc'[s] # "idle" => call'[s] \in Calls
                            /\ pc'[s] \in InFlight => call'[s].op \in OpsAt[pc'[s]]
    BY <1>2, <2>1
  <2>3. ASSUME NEW s \in Requests, NEW t \in Requests, pc'[s] # "idle", pc'[t] # "idle",
               call'[s].op = "register", call'[t].op = "register", s # t
        PROVE  call'[s].backend # call'[t].backend
    BY <1>2, <2>1, <2>3
  <2> QED
    BY <2>2, <2>3 DEF ControlOK
<1>6. OwnersOK'
  BY <1>2, <1>3 DEF OwnersOK, Writing
<1>7. SlotsOK'
  BY DEF SlotsOK
<1>8. FoundOK'
  BY <1>2 DEF FoundOK, FoundBy
<1>9. WorkOK'
  BY <1>2 DEF WorkOK, WorkOf
<1>10. PairsOK' /\ BoundExists'
  BY DEF PairsOK, BoundExists
<1>11. AuthorsOK'
  BY <1>2 DEF AuthorsOK, AuthorOK, Ended
<1> QED
  BY <1>4, <1>5, <1>6, <1>7, <1>8, <1>9, <1>10, <1>11

(* The facts of the slots that the remaining lemmas work with.              *)
LEMMA Typed ==
    ASSUME IInv
    PROVE  /\ backend \in Table(Backends, Rows \cup {Absent}, Requests)
           /\ model \in Table(Models, Rows \cup {Absent}, Requests)
           /\ binding \in Table(Pairs, Rows \cup {Absent}, Requests)
           /\ pc \in [Requests -> {"idle"} \cup InFlight \cup Ended]
           /\ \A b \in Backends : backend[b].owner \in Requests \cup {NoTxn}
           /\ \A m \in Models : model[m].owner \in Requests \cup {NoTxn}
           /\ \A b \in Backends, m \in Models : binding[<<b, m>>].owner \in Requests \cup {NoTxn}
  BY Owners DEF IInv, TypeOK, Table, Pairs

(* A request ends without an effect.                                        *)
LEMMA FailStep ==
    ASSUME IInv, NEW r \in Requests, pc[r] \in InFlight, Fail(r)
    PROVE  IInv'
<1> USE DEF IInv
<1>1. /\ backend' = RolledBack(backend, r) /\ model' = RolledBack(model, r)
      /\ binding' = RolledBack(binding, r)
      /\ toAdd' = [toAdd EXCEPT ![r] = {}] /\ toRemove' = [toRemove EXCEPT ![r] = {}]
      /\ at' = [at EXCEPT ![r] = Absent] /\ seen' = [seen EXCEPT ![r] = NothingSeen]
      /\ pc' = [pc EXCEPT ![r] = "rolledBack"] /\ call' = call
  BY DEF Fail, EndWith, GoTo
<1>2. pc'[r] = "rolledBack" /\ \A s \in Requests \ {r} : pc'[s] = pc[s]
  BY <1>1, Typed
<1>3. pc[r] # "idle" /\ pc[r] \notin Ended
  BY DEF InFlight, Ended
<1>4. /\ backend' \in Table(Backends, Rows \cup {Absent}, Requests)
      /\ \A b \in Backends :
            IF backend[b].owner = r
            THEN /\ backend'[b].row = backend[b].row /\ backend'[b].draft = backend[b].row
                 /\ backend'[b].owner = NoTxn
            ELSE backend'[b] = backend[b]
  BY <1>1, Typed, RolledBackEffect
<1>5. /\ model' \in Table(Models, Rows \cup {Absent}, Requests)
      /\ \A m \in Models :
            IF model[m].owner = r
            THEN /\ model'[m].row = model[m].row /\ model'[m].draft = model[m].row
                 /\ model'[m].owner = NoTxn
            ELSE model'[m] = model[m]
  BY <1>1, Typed, RolledBackEffect
<1>6. /\ binding' \in Table(Pairs, Rows \cup {Absent}, Requests)
      /\ \A p \in Pairs :
            IF binding[p].owner = r
            THEN /\ binding'[p].row = binding[p].row /\ binding'[p].draft = binding[p].row
                 /\ binding'[p].owner = NoTxn
            ELSE binding'[p] = binding[p]
  BY <1>1, Typed, RolledBackEffect
<1>7. \A b \in Backends, m \in Models : <<b, m>> \in Pairs
  BY DEF Pairs
<1>8. \A s \in Requests \ {r} : toAdd'[s] = toAdd[s] /\ toRemove'[s] = toRemove[s] /\ seen'[s] = seen[s]
  BY <1>1 DEF TypeOK
<1>9. toAdd'[r] = {} /\ toRemove'[r] = {}
  BY <1>1 DEF TypeOK
<1>10. TypeOK'
  BY <1>1, <1>4, <1>5, <1>6 DEF TypeOK, Ended, NothingSeen, Rows
<1>11. ControlOK'
  BY <1>1, <1>2, <1>3 DEF ControlOK, InFlight
<1>12. OwnersOK'
  BY <1>1, <1>2, <1>4, <1>5, <1>6, <1>7 DEF OwnersOK
<1>13. SlotsOK'
  BY <1>4, <1>5, <1>6 DEF SlotsOK
<1>14. FoundOK'
  <2> SUFFICES ASSUME NEW s \in Requests PROVE FoundBy(s)'
    BY DEF FoundOK
  <2>1. CASE s = r
    BY <2>1, <1>1, <1>2, <1>9 DEF FoundBy, Writing
  <2>2. CASE s # r
    <3>1. FoundBy(s)
      BY DEF FoundOK
    <3>2. pc'[s] = pc[s] /\ call'[s] = call[s] /\ toAdd'[s] = toAdd[s]
      BY <2>2, <1>1, <1>2, <1>8
    <3>3. pc[s] \in {"resolve", "bound"} \cup Writing /\ call[s].op \in {"bind", "unbind", "replace", "register"}
             => call[s].backend \in Backends
      BY DEF ControlOK, Calls, Writing, InFlight
    <3>4. pc[s] = "bound" => call[s].models \in SUBSET Models
      BY BodyAssumption DEF ControlOK, Calls, InFlight, OpsAt
    <3>5. toAdd[s] \subseteq Models
      BY DEF TypeOK
    <3> QED
      BY <2>2, <3>1, <3>2, <3>3, <3>4, <3>5, <1>4, <1>5 DEF FoundBy
  <2> QED
    BY <2>1, <2>2
<1>15. WorkOK'
  BY <1>2, <1>6, <1>7, <1>8, <1>9, Typed DEF WorkOK, WorkOf
<1>16. PairsOK' /\ BoundExists'
  BY <1>4, <1>5, <1>6, <1>7 DEF PairsOK, BoundExists, Pairs
<1>17. AuthorsOK'
  BY <1>2, <1>3, <1>4, <1>5, <1>6 DEF AuthorsOK, AuthorOK, Ended
<1> QED
  BY <1>10, <1>11, <1>12, <1>13, <1>14, <1>15, <1>16, <1>17

(* A request commits what it has written.                                   *)
LEMMA CommitStep ==
    ASSUME IInv, NEW r \in Requests, Commit(r)
    PROVE  IInv'
<1> USE DEF IInv
<1>1. /\ backend' = Committed(backend, r) /\ model' = Committed(model, r)
      /\ binding' = Committed(binding, r)
      /\ toAdd' = [toAdd EXCEPT ![r] = {}] /\ toRemove' = [toRemove EXCEPT ![r] = {}]
      /\ at' = [at EXCEPT ![r] = Absent] /\ seen' = [seen EXCEPT ![r] = NothingSeen]
      /\ pc' = [pc EXCEPT ![r] = "committed"] /\ call' = call /\ pc[r] = "commit"
  BY DEF Commit, EndWith, GoTo
<1>2. pc'[r] = "committed" /\ \A s \in Requests \ {r} : pc'[s] = pc[s]
  BY <1>1, Typed
<1>3. call[r] \in Calls
  BY <1>1 DEF ControlOK
<1>4. /\ backend' \in Table(Backends, Rows \cup {Absent}, Requests)
      /\ \A b \in Backends :
            IF backend[b].owner = r
            THEN /\ backend'[b].row = backend[b].draft /\ backend'[b].draft = backend[b].draft
                 /\ backend'[b].owner = NoTxn
            ELSE backend'[b] = backend[b]
  BY <1>1, Typed, CommittedEffect
<1>5. /\ model' \in Table(Models, Rows \cup {Absent}, Requests)
      /\ \A m \in Models :
            IF model[m].owner = r
            THEN /\ model'[m].row = model[m].draft /\ model'[m].draft = model[m].draft
                 /\ model'[m].owner = NoTxn
            ELSE model'[m] = model[m]
  BY <1>1, Typed, CommittedEffect
<1>6. /\ binding' \in Table(Pairs, Rows \cup {Absent}, Requests)
      /\ \A p \in Pairs :
            IF binding[p].owner = r
            THEN /\ binding'[p].row = binding[p].draft /\ binding'[p].draft = binding[p].draft
                 /\ binding'[p].owner = NoTxn
            ELSE binding'[p] = binding[p]
  BY <1>1, Typed, CommittedEffect
<1>7. \A b \in Backends, m \in Models : <<b, m>> \in Pairs
  BY DEF Pairs
<1>8. \A s \in Requests \ {r} : toAdd'[s] = toAdd[s] /\ toRemove'[s] = toRemove[s] /\ seen'[s] = seen[s]
  BY <1>1 DEF TypeOK
<1>9. toAdd'[r] = {} /\ toRemove'[r] = {}
  BY <1>1 DEF TypeOK
<1>a. /\ \A b \in Backends : backend[b].row # Absent => backend'[b].row # Absent
      /\ \A m \in Models : model[m].row # Absent => model'[m].row # Absent
  BY <1>4, <1>5 DEF SlotsOK
<1>10. TypeOK'
  BY <1>1, <1>4, <1>5, <1>6 DEF TypeOK, Ended, NothingSeen, Rows
<1>11. ControlOK'
  BY <1>1, <1>2 DEF ControlOK, InFlight
<1>12. OwnersOK'
  BY <1>1, <1>2, <1>4, <1>5, <1>6, <1>7 DEF OwnersOK
<1>13. SlotsOK'
  BY <1>4, <1>5, <1>6 DEF SlotsOK
<1>14. FoundOK'
  <2> SUFFICES ASSUME NEW s \in Requests PROVE FoundBy(s)'
    BY DEF FoundOK
  <2>1. CASE s = r
    BY <2>1, <1>1, <1>2, <1>9 DEF FoundBy, Writing
  <2>2. CASE s # r
    <3>1. FoundBy(s)
      BY DEF FoundOK
    <3>2. pc'[s] = pc[s] /\ call'[s] = call[s] /\ toAdd'[s] = toAdd[s]
      BY <2>2, <1>1, <1>2, <1>8
    <3>3. pc[s] \in {"resolve", "bound"} \cup Writing /\ call[s].op \in {"bind", "unbind", "replace", "register"}
             => call[s].backend \in Backends
      BY DEF ControlOK, Calls, Writing, InFlight
    <3>4. pc[s] = "bound" => call[s].models \in SUBSET Models
      BY BodyAssumption DEF ControlOK, Calls, InFlight, OpsAt
    <3>5. toAdd[s] \subseteq Models
      BY DEF TypeOK
    <3> QED
      BY <2>2, <3>1, <3>2, <3>3, <3>4, <3>5, <1>4, <1>a DEF FoundBy
  <2> QED
    BY <2>1, <2>2
<1>15. WorkOK'
  BY <1>2, <1>6, <1>7, <1>8, <1>9, Typed DEF WorkOK, WorkOf
<1>16. PairsOK'
  BY <1>6, <1>7, <1>a DEF PairsOK
<1>17. BoundExists'
  <2> SUFFICES ASSUME NEW b \in Backends, NEW m \in Models, binding'[<<b, m>>].row # Absent
               PROVE  backend'[b].row # Absent /\ model'[m].row # Absent
    BY DEF BoundExists, Pairs
  <2>1. CASE binding[<<b, m>>].owner = r
    <3>1. binding[<<b, m>>].draft # Absent
      BY <2>1, <1>6, <1>7
    <3>2. call[r].backend = b /\ call[r].op \in {"bind", "unbind", "replace", "register"}
      BY <2>1, <1>3 DEF OwnersOK, Calls
    <3>3. backend'[b].row # Absent
      BY <3>2, <1>1, <1>4, <1>a DEF FoundOK, FoundBy, Writing
    <3> QED
      BY <3>1, <3>3, <1>a DEF PairsOK
  <2>2. CASE binding[<<b, m>>].owner # r
    BY <2>2, <1>6, <1>7, <1>a DEF BoundExists
  <2> QED
    BY <2>1, <2>2
<1>18. AuthorsOK'
  BY <1>1, <1>2, <1>4, <1>5, <1>6 DEF AuthorsOK, AuthorOK
<1> QED
  BY <1>10, <1>11, <1>12, <1>13, <1>14, <1>15, <1>16, <1>17, <1>18

-----------------------------------------------------------------------------
(* The steps that write.                                                    *)

LEMMA CallFields ==
    ASSUME IInv, NEW r \in Requests, pc[r] \in InFlight
    PROVE  /\ call[r] \in Calls /\ call[r].op \in OpsAt[pc[r]]
           /\ call[r].op \in {"bind", "unbind", "replace", "register"}
                 => call[r].backend \in Backends /\ call[r].models \in SUBSET Models
           /\ call[r].op \in {"createModel", "upsertModel"} => call[r].model \in Models
<1>1. call[r] \in Calls /\ call[r].op \in OpsAt[pc[r]]
  BY DEF IInv, ControlOK, InFlight
<1> QED
  BY <1>1, BodyAssumption DEF Calls

(* The id of a registration is written by nobody else.                      *)
LEMMA CreateBackendStep ==
    ASSUME IInv, NEW r \in Requests, CreateBackend(r)
    PROVE  IInv'
<1> DEFINE b0 == call[r].backend
<1> USE DEF IInv
<1>1. /\ pc[r] = "createRow" /\ backend' = Write(backend, r, b0, r)
      /\ pc' = [pc EXCEPT ![r] = "insert"] /\ UNCHANGED <<model, binding, call, toAdd, toRemove, at, seen>>
  BY DEF CreateBackend, GoTo
<1>2. pc'[r] = "insert" /\ \A s \in Requests \ {r} : pc'[s] = pc[s]
  BY <1>1, Typed
<1>3. call[r] \in Calls /\ call[r].op = "register" /\ b0 \in Backends
  BY <1>1, CallFields DEF InFlight, OpsAt
<1>4. /\ backend' \in Table(Backends, Rows \cup {Absent}, Requests)
      /\ backend'[b0].row = backend[b0].row /\ backend'[b0].draft = r /\ backend'[b0].owner = r
      /\ \A b \in Backends \ {b0} : backend'[b] = backend[b]
  BY <1>1, <1>3, Typed, WriteEffect DEF Rows
<1>5. \A s \in Requests \ {r} : pc[s] # "idle" /\ call[s].op = "register" => call[s].backend # b0
  BY <1>1, <1>3 DEF ControlOK
<1> HIDE DEF b0
<1>6. TypeOK'
  BY <1>1, <1>4 DEF TypeOK, InFlight
<1>7. ControlOK'
  BY <1>1, <1>2, <1>3 DEF ControlOK, OpsAt
<1>8. OwnersOK'
  BY <1>1, <1>2, <1>3, <1>4 DEF OwnersOK, Writing, b0
<1>9. SlotsOK'
  BY <1>1, <1>4 DEF SlotsOK, Rows
<1>10. FoundOK'
  <2> SUFFICES ASSUME NEW s \in Requests PROVE FoundBy(s)'
    BY DEF FoundOK
  <2>1. FoundBy(s)
    BY DEF FoundOK
  <2>2. CASE s = r
    BY <2>1, <2>2, <1>1, <1>2, <1>3, <1>4 DEF FoundBy, b0, Writing, Rows
  <2>3. CASE s # r
    <3>1. pc[s] \in {"resolve", "bound"} \cup Writing /\ call[s].op \in {"bind", "unbind", "replace", "register"}
             => call[s].backend \in Backends
      BY CallFields DEF Writing, InFlight
    <3>2. pc[s] \in Writing => pc[s] # "idle"
      BY DEF Writing
    <3> QED
      BY <2>1, <2>3, <3>1, <3>2, <1>1, <1>2, <1>4, <1>5 DEF FoundBy
  <2> QED
    BY <2>2, <2>3
<1>11. WorkOK'
  BY <1>1, <1>2 DEF WorkOK, WorkOf, OwnersOK, Writing
<1>12. PairsOK' /\ BoundExists'
  BY <1>1, <1>4 DEF PairsOK, BoundExists, Pairs
<1>13. AuthorsOK'
  BY <1>1, <1>2, <1>4 DEF AuthorsOK, AuthorOK
<1> QED
  BY <1>6, <1>7, <1>8, <1>9, <1>10, <1>11, <1>12, <1>13

(* Somebody holds the pair at which the request would go on.                *)
LEMMA FreePair ==
    ASSUME IInv, NEW r \in Requests, NEW m \in Models, pc[r] \in {"insert", "delete"},
           ~ \E s \in Requests : WaitsAt(r, s, m),
           pc[r] = "insert" => First(m, toAdd[r]),
           pc[r] = "delete" => Reached(r, m) /\ binding[<<call[r].backend, m>>].row = seen[r][m]
    PROVE  binding[<<call[r].backend, m>>].owner \in {NoTxn, r}
<1>1. call[r].backend \in Backends
  BY CallFields DEF InFlight, OpsAt
<1>2. binding[<<call[r].backend, m>>].owner \in Requests \cup {NoTxn}
  BY <1>1, Typed
<1> QED
  BY <1>2 DEF WaitsAt

LEMMA InsertItemStep ==
    ASSUME IInv, NEW r \in Requests, NEW m \in Models, InsertItem(r, m)
    PROVE  IInv'
<1> DEFINE b0 == call[r].backend
           p0 == <<b0, m>>
<1> USE DEF IInv
<1>1. /\ pc[r] = "insert" /\ m \in toAdd[r] /\ (\A n \in toAdd[r] : m <= n)
      /\ toAdd' = [toAdd EXCEPT ![r] = @ \ {m}]
      /\ UNCHANGED <<backend, model, pc, call, toRemove, at, seen>>
  BY DEF InsertItem, First
<1>2. /\ call[r] \in Calls /\ b0 \in Backends /\ p0 \in Pairs
      /\ call[r].op \in {"bind", "unbind", "replace", "register"}
  BY <1>1, CallFields DEF InFlight, OpsAt, Pairs
<1>3. /\ toAdd'[r] = toAdd[r] \ {m} /\ \A s \in Requests \ {r} : toAdd'[s] = toAdd[s]
      /\ toAdd' \in [Requests -> SUBSET Models]
      /\ toAdd[r] \subseteq Models
  BY <1>1 DEF TypeOK
<1>4. CASE Visible(binding, r, p0) = Absent
  <2>1. binding' = Write(binding, r, p0, r)
    BY <1>4 DEF InsertItem
  <2>2. binding[p0].owner \in {NoTxn, r}
    BY <1>1, FreePair DEF InsertItem
  <2>3. binding[p0].row = Absent
    BY <1>1, <1>2, <1>4, <2>2 DEF Visible, WorkOK, WorkOf
  <2>4. /\ binding' \in Table(Pairs, Rows \cup {Absent}, Requests)
        /\ binding'[p0].row = Absent /\ binding'[p0].draft = r /\ binding'[p0].owner = r
        /\ \A p \in Pairs \ {p0} : binding'[p] = binding[p]
    BY <1>2, <2>1, <2>3, Typed, WriteEffect DEF Rows
  <2>5. \A b \in Backends, n \in Models : <<b, n>> \in Pairs /\ (<<b, n>> = p0 <=> b = b0 /\ n = m)
    BY DEF Pairs
  <2> HIDE DEF p0, b0
  <2>6. TypeOK'
    BY <1>1, <1>3, <2>4 DEF TypeOK
  <2>7. ControlOK'
    BY <1>1 DEF ControlOK
  <2>8. OwnersOK'
    BY <1>1, <1>2, <2>4, <2>5 DEF OwnersOK, Writing, b0
  <2>9. SlotsOK'
    BY <1>1, <2>4 DEF SlotsOK
  <2>10. FoundOK'
    BY <1>1, <1>3 DEF FoundOK, FoundBy
  <2>11. WorkOK'
    <3> SUFFICES ASSUME NEW s \in Requests PROVE WorkOf(s)'
      BY DEF WorkOK
    <3>1. WorkOf(s)
      BY DEF WorkOK
    <3>2. CASE s = r
      <4>1. \A n \in toAdd'[r] : m < n
        BY <1>1, <1>3, ModelAssumption
      <4> QED
        BY <3>1, <3>2, <4>1, <1>1, <1>3, <2>4, <2>5 DEF WorkOf
    <3>3. CASE s # r
      BY <3>1, <3>3, <1>1, <1>3, <2>4, <2>5 DEF WorkOf
    <3> QED
      BY <3>2, <3>3
  <2>12. PairsOK' /\ BoundExists'
    BY <1>1, <1>3, <2>4, <2>5 DEF PairsOK, BoundExists, FoundOK, FoundBy
  <2>13. AuthorsOK'
    BY <1>1, <2>4 DEF AuthorsOK, AuthorOK, Rows
  <2> QED
    BY <2>6, <2>7, <2>8, <2>9, <2>10, <2>11, <2>12, <2>13
<1>5. CASE Visible(binding, r, p0) # Absent
  <2>1. binding' = binding
    BY <1>5 DEF InsertItem
  <2>2. TypeOK'
    BY <1>1, <1>3, <2>1 DEF TypeOK
  <2>3. ControlOK' /\ OwnersOK' /\ SlotsOK' /\ PairsOK' /\ BoundExists'
    BY <1>1, <2>1 DEF ControlOK, OwnersOK, SlotsOK, PairsOK, BoundExists
  <2>4. FoundOK'
    BY <1>1, <1>3 DEF FoundOK, FoundBy
  <2>5. WorkOK'
    BY <1>1, <1>3, <2>1 DEF WorkOK, WorkOf
  <2>6. AuthorsOK'
    BY <1>1, <2>1 DEF AuthorsOK, AuthorOK
  <2> QED
    BY <2>2, <2>3, <2>4, <2>5, <2>6
<1> QED
  BY <1>4, <1>5

(* Wherever a DELETE goes on, it is at one of the models or at none.        *)
LEMMA MoveToType ==
    ASSUME at \in [Requests -> Models \cup {Absent}], NEW r \in Requests,
           NEW ids \in SUBSET Models, MoveTo(r, ids)
    PROVE  at' \in [Requests -> Models \cup {Absent}]
  BY DEF MoveTo

LEMMA DeleteItemStep ==
    ASSUME IInv, NEW r \in Requests, NEW m \in Models, DeleteItem(r, m)
    PROVE  IInv'
<1> DEFINE b0 == call[r].backend
           p0 == <<b0, m>>
<1> USE DEF IInv
<1>1. /\ pc[r] = "delete" /\ Reached(r, m)
      /\ toRemove' = [toRemove EXCEPT ![r] = @ \ {m}]
      /\ UNCHANGED <<backend, model, pc, call, toAdd, seen>>
  BY DEF DeleteItem
<1>2. /\ call[r] \in Calls /\ b0 \in Backends /\ p0 \in Pairs
      /\ call[r].op \in {"bind", "unbind", "replace", "register"}
  BY <1>1, CallFields DEF InFlight, OpsAt, Pairs
<1>3. /\ toRemove'[r] = toRemove[r] \ {m} /\ \A s \in Requests \ {r} : toRemove'[s] = toRemove[s]
      /\ toRemove' \in [Requests -> SUBSET Models]
      /\ at' \in [Requests -> Models \cup {Absent}]
  BY <1>1, MoveToType DEF TypeOK, DeleteItem
<1>4. CASE binding[p0].row = seen[r][m]
  <2>1. binding' = Write(binding, r, p0, Absent)
    BY <1>4 DEF DeleteItem
  <2>2. binding[p0].owner \in {NoTxn, r}
    BY <1>1, <1>4, FreePair DEF DeleteItem
  <2>4. /\ binding' \in Table(Pairs, Rows \cup {Absent}, Requests)
        /\ binding'[p0].row = binding[p0].row /\ binding'[p0].draft = Absent /\ binding'[p0].owner = r
        /\ \A p \in Pairs \ {p0} : binding'[p] = binding[p]
    <3>1. Absent \in Rows \cup {Absent}
      OBVIOUS
    <3>2. binding \in Table(Pairs, Rows \cup {Absent}, Requests)
      BY Typed
    <3> QED
      BY <1>2, <2>1, <3>1, <3>2, WriteEffect
  <2>5. \A b \in Backends, n \in Models : <<b, n>> \in Pairs /\ (<<b, n>> = p0 <=> b = b0 /\ n = m)
    BY DEF Pairs
  <2> HIDE DEF p0, b0
  <2>6. TypeOK'
    BY <1>1, <1>3, <2>4 DEF TypeOK
  <2>7. ControlOK'
    BY <1>1 DEF ControlOK
  <2>8. OwnersOK'
    BY <1>1, <1>2, <2>4, <2>5 DEF OwnersOK, Writing, b0
  <2>9. SlotsOK'
    BY <1>1, <2>4 DEF SlotsOK
  <2>10. FoundOK'
    BY <1>1 DEF FoundOK, FoundBy
  <2>11. WorkOK'
    <3> SUFFICES ASSUME NEW s \in Requests PROVE WorkOf(s)'
      BY DEF WorkOK
    <3>1. WorkOf(s)
      BY DEF WorkOK
    <3> QED
      BY <3>1, <1>1, <1>3, <2>4, <2>5 DEF WorkOf
  <2>12. PairsOK' /\ BoundExists'
    BY <1>1, <2>4, <2>5 DEF PairsOK, BoundExists
  <2>13. AuthorsOK'
    BY <1>1, <2>4 DEF AuthorsOK, AuthorOK, Rows
  <2> QED
    BY <2>6, <2>7, <2>8, <2>9, <2>10, <2>11, <2>12, <2>13
<1>5. CASE binding[p0].row # seen[r][m]
  <2>1. binding' = binding
    BY <1>5 DEF DeleteItem
  <2>2. TypeOK'
    BY <1>1, <1>3, <2>1 DEF TypeOK
  <2>3. ControlOK' /\ OwnersOK' /\ SlotsOK' /\ PairsOK' /\ BoundExists'
    BY <1>1, <2>1 DEF ControlOK, OwnersOK, SlotsOK, PairsOK, BoundExists
  <2>4. FoundOK'
    BY <1>1 DEF FoundOK, FoundBy
  <2>5. WorkOK'
    BY <1>1, <1>3, <2>1 DEF WorkOK, WorkOf
  <2>6. AuthorsOK'
    BY <1>1, <2>1 DEF AuthorsOK, AuthorOK
  <2> QED
    BY <2>2, <2>3, <2>4, <2>5, <2>6
<1> QED
  BY <1>4, <1>5

LEMMA InsertModelStep ==
    ASSUME IInv, NEW r \in Requests, InsertModel(r)
    PROVE  IInv'
<1> DEFINE m0 == call[r].model
           v  == Visible(model, r, m0)
           v1 == IF v = Absent THEN r ELSE v
<1> USE DEF IInv
<1>1. pc[r] = "insertModel" /\ pc[r] \in InFlight /\ m0 \in Models
      /\ call[r].op \in {"createModel", "upsertModel"}
  BY CallFields DEF InsertModel, InFlight, OpsAt
<1>2. CASE Fail(r)
  BY <1>1, <1>2, FailStep
<1>3. CASE /\ model' = Write(model, r, m0, v1)
           /\ GoTo(r, "commit") /\ UNCHANGED <<backend, binding, call, toAdd, toRemove, at, seen>>
  <2>1. model[m0].owner = NoTxn /\ v = model[m0].row
    BY <1>1, Typed DEF InsertModel, Blocked, Lockable, OwnersOK, Visible
  <2>2. v1 \in Rows /\ v1 \in Rows \cup {Absent}
    BY <2>1, <1>1, Typed, Owners DEF Rows
  <2>3. pc[r] = "insertModel" /\ pc'[r] = "commit" /\ \A s \in Requests \ {r} : pc'[s] = pc[s]
    BY <1>1, <1>3, Typed DEF GoTo
  <2>4. model \in Table(Models, Rows \cup {Absent}, Requests)
    BY Typed
  <2>5. /\ model' \in Table(Models, Rows \cup {Absent}, Requests)
        /\ model'[m0].row = model[m0].row /\ model'[m0].draft = v1 /\ model'[m0].owner = r
        /\ \A m \in Models \ {m0} : model'[m] = model[m]
    BY <1>1, <1>3, <2>2, <2>4, WriteEffect
  <2>6. v1 = r \/ v1 = model[m0].row
    BY <2>1
  <2>7. v1 # Absent
    BY <2>2
  <2> HIDE DEF m0, v, v1
  <2>8. UNCHANGED <<backend, binding, call, toAdd, toRemove, at, seen>>
    BY <1>3
  <2>9. TypeOK'
    BY <1>3, <2>5 DEF TypeOK, GoTo, InFlight
  <2>10. ControlOK'
    BY <1>1, <2>3, <2>8 DEF ControlOK, OpsAt, InFlight
  <2>11. OwnersOK'
    BY <1>1, <2>3, <2>5, <2>8 DEF OwnersOK, Writing
  <2>12. SlotsOK'
    BY <2>5, <2>7, <2>8 DEF SlotsOK, Rows
  <2>13. FoundOK'
    <3> SUFFICES ASSUME NEW s \in Requests PROVE FoundBy(s)'
      BY DEF FoundOK
    <3>1. FoundBy(s)
      BY DEF FoundOK
    <3>2. \A m \in Models : model'[m].row = model[m].row
      BY <2>5
    <3>3. toAdd[s] \subseteq Models
      BY DEF TypeOK
    <3>4. CASE s = r
      BY <3>1, <3>2, <3>3, <3>4, <1>1, <2>3, <2>8 DEF FoundBy
    <3>5. CASE s # r
      <4>1. pc[s] = "bound" => call[s].models \in SUBSET Models
        BY CallFields DEF InFlight, OpsAt
      <4> QED
        BY <3>1, <3>2, <3>3, <3>5, <4>1, <2>3, <2>8 DEF FoundBy
    <3> QED
      BY <3>4, <3>5
  <2>14. WorkOK'
    BY <2>3, <2>8 DEF WorkOK, WorkOf, OwnersOK, Writing
  <2>15. PairsOK' /\ BoundExists'
    BY <2>5, <2>8 DEF PairsOK, BoundExists, Pairs
  <2>16. AuthorsOK'
    BY <1>1, <2>3, <2>5, <2>6, <2>8 DEF AuthorsOK, AuthorOK
  <2> QED
    BY <2>9, <2>10, <2>11, <2>12, <2>13, <2>14, <2>15, <2>16
<1> QED
  BY <1>2, <1>3 DEF InsertModel

-----------------------------------------------------------------------------
(* The steps that do not write.                                             *)

LEMMA Unwritten ==
    ASSUME IInv, NEW r \in Requests, pc[r] \notin Writing
    PROVE  \A b \in Backends, m \in Models : binding[<<b, m>>].owner # r
<1> SUFFICES ASSUME NEW b \in Backends, NEW m \in Models, binding[<<b, m>>].owner = r
             PROVE  FALSE
  OBVIOUS
<1>1. OwnersOK
  BY DEF IInv
<1> QED
  BY <1>1 DEF OwnersOK

LEMMA ArriveStep ==
    ASSUME IInv, NEW r \in Requests, Arrive(r)
    PROVE  IInv'
<1> PICK c \in Calls : Begin(r, c)
  BY DEF Arrive
<1> DEFINE label == FirstStatement(c.op)
<1>1. /\ pc[r] = "idle" /\ call' = [call EXCEPT ![r] = c] /\ GoTo(r, label)
      /\ UNCHANGED tables /\ UNCHANGED <<toAdd, toRemove, at, seen>>
      /\ c.op = "register" =>
            \A s \in Requests : pc[s] # "idle" /\ call[s].op = "register" => call[s].backend # c.backend
  BY DEF Begin
<1>2. c.op \in {"bind", "unbind", "replace", "register", "createModel", "upsertModel"}
  BY DEF Calls
<1>3. /\ label \in InFlight /\ label \notin Writing /\ label # "bound" /\ c.op \in OpsAt[label]
      /\ label = "resolve" => c.op = "register"
  BY <1>2 DEF FirstStatement, InFlight, OpsAt, Writing
<1> HIDE DEF label
<1>4. /\ call' \in [Requests -> Calls \cup {NoCall}] /\ call'[r] = c
      /\ \A s \in Requests \ {r} : call'[s] = call[s]
  BY <1>1 DEF IInv, TypeOK
<1>5. pc'[r] = label
  BY <1>1, Typed DEF GoTo
<1>6. FoundBy(r)' /\ WorkOf(r)'
  BY <1>1, <1>3, <1>4, <1>5 DEF FoundBy, WorkOf, Writing, IInv, FoundOK, tables
<1> QED
  BY <1>1, <1>3, <1>4, <1>6, MoveStep DEF Ended, Writing, IInv, TypeOK

LEMMA GetStep ==
    ASSUME IInv, NEW r \in Requests, Get(r)
    PROVE  IInv'
<1>1. pc[r] = "get" /\ pc[r] \in InFlight
  BY DEF Get, InFlight
<1>2. CASE Fail(r)
  BY <1>1, <1>2, FailStep
<1>3. CASE /\ Visible(backend, r, call[r].backend) # Absent
           /\ GoTo(r, "resolve") /\ UNCHANGED <<tables, call, toAdd, toRemove, at, seen>>
  <2>1. call[r] \in Calls /\ call[r].op \in {"bind", "unbind", "replace"} /\ call[r].backend \in Backends
    BY <1>1, CallFields DEF OpsAt
  <2>2. backend[call[r].backend].row # Absent
    BY <1>1, <1>3, <2>1 DEF Visible, IInv, OwnersOK, Writing
  <2>3. pc'[r] = "resolve"
    BY <1>3, Typed DEF GoTo
  <2>4. FoundBy(r)' /\ WorkOf(r)'
    BY <1>3, <2>1, <2>2, <2>3 DEF FoundBy, WorkOf, Writing, IInv, FoundOK, tables
  <2>5. "resolve" \in InFlight /\ call[r].op \in OpsAt["resolve"]
    BY <2>1 DEF InFlight, OpsAt
  <2> QED
    BY <1>1, <1>3, <2>1, <2>4, <2>5, MoveStep DEF Ended, Writing, IInv, TypeOK
<1> QED
  BY <1>2, <1>3 DEF Get

LEMMA ResolveModelsStep ==
    ASSUME IInv, NEW r \in Requests, ResolveModels(r)
    PROVE  IInv'
<1> DEFINE c == call[r]
           label == CASE c.op = "register" -> "createRow"
                      [] c.op = "replace"  -> "bound"
                      [] OTHER             -> "insert"
<1>1. pc[r] = "resolve" /\ pc[r] \in InFlight
  BY DEF ResolveModels, InFlight
<1>2. CASE Fail(r)
  BY <1>1, <1>2, FailStep
<1>3. CASE /\ Missing(r, c.models) = {}
           /\ toAdd' = [toAdd EXCEPT ![r] = IF c.op \in {"bind", "register"} THEN c.models ELSE {}]
           /\ toRemove' = [toRemove EXCEPT ![r] = IF c.op = "unbind" THEN c.models ELSE {}]
           /\ GoTo(r, label) /\ UNCHANGED <<tables, call, at, seen>>
  <2>1. /\ c \in Calls /\ c.op \in {"bind", "unbind", "replace", "register"}
        /\ c.backend \in Backends /\ c.models \in SUBSET Models
    BY <1>1, CallFields DEF OpsAt
  <2>2. \A m \in c.models : model[m].row # Absent
    BY <1>1, <1>3, <2>1 DEF Missing, Visible, IInv, OwnersOK, OpsAt
  <2>3. /\ label \in InFlight /\ label \in {"createRow", "bound", "insert"} /\ c.op \in OpsAt[label]
        /\ label \in Writing => c.op # "register"
    BY <2>1 DEF InFlight, OpsAt, Writing
  <2>4. /\ toAdd' \in [Requests -> SUBSET Models] /\ toAdd'[r] \subseteq c.models
        /\ toRemove' \in [Requests -> SUBSET Models]
        /\ \A s \in Requests \ {r} : toAdd'[s] = toAdd[s] /\ toRemove'[s] = toRemove[s]
    BY <1>3, <2>1 DEF IInv, TypeOK
  <2>5. pc'[r] = label
    BY <1>3, Typed DEF GoTo
  <2>6. \A b \in Backends, m \in Models : binding[<<b, m>>].owner # r
    BY <1>1, Unwritten DEF Writing
  <2>7. c.op # "register" => backend[c.backend].row # Absent
    BY <1>1, <2>1 DEF IInv, FoundOK, FoundBy
  <2> HIDE DEF label
  <2>8. FoundBy(r)' /\ WorkOf(r)'
    BY <1>3, <2>1, <2>2, <2>3, <2>4, <2>5, <2>6, <2>7 DEF FoundBy, WorkOf, tables
  <2> QED
    BY <1>1, <1>3, <2>1, <2>3, <2>4, <2>8, MoveStep DEF Ended, Writing, IInv, TypeOK
<1> QED
  BY <1>2, <1>3 DEF ResolveModels

LEMMA ReadBoundStep ==
    ASSUME IInv, NEW r \in Requests, ReadBound(r)
    PROVE  IInv'
<1> DEFINE c == call[r]
<1>1. /\ pc[r] = "bound" /\ pc[r] \in InFlight
      /\ toAdd' = [toAdd EXCEPT ![r] = c.models \ BoundIn(r, c.backend)]
      /\ toRemove' = [toRemove EXCEPT ![r] = BoundIn(r, c.backend) \ c.models]
      /\ GoTo(r, "insert") /\ UNCHANGED <<tables, call, at, seen>>
  BY DEF ReadBound, InFlight
<1>2. c \in Calls /\ c.op = "replace" /\ c.backend \in Backends /\ c.models \in SUBSET Models
  BY <1>1, CallFields DEF OpsAt
<1>3. BoundIn(r, c.backend) \subseteq Models
  BY DEF BoundIn
<1>4. /\ toAdd' \in [Requests -> SUBSET Models] /\ toAdd'[r] \subseteq c.models
      /\ toRemove' \in [Requests -> SUBSET Models]
      /\ \A s \in Requests \ {r} : toAdd'[s] = toAdd[s] /\ toRemove'[s] = toRemove[s]
  BY <1>1, <1>2, <1>3 DEF IInv, TypeOK
<1>5. pc'[r] = "insert"
  BY <1>1, Typed DEF GoTo
<1>6. \A b \in Backends, m \in Models : binding[<<b, m>>].owner # r
  BY <1>1, Unwritten DEF Writing
<1>7. backend[c.backend].row # Absent /\ \A m \in c.models : model[m].row # Absent
  BY <1>1, <1>2 DEF IInv, FoundOK, FoundBy
<1>8. FoundBy(r)' /\ WorkOf(r)'
  BY <1>1, <1>2, <1>4, <1>5, <1>6, <1>7 DEF FoundBy, WorkOf, tables
<1>9. "insert" \in InFlight /\ c.op \in OpsAt["insert"]
  BY <1>2 DEF InFlight, OpsAt
<1> QED
  BY <1>1, <1>2, <1>4, <1>8, <1>9, MoveStep DEF Ended, Writing, IInv, TypeOK

LEMMA InsertDoneStep ==
    ASSUME IInv, NEW r \in Requests, InsertDone(r)
    PROVE  IInv'
<1> DEFINE label == IF toRemove[r] = {} THEN "commit" ELSE "snapshot"
<1>1. /\ pc[r] = "insert" /\ pc[r] \in InFlight /\ pc[r] \in Writing
      /\ GoTo(r, label) /\ UNCHANGED <<tables, call, toAdd, toRemove, at, seen>>
  BY DEF InsertDone, InFlight, Writing
<1>2. call[r] \in Calls /\ call[r].op \in OpsAt["insert"]
  BY <1>1, CallFields
<1>3. label \in {"commit", "snapshot"} /\ label \in InFlight /\ label \in Writing /\ call[r].op \in OpsAt[label]
  BY <1>2 DEF InFlight, Writing, OpsAt
<1> HIDE DEF label
<1>4. pc'[r] = label
  BY <1>1, Typed DEF GoTo
<1>5. FoundBy(r)'
  BY <1>1, <1>3, <1>4 DEF FoundBy, tables, IInv, FoundOK
<1>6. WorkOf(r)'
  BY <1>1, <1>3, <1>4 DEF WorkOf, tables, IInv, WorkOK
<1> QED
  BY <1>1, <1>2, <1>3, <1>5, <1>6, MoveStep DEF Ended, IInv, TypeOK

LEMMA DeleteStartStep ==
    ASSUME IInv, NEW r \in Requests, DeleteStart(r)
    PROVE  IInv'
<1> DEFINE rows == [m \in Models |-> Visible(binding, r, <<call[r].backend, m>>)]
<1>1. /\ pc[r] = "snapshot" /\ pc[r] \in InFlight /\ pc[r] \in Writing
      /\ seen' = [seen EXCEPT ![r] = rows]
      /\ toRemove' = [toRemove EXCEPT ![r] = {m \in toRemove[r] : rows[m] # Absent}]
      /\ MoveTo(r, {m \in toRemove[r] : rows[m] # Absent})
      /\ GoTo(r, "delete") /\ UNCHANGED <<tables, call, toAdd>>
  BY DEF DeleteStart, InFlight, Writing
<1>2. call[r] \in Calls /\ call[r].op \in OpsAt["snapshot"] /\ call[r].backend \in Backends
  BY <1>1, CallFields DEF OpsAt
<1>3. "delete" \in InFlight /\ "delete" \in Writing /\ call[r].op \in OpsAt["delete"]
  BY <1>2 DEF InFlight, Writing, OpsAt
<1>4. rows \in [Models -> Rows \cup {Absent}]
  <2>1. ASSUME NEW m \in Models PROVE Visible(binding, r, <<call[r].backend, m>>) \in Rows \cup {Absent}
    <3>1. <<call[r].backend, m>> \in Pairs
      BY <1>2 DEF Pairs
    <3> QED
      BY <3>1, Typed, Owners DEF Visible
  <2> QED
    BY <2>1
<1> HIDE DEF rows
<1>5. /\ pc'[r] = "delete" /\ seen'[r] = rows /\ toRemove'[r] = {m \in toRemove[r] : rows[m] # Absent}
      /\ seen' \in [Requests -> [Models -> Rows \cup {Absent}]]
      /\ toRemove' \in [Requests -> SUBSET Models]
      /\ at' \in [Requests -> Models \cup {Absent}]
      /\ \A s \in Requests \ {r} : seen'[s] = seen[s] /\ toRemove'[s] = toRemove[s]
  BY <1>1, <1>4, Typed, MoveToType DEF GoTo, IInv, TypeOK
<1>6. FoundBy(r)'
  BY <1>1, <1>5 DEF FoundBy, tables, IInv, FoundOK, Writing
<1>7. WorkOf(r)'
  BY <1>1, <1>5 DEF WorkOf, tables, IInv, WorkOK
<1> QED
  BY <1>1, <1>2, <1>3, <1>5, <1>6, <1>7, MoveStep DEF Ended, IInv, TypeOK

LEMMA DeleteDoneStep ==
    ASSUME IInv, NEW r \in Requests, DeleteDone(r)
    PROVE  IInv'
<1>1. /\ pc[r] = "delete" /\ pc[r] \in InFlight /\ pc[r] \in Writing
      /\ GoTo(r, "commit") /\ UNCHANGED <<tables, call, toAdd, toRemove, at, seen>>
  BY DEF DeleteDone, InFlight, Writing
<1>2. call[r] \in Calls /\ call[r].op \in OpsAt["delete"]
  BY <1>1, CallFields
<1>3. "commit" \in InFlight /\ "commit" \in Writing /\ call[r].op \in OpsAt["commit"]
  BY <1>2 DEF InFlight, Writing, OpsAt
<1>4. pc'[r] = "commit"
  BY <1>1, Typed DEF GoTo
<1>5. FoundBy(r)' /\ WorkOf(r)'
  BY <1>1, <1>4 DEF FoundBy, WorkOf, tables, IInv, FoundOK, Writing
<1> QED
  BY <1>1, <1>2, <1>3, <1>5, MoveStep DEF Ended, IInv, TypeOK

LEMMA FindModelStep ==
    ASSUME IInv, NEW r \in Requests, FindModel(r)
    PROVE  IInv'
<1>1. pc[r] = "findModel" /\ pc[r] \in InFlight
  BY DEF FindModel, InFlight
<1>2. CASE Fail(r)
  BY <1>1, <1>2, FailStep
<1>3. CASE GoTo(r, "insertModel") /\ UNCHANGED <<tables, call, toAdd, toRemove, at, seen>>
  <2>1. call[r] \in Calls /\ call[r].op \in OpsAt["findModel"]
    BY <1>1, CallFields
  <2>2. "insertModel" \in InFlight /\ "insertModel" \notin Writing /\ call[r].op \in OpsAt["insertModel"]
    BY <2>1 DEF InFlight, Writing, OpsAt
  <2>3. pc'[r] = "insertModel"
    BY <1>3, Typed DEF GoTo
  <2>4. FoundBy(r)' /\ WorkOf(r)'
    BY <1>3, <2>3 DEF FoundBy, WorkOf, tables, IInv, FoundOK, Writing
  <2> QED
    BY <1>1, <1>3, <2>1, <2>2, <2>4, MoveStep DEF Ended, Writing, IInv, TypeOK
<1> QED
  BY <1>2, <1>3 DEF FindModel

-----------------------------------------------------------------------------
LEMMA StutterStep == IInv /\ UNCHANGED vars => IInv'
<1> SUFFICES ASSUME IInv, UNCHANGED vars PROVE IInv'
  OBVIOUS
<1> USE DEF vars, tables, IInv
<1>1. TypeOK' /\ ControlOK' /\ OwnersOK'
  BY DEF TypeOK, ControlOK, OwnersOK
<1>2. SlotsOK' /\ FoundOK' /\ WorkOK'
  BY DEF SlotsOK, FoundOK, FoundBy, WorkOK, WorkOf
<1>3. PairsOK' /\ BoundExists' /\ AuthorsOK'
  BY DEF PairsOK, BoundExists, AuthorsOK, AuthorOK
<1> QED
  BY <1>1, <1>2, <1>3

LEMMA NextInv == IInv /\ [Next]_vars => IInv'
<1> SUFFICES ASSUME IInv, [Next]_vars PROVE IInv'
  OBVIOUS
<1>1. CASE UNCHANGED vars
  BY <1>1, StutterStep
<1>2. ASSUME NEW r \in Requests, Arrive(r)
      PROVE  IInv'
  BY <1>2, ArriveStep
<1>3. ASSUME NEW r \in Requests, Step(r)
      PROVE  IInv'
  <2>1. CASE \E m \in Models : InsertItem(r, m) \/ DeleteItem(r, m)
    BY <2>1, InsertItemStep, DeleteItemStep
  <2>2. CASE Get(r) \/ ResolveModels(r) \/ CreateBackend(r) \/ ReadBound(r)
    BY <2>2, GetStep, ResolveModelsStep, CreateBackendStep, ReadBoundStep
  <2>3. CASE InsertDone(r) \/ DeleteStart(r) \/ DeleteDone(r)
    BY <2>3, InsertDoneStep, DeleteStartStep, DeleteDoneStep
  <2>4. CASE FindModel(r) \/ InsertModel(r) \/ Commit(r)
    BY <2>4, FindModelStep, InsertModelStep, CommitStep
  <2> QED
    BY <1>3, <2>1, <2>2, <2>3, <2>4 DEF Step
<1>4. ASSUME NEW r \in Requests, LockWaitAborted(r) \/ DeadlockDetected(r) \/ Aborted(r)
      PROVE  IInv'
  <2>1. Fail(r) /\ pc[r] \in InFlight
    BY <1>4 DEF LockWaitAborted, DeadlockDetected, InCircle, Circle, Waits, WaitsAt, Aborted,
                Blocked, InFlight
  <2> QED
    BY <2>1, FailStep
<1> QED
  BY <1>1, <1>2, <1>3, <1>4 DEF Next, Done

(* Who waits for an INSERT that waits is an INSERT at an earlier id.        *)
LEMMA WaitsClimb ==
    ASSUME IInv, NEW r \in Requests, NEW s \in Requests, NEW t \in Requests,
           NEW m \in Models, NEW n \in Models,
           WaitsAt(r, s, m), WaitsAt(s, t, n), pc[s] = "insert"
    PROVE  pc[r] = "insert" /\ m < n
<1> DEFINE b0 == call[r].backend
<1>1. /\ pc[r] \in {"insert", "delete"} /\ binding[<<b0, m>>].owner = s
      /\ pc[r] = "delete" => m \in toRemove[r] /\ binding[<<b0, m>>].row = seen[r][m]
      /\ n \in toAdd[s]
  BY DEF WaitsAt, First, Reached
<1>2. b0 \in Backends
  BY <1>1, CallFields DEF InFlight, OpsAt
<1>3. WorkOf(r) /\ WorkOf(s)
  BY DEF IInv, WorkOK
<1> QED
  BY <1>1, <1>2, <1>3 DEF WorkOf

(* A set of numbers has a least one.                                        *)
LEMMA LeastOf ==
    ASSUME NEW T \in SUBSET Nat, T # {}
    PROVE  \E n \in T : \A k \in T : ~ (k < n)
<1>1. \E n \in T : \A k \in T : ~ (<<k, n>> \in OpToRel(<, Nat))
  BY NatLessThanWellFounded, WFMin
<1> QED
  BY <1>1 DEF OpToRel

(* Of the INSERTs in a circle one waits at the least id, and the one that   *)
(* waits for it would have to wait at a smaller one.                        *)
LEMMA InvOnlyDeletesCircle == IInv => OnlyDeletesCircle
<1> SUFFICES ASSUME IInv, NEW r0 \in Requests, NEW S \in SUBSET Requests, r0 \in S, Circle(S),
                    pc[r0] # "delete"
             PROVE  FALSE
  BY DEF OnlyDeletesCircle, InCircle
<1> DEFINE T == {m \in Models : \E r, s \in S : pc[r] = "insert" /\ WaitsAt(r, s, m)}
<1>1. T # {}
  <2>1. PICK s \in S, m \in Models : WaitsAt(r0, s, m)
    BY DEF Circle, Waits
  <2>2. pc[r0] = "insert"
    BY <2>1 DEF WaitsAt
  <2> QED
    BY <2>1, <2>2
<1>2. PICK n \in T : \A k \in T : ~ (k < n)
  BY <1>1, LeastOf, ModelAssumption
<1>3. PICK s \in S, t \in S : pc[s] = "insert" /\ WaitsAt(s, t, n)
  OBVIOUS
<1>4. PICK r \in S, m \in Models : WaitsAt(r, s, m)
  BY DEF Circle, Waits
<1>5. pc[r] = "insert" /\ m < n
  BY <1>3, <1>4, WaitsClimb
<1>6. m \in T
  BY <1>4, <1>5
<1> QED
  BY <1>2, <1>5, <1>6

LEMMA InvFailedLeavesNothing == IInv => FailedLeavesNothing
<1> SUFFICES ASSUME IInv PROVE FailedLeavesNothing
  OBVIOUS
<1>1. /\ DOMAIN backend = Backends /\ DOMAIN model = Models /\ DOMAIN binding = Pairs
      /\ \A b \in Backends : backend[b].row \in Rows \cup {Absent}
      /\ \A m \in Models : model[m].row \in Rows \cup {Absent}
      /\ \A p \in Pairs : binding[p].row \in Rows \cup {Absent}
  BY Typed DEF Table
<1>2. \A b \in Backends : backend[b].row \in Requests => pc[backend[b].row] = "committed"
  BY DEF IInv, AuthorsOK, AuthorOK
<1>3. \A m \in Models : model[m].row \in Requests => pc[model[m].row] = "committed"
  BY DEF IInv, AuthorsOK, AuthorOK
<1>4. \A p \in Pairs : binding[p].row \in Requests => pc[binding[p].row] = "committed"
  BY DEF IInv, AuthorsOK, AuthorOK
<1> QED
  BY <1>1, <1>2, <1>3, <1>4 DEF FailedLeavesNothing, Inserters, Rows

LEMMA SpecInv == Spec => []IInv
<1>1. Init => IInv
  BY InitInv
<1>2. IInv /\ [Next]_vars => IInv'
  BY NextInv
<1> QED
  BY <1>1, <1>2, PTL DEF Spec

(* Every state is well formed.                                              *)
THEOREM TypeCorrect == Spec => []TypeOK
<1>1. IInv => TypeOK
  BY DEF IInv
<1> QED
  BY <1>1, SpecInv, PTL

(* A bound pair has its backend and its model: bind_models, register and    *)
(* replace_models insert pairs of models they have looked up before.        *)
THEOREM PairsExist == Spec => []BoundExists
<1>1. IInv => BoundExists
  BY DEF IInv
<1> QED
  BY <1>1, SpecInv, PTL

(* However many requests there are, a circle of waits on backend_model is   *)
(* one of DELETEs alone: the sorted ids of _resolve_model_ids and           *)
(* replace_models, and insertions before deletions.                         *)
THEOREM InsertsNeverCircle == Spec => []OnlyDeletesCircle
<1> QED
  BY InvOnlyDeletesCircle, SpecInv, PTL

(* A binding request that fails leaves nothing in any of the three tables   *)
(* (Database.transaction).                                                  *)
THEOREM FailuresLeaveNothing == Spec => []FailedLeavesNothing
<1> QED
  BY InvFailedLeavesNothing, SpecInv, PTL

-----------------------------------------------------------------------------
(* Outcomes.                                                                *)

USE DEF Pairs

(* A step of r that commits nothing keeps the wishes of the others.         *)
LEMMA KeptWishes ==
    ASSUME IInv, WishesOK, NEW r \in Requests, pc[r] \notin Ended, pc'[r] # "committed",
           \A s \in Requests \ {r} : /\ pc'[s] = pc[s] /\ call'[s] = call[s]
                                     /\ toAdd'[s] = toAdd[s] /\ toRemove'[s] = toRemove[s],
           \A b \in Backends, m \in Models : binding'[<<b, m>>].row = binding[<<b, m>>].row,
           \A s \in Requests \ {r}, b \in Backends, m \in Models :
               binding[<<b, m>>].owner = s => /\ binding'[<<b, m>>].owner = s
                                              /\ binding'[<<b, m>>].draft = binding[<<b, m>>].draft,
           \A b \in Backends, m \in Models : RowExplained(b, m)',
           ListedBy(r)', ServedBy(r)'
    PROVE  WishesOK'
<1>1. ASSUME NEW b \in Backends, NEW m \in Models, TakenAway(b, m)
      PROVE  TakenAway(b, m)'
  BY <1>1 DEF TakenAway, Unbinds, AsksAgainst, Ended
<1>2. ASSUME NEW s \in Requests \ {r}
      PROVE  ListedBy(s)' /\ ServedBy(s)'
  <2>1. ListedBy(s) /\ ServedBy(s)
    BY DEF WishesOK
  <2>2. ListedBy(s)'
    BY <2>1 DEF ListedBy, AsksFor, AsksAgainst
  <2>3. ServedBy(s)'
    BY <1>1, <2>1 DEF ServedBy, AsksFor
  <2> QED
    BY <2>2, <2>3
<1>3. ASSUME NEW b \in Backends, NEW m \in Models
      PROVE  GoneExplained(b, m)'
  <2>1. GoneExplained(b, m)
    BY DEF WishesOK
  <2>2. \A s \in Requests : Binds(s, b, m)' => Binds(s, b, m)
    BY DEF Binds, AsksFor
  <2> QED
    BY <1>1, <2>1, <2>2 DEF GoneExplained
<1> QED
  BY <1>2, <1>3 DEF WishesOK

(* Whoever has to do with a row has arrived.                                *)
LEMMA Arrived ==
    ASSUME IInv, NEW b \in Backends, NEW m \in Models, NEW s \in Requests,
           s \in {binding[<<b, m>>].row, binding[<<b, m>>].draft, binding[<<b, m>>].owner}
    PROVE  pc[s] # "idle"
<1>1. AuthorOK(binding[<<b, m>>])
  BY DEF IInv, AuthorsOK
<1>2. binding[<<b, m>>].owner = s => pc[s] \in Writing
  BY DEF IInv, OwnersOK
<1> QED
  BY <1>1, <1>2 DEF AuthorOK, Writing

(* As long as the bindings stay what they are, so do their reasons.         *)
LEMMA CalmWishes ==
    ASSUME IInv, WishesOK, NEW r \in Requests, NEW label \in InFlight, pc[r] \notin Ended,
           GoTo(r, label), binding' = binding,
           \A s \in Requests \ {r} : /\ call'[s] = call[s]
                                     /\ toAdd'[s] = toAdd[s] /\ toRemove'[s] = toRemove[s],
           pc[r] # "idle" => call'[r] = call[r],
           ListedBy(r)', ServedBy(r)'
    PROVE  WishesOK'
<1>1. pc'[r] = label /\ \A s \in Requests \ {r} : pc'[s] = pc[s]
  BY Typed DEF GoTo
<1>2. pc'[r] # "committed"
  BY <1>1 DEF InFlight
<1>3. ASSUME NEW b \in Backends, NEW m \in Models
      PROVE  RowExplained(b, m)'
  <2>1. RowExplained(b, m)
    BY DEF WishesOK
  <2>2. \A s \in Requests :
           s \in {binding[<<b, m>>].row, binding[<<b, m>>].draft, binding[<<b, m>>].owner}
               => call'[s] = call[s]
    BY Arrived
  <2> QED
    BY <2>1, <2>2 DEF RowExplained, WishedFor, AsksFor, AsksAgainst
<1> QED
  BY <1>1, <1>2, <1>3, KeptWishes

LEMMA FailWishes ==
    ASSUME IInv, WishesOK, NEW r \in Requests, pc[r] \in InFlight, Fail(r)
    PROVE  WishesOK'
<1>1. /\ binding' = RolledBack(binding, r) /\ call' = call
      /\ toAdd' = [toAdd EXCEPT ![r] = {}] /\ toRemove' = [toRemove EXCEPT ![r] = {}]
      /\ pc' = [pc EXCEPT ![r] = "rolledBack"]
  BY DEF Fail, EndWith, GoTo
<1>2. /\ pc'[r] = "rolledBack" /\ toAdd'[r] = {} /\ toRemove'[r] = {}
      /\ \A s \in Requests \ {r} :
            pc'[s] = pc[s] /\ toAdd'[s] = toAdd[s] /\ toRemove'[s] = toRemove[s]
  BY <1>1 DEF IInv, TypeOK
<1>3. \A p \in Pairs :
         IF binding[p].owner = r
         THEN /\ binding'[p].row = binding[p].row /\ binding'[p].draft = binding[p].row
              /\ binding'[p].owner = NoTxn
         ELSE binding'[p] = binding[p]
  BY <1>1, Typed, RolledBackEffect
<1>4. ASSUME NEW b \in Backends, NEW m \in Models
      PROVE  RowExplained(b, m)'
  <2>1. RowExplained(b, m)
    BY DEF WishesOK
  <2> QED
    BY <1>1, <1>3, <2>1 DEF RowExplained, WishedFor, AsksFor, AsksAgainst
<1>5. ListedBy(r)' /\ ServedBy(r)'
  BY <1>2 DEF ListedBy, ServedBy, Writing
<1>6. pc[r] \notin Ended /\ pc'[r] # "committed"
  BY <1>2 DEF InFlight, Ended
<1> QED
  BY <1>1, <1>2, <1>3, <1>4, <1>5, <1>6, KeptWishes

-----------------------------------------------------------------------------
(* The steps up to the work, and between its parts.                         *)

(* A request that has not reached its work is not served yet.               *)
LEMMA EarlyWishes ==
    ASSUME IInv, WishesOK, NEW r \in Requests, Arrive(r) \/ Get(r) \/ FindModel(r)
    PROVE  WishesOK'
<1>1. CASE Arrive(r)
  <2> PICK c \in Calls : Begin(r, c)
    BY <1>1 DEF Arrive
  <2> DEFINE label == FirstStatement(c.op)
  <2>1. /\ pc[r] = "idle" /\ call' = [call EXCEPT ![r] = c] /\ GoTo(r, label)
        /\ UNCHANGED <<binding, toAdd, toRemove>>
    BY DEF Begin, tables
  <2>2. c.op \in {"bind", "unbind", "replace", "register", "createModel", "upsertModel"}
    BY DEF Calls
  <2>3. label \in InFlight /\ label \notin Writing /\ label # "createRow"
    BY <2>2 DEF FirstStatement, InFlight, Writing
  <2> HIDE DEF label
  <2>4. pc'[r] = label /\ toAdd'[r] = {} /\ toRemove'[r] = {}
    BY <2>1, Typed DEF GoTo, WishesOK, ListedBy
  <2>5. ListedBy(r)' /\ ServedBy(r)'
    BY <2>3, <2>4 DEF ListedBy, ServedBy
  <2>6. \A s \in Requests \ {r} : call'[s] = call[s]
    BY <2>1 DEF IInv, TypeOK
  <2> QED
    BY <2>1, <2>3, <2>5, <2>6, CalmWishes DEF Ended
<1>2. ASSUME NEW label \in {"resolve", "insertModel"}, GoTo(r, label),
             pc[r] \in {"get", "findModel"}, pc[r] \notin Ended,
             UNCHANGED <<tables, call, toAdd, toRemove, at, seen>>
      PROVE  WishesOK'
  <2>1. pc'[r] = label /\ UNCHANGED <<binding, call, toAdd, toRemove>>
    BY <1>2, Typed DEF GoTo, tables
  <2>2. ListedBy(r)
    BY DEF WishesOK
  <2>3. ListedBy(r)' /\ ServedBy(r)'
    BY <1>2, <2>1, <2>2 DEF ListedBy, ServedBy, Writing, AsksFor, AsksAgainst
  <2>4. label \in InFlight
    BY <1>2 DEF InFlight
  <2> QED
    BY <1>2, <2>1, <2>3, <2>4, CalmWishes
<1>3. CASE Get(r) \/ FindModel(r)
  <2>1. pc[r] \in {"get", "findModel"} /\ pc[r] \in InFlight /\ pc[r] \notin Ended
    BY <1>3 DEF Get, FindModel, InFlight, Ended
  <2> QED
    BY <1>2, <1>3, <2>1, FailWishes DEF Get, FindModel
<1> QED
  BY <1>1, <1>3

LEMMA ResolveWishes ==
    ASSUME IInv, WishesOK, NEW r \in Requests, ResolveModels(r)
    PROVE  WishesOK'
<1> DEFINE c == call[r]
           label == CASE c.op = "register" -> "createRow"
                      [] c.op = "replace"  -> "bound"
                      [] OTHER             -> "insert"
<1>1. /\ pc[r] = "resolve" /\ pc[r] \in InFlight /\ pc[r] \notin Ended /\ pc[r] # "idle"
      /\ c.op \in {"bind", "unbind", "replace", "register"} /\ c.models \in SUBSET Models
  BY CallFields DEF ResolveModels, InFlight, Ended, OpsAt
<1>2. CASE Fail(r)
  BY <1>1, <1>2, FailWishes
<1>3. CASE /\ toAdd' = [toAdd EXCEPT ![r] = IF c.op \in {"bind", "register"} THEN c.models ELSE {}]
           /\ toRemove' = [toRemove EXCEPT ![r] = IF c.op = "unbind" THEN c.models ELSE {}]
           /\ GoTo(r, label) /\ UNCHANGED <<tables, call, at, seen>>
  <2>1. /\ toAdd'[r] = (IF c.op \in {"bind", "register"} THEN c.models ELSE {})
        /\ toRemove'[r] = (IF c.op = "unbind" THEN c.models ELSE {})
        /\ \A s \in Requests \ {r} : toAdd'[s] = toAdd[s] /\ toRemove'[s] = toRemove[s]
        /\ UNCHANGED <<binding, call>>
    BY <1>3 DEF IInv, TypeOK, tables
  <2>2. /\ label \in InFlight /\ label \in {"createRow", "bound", "insert"}
        /\ label = "bound" <=> c.op = "replace"
    BY <1>1 DEF InFlight
  <2>3. pc'[r] = label
    BY <1>3, Typed DEF GoTo
  <2>4. GoTo(r, label)
    BY <1>3
  <2> HIDE DEF label
  <2>5. ListedBy(r)'
    BY <1>1, <2>1, <2>2, <2>3 DEF ListedBy, AsksFor, AsksAgainst
  <2>6. ServedBy(r)'
    BY <1>1, <2>1, <2>2, <2>3 DEF ServedBy, AsksFor, Writing
  <2> QED
    BY <1>1, <2>1, <2>2, <2>4, <2>5, <2>6, CalmWishes
<1> QED
  BY <1>2, <1>3 DEF ResolveModels

(* replace_models reads what is bound and leaves it: so far it is served.   *)
LEMMA ReadBoundWishes ==
    ASSUME IInv, WishesOK, NEW r \in Requests, ReadBound(r)
    PROVE  WishesOK'
<1> DEFINE c == call[r]
           bound == BoundIn(r, c.backend)
<1>1. /\ pc[r] = "bound" /\ pc[r] \in InFlight /\ pc[r] \notin Ended /\ pc[r] # "idle"
      /\ GoTo(r, "insert") /\ "insert" \in InFlight
      /\ toAdd' = [toAdd EXCEPT ![r] = c.models \ bound]
      /\ toRemove' = [toRemove EXCEPT ![r] = bound \ c.models]
      /\ UNCHANGED <<binding, call>>
  BY DEF ReadBound, InFlight, Ended, tables
<1>2. c.op = "replace" /\ c.backend \in Backends /\ c.models \in SUBSET Models
  BY <1>1, CallFields DEF OpsAt
<1>3. /\ toAdd'[r] = c.models \ bound /\ toRemove'[r] = bound \ c.models
      /\ \A s \in Requests \ {r} : toAdd'[s] = toAdd[s] /\ toRemove'[s] = toRemove[s]
  BY <1>1 DEF IInv, TypeOK
<1>4. \A m \in bound : binding[<<c.backend, m>>].row # Absent
  BY <1>1, <1>2, Unwritten DEF BoundIn, Visible, Writing
<1>5. pc'[r] = "insert"
  BY <1>1, Typed DEF GoTo
<1> HIDE DEF bound
<1>6. ListedBy(r)'
  BY <1>1, <1>2, <1>3, <1>5 DEF ListedBy, AsksFor, AsksAgainst
<1>7. ServedBy(r)'
  BY <1>1, <1>2, <1>3, <1>4, <1>5 DEF ServedBy, AsksFor
<1> QED
  BY <1>1, <1>3, <1>6, <1>7, CalmWishes

LEMMA BetweenWishes ==
    ASSUME IInv, WishesOK, NEW r \in Requests,
           CreateBackend(r) \/ InsertDone(r) \/ DeleteStart(r) \/ DeleteDone(r)
    PROVE  WishesOK'
<1>1. /\ pc[r] \in {"createRow", "insert", "snapshot", "delete"}
      /\ pc[r] \in Writing \cup {"createRow"} /\ pc[r] \notin Ended /\ pc[r] # "idle"
      /\ UNCHANGED <<binding, call, toAdd>>
  BY DEF CreateBackend, InsertDone, DeleteStart, DeleteDone, Writing, Ended, tables
<1>2. PICK label \in {"insert", "snapshot", "delete", "commit"} :
         GoTo(r, label) /\ (label = "insert" \/ toAdd[r] = {})
  BY DEF CreateBackend, InsertDone, DeleteStart, DeleteDone, WishesOK, ListedBy
<1>3. toRemove'[r] \subseteq toRemove[r] /\ \A s \in Requests \ {r} : toRemove'[s] = toRemove[s]
  <2>1. toRemove \in [Requests -> SUBSET Models]
    BY DEF IInv, TypeOK
  <2>2. CASE DeleteStart(r)
    <3>1. PICK left : toRemove' = [toRemove EXCEPT ![r] = left] /\ left \subseteq toRemove[r]
      BY <2>1, <2>2 DEF DeleteStart
    <3> QED
      BY <2>1, <3>1
  <2> QED
    BY <2>2 DEF CreateBackend, InsertDone, DeleteDone
<1>4. pc'[r] = label
  BY <1>2, Typed DEF GoTo
<1>5. ListedBy(r) /\ ServedBy(r)
  BY DEF WishesOK
<1>6. ListedBy(r)'
  BY <1>1, <1>2, <1>3, <1>4, <1>5 DEF ListedBy, AsksFor, AsksAgainst
<1>7. ServedBy(r)'
  <2>1. \A b \in Backends, m \in Models : TakenAway(b, m) => TakenAway(b, m)'
    BY <1>1, <1>2, Typed DEF TakenAway, Unbinds, AsksAgainst, GoTo, Ended
  <2> QED
    BY <1>1, <1>5, <2>1 DEF ServedBy, AsksFor
<1>8. label \in InFlight
  BY <1>2 DEF InFlight
<1> QED
  BY <1>1, <1>2, <1>3, <1>6, <1>7, <1>8, CalmWishes

LEMMA InsertModelWishes ==
    ASSUME IInv, WishesOK, NEW r \in Requests, InsertModel(r)
    PROVE  WishesOK'
<1>1. /\ pc[r] = "insertModel" /\ pc[r] \in InFlight /\ pc[r] \notin Ended /\ pc[r] # "idle"
      /\ call[r].op \in {"createModel", "upsertModel"} /\ "commit" \in InFlight
  BY CallFields DEF InsertModel, InFlight, Ended, OpsAt
<1>2. CASE Fail(r)
  BY <1>1, <1>2, FailWishes
<1>3. CASE GoTo(r, "commit") /\ UNCHANGED <<backend, binding, call, toAdd, toRemove, at, seen>>
  <2>1. pc'[r] = "commit"
    BY <1>3, Typed DEF GoTo
  <2>2. ListedBy(r)
    BY DEF WishesOK
  <2>3. ListedBy(r)' /\ ServedBy(r)'
    BY <1>1, <1>3, <2>1, <2>2 DEF ListedBy, ServedBy, AsksFor, AsksAgainst
  <2> QED
    BY <1>1, <1>3, <2>3, CalmWishes
<1> QED
  BY <1>2, <1>3 DEF InsertModel

-----------------------------------------------------------------------------
(* The work itself.                                                         *)

(* Neither INSERT nor DELETE writes what another request holds.             *)
LEMMA ItemWrites ==
    ASSUME IInv, NEW r \in Requests, NEW m \in Models, InsertItem(r, m) \/ DeleteItem(r, m)
    PROVE  /\ call[r].backend \in Backends
           /\ \A b \in Backends, n \in Models :
                 /\ binding'[<<b, n>>].row = binding[<<b, n>>].row
                 /\ \/ binding'[<<b, n>>] = binding[<<b, n>>]
                    \/ /\ b = call[r].backend /\ n = m /\ binding'[<<b, n>>].owner = r
                       /\ binding[<<b, n>>].owner \in {NoTxn, r}
<1>1. pc[r] \in {"insert", "delete"} /\ call[r].backend \in Backends
  BY CallFields DEF InsertItem, DeleteItem, InFlight, OpsAt
<1>2. binding \in Table(Pairs, Rows \cup {Absent}, Requests)
  BY Typed
<1> PICK p0 \in Pairs : p0 = <<call[r].backend, m>>
  BY <1>1
<1>3. CASE binding' = binding
  BY <1>1, <1>3
<1>4. ASSUME NEW row \in Rows \cup {Absent}, binding' = Write(binding, r, p0, row)
      PROVE  /\ binding'[p0].row = binding[p0].row /\ binding'[p0].owner = r
             /\ \A p \in Pairs \ {p0} : binding'[p] = binding[p]
  BY <1>2, <1>4, WriteEffect
<1>5. r \in Rows \cup {Absent} /\ Absent \in Rows \cup {Absent}
  BY DEF Rows
<1>6. CASE binding' # binding
  <2>1. binding[p0].owner \in {NoTxn, r}
    BY <1>6, FreePair DEF InsertItem, DeleteItem
  <2>2. \E row \in Rows \cup {Absent} : binding' = Write(binding, r, p0, row)
    BY <1>5, <1>6 DEF InsertItem, DeleteItem
  <2>3. /\ binding'[p0].row = binding[p0].row /\ binding'[p0].owner = r
        /\ \A p \in Pairs \ {p0} : binding'[p] = binding[p]
    BY <1>4, <2>2
  <2>4. \A b \in Backends, n \in Models :
           <<b, n>> \in Pairs /\ (<<b, n>> = p0 \/ <<b, n>> \in Pairs \ {p0})
    OBVIOUS
  <2>5. \A b \in Backends, n \in Models : <<b, n>> = p0 => b = call[r].backend /\ n = m
    OBVIOUS
  <2> QED
    BY <1>1, <2>1, <2>3, <2>4, <2>5
<1> QED
  BY <1>3, <1>6

LEMMA ItemWishes ==
    ASSUME IInv, WishesOK, NEW r \in Requests, NEW m \in Models, InsertItem(r, m) \/ DeleteItem(r, m),
           ServedBy(r)', ListedBy(r)',
           \A b \in Backends, n \in Models : binding'[<<b, n>>] # binding[<<b, n>>] => RowExplained(b, n)'
    PROVE  WishesOK'
<1>1. pc[r] \in {"insert", "delete"} /\ UNCHANGED <<pc, call>>
  BY DEF InsertItem, DeleteItem
<1>2. \A s \in Requests \ {r} : toAdd'[s] = toAdd[s] /\ toRemove'[s] = toRemove[s]
  BY DEF InsertItem, DeleteItem, IInv, TypeOK
<1>3. \A b \in Backends, n \in Models :
         /\ binding'[<<b, n>>].row = binding[<<b, n>>].row
         /\ \/ binding'[<<b, n>>] = binding[<<b, n>>]
            \/ binding[<<b, n>>].owner \in {NoTxn, r}
  <2>1. \A b \in Backends, n \in Models :
           /\ binding'[<<b, n>>].row = binding[<<b, n>>].row
           /\ \/ binding'[<<b, n>>] = binding[<<b, n>>]
              \/ /\ b = call[r].backend /\ n = m /\ binding'[<<b, n>>].owner = r
                 /\ binding[<<b, n>>].owner \in {NoTxn, r}
    BY ItemWrites
  <2> QED
    BY <2>1
<1>4. ASSUME NEW b \in Backends, NEW n \in Models
      PROVE  RowExplained(b, n)'
  <2>1. RowExplained(b, n)
    BY DEF WishesOK
  <2>2. CASE binding'[<<b, n>>] = binding[<<b, n>>]
    BY <1>1, <2>1, <2>2 DEF RowExplained, WishedFor, AsksFor, AsksAgainst
  <2> QED
    BY <2>2
<1>5. pc[r] \notin Ended /\ pc'[r] # "committed"
  BY <1>1 DEF Ended
<1>6. \A s \in Requests \ {r}, b \in Backends, n \in Models :
         binding[<<b, n>>].owner = s => /\ binding'[<<b, n>>].owner = s
                                        /\ binding'[<<b, n>>].draft = binding[<<b, n>>].draft
  BY <1>3
<1> QED
  BY <1>1, <1>2, <1>3, <1>4, <1>5, <1>6, KeptWishes

LEMMA InsertItemWishes ==
    ASSUME IInv, WishesOK, NEW r \in Requests, NEW m \in Models, InsertItem(r, m)
    PROVE  WishesOK'
<1> PICK b0 \in Backends : b0 = call[r].backend
  BY ItemWrites
<1> DEFINE p0 == <<b0, m>>
<1>1. /\ pc[r] = "insert" /\ m \in toAdd[r] /\ toAdd' = [toAdd EXCEPT ![r] = @ \ {m}]
      /\ UNCHANGED <<pc, call, toRemove>>
      /\ binding' = IF Visible(binding, r, p0) = Absent THEN Write(binding, r, p0, r) ELSE binding
  BY DEF InsertItem, First
<1>2. toAdd'[r] = toAdd[r] \ {m}
  BY <1>1 DEF IInv, TypeOK
<1>3. ListedBy(r) /\ ServedBy(r) /\ RowExplained(b0, m)
  BY DEF WishesOK
<1>4. AsksFor(r, b0, m)
  BY <1>1, <1>3 DEF ListedBy
<1>5. ListedBy(r)'
  BY <1>1, <1>2, <1>3 DEF ListedBy, AsksFor, AsksAgainst
<1>6. CASE Visible(binding, r, p0) = Absent
  <2>1. /\ binding'[p0].row = binding[p0].row /\ binding'[p0].draft = r /\ binding'[p0].owner = r
        /\ \A p \in Pairs \ {p0} : binding'[p] = binding[p]
    BY <1>1, <1>6, Typed, WriteEffect DEF Rows
  <2>2. \A b \in Backends, n \in Models : <<b, n>> = p0 => b = b0 /\ n = m
    OBVIOUS
  <2>3. \A b \in Backends, n \in Models :
           <<b, n>> \in Pairs /\ (<<b, n>> = p0 \/ <<b, n>> \in Pairs \ {p0})
    OBVIOUS
  <2>4. RowExplained(b0, m)'
    BY <1>1, <1>3, <1>4, <2>1 DEF RowExplained, WishedFor, AsksFor, AsksAgainst, Rows
  <2>5. ServedBy(r)'
    <3> SUFFICES ASSUME NEW b \in Backends, NEW n \in Models, AsksFor(r, b, n), n \notin toAdd'[r]
                 PROVE  \/ binding'[<<b, n>>].row # Absent
                        \/ binding'[<<b, n>>].owner = r /\ binding'[<<b, n>>].draft # Absent
                        \/ TakenAway(b, n)
      BY <1>1 DEF ServedBy, AsksFor, TakenAway, Unbinds, AsksAgainst
    <3>1. CASE <<b, n>> = p0
      BY <2>1, <3>1 DEF Rows
    <3>2. CASE <<b, n>> # p0
      <4>1. n # m
        BY <3>2 DEF AsksFor
      <4>2. binding'[<<b, n>>] = binding[<<b, n>>]
        BY <2>1, <2>3, <3>2
      <4> QED
        BY <1>1, <1>2, <1>3, <4>1, <4>2 DEF ServedBy, Writing
    <3> QED
      BY <3>1, <3>2
  <2>6. \A b \in Backends, n \in Models :
           binding'[<<b, n>>] # binding[<<b, n>>] => b = b0 /\ n = m
    BY <2>1, <2>2, <2>3
  <2>7. \A b \in Backends, n \in Models :
           binding'[<<b, n>>] # binding[<<b, n>>] => RowExplained(b, n)'
    BY <2>4, <2>6
  <2> QED
    BY <1>5, <2>5, <2>7, ItemWishes
<1>7. CASE Visible(binding, r, p0) # Absent
  <2>1. binding' = binding
    BY <1>1, <1>7
  <2>2. \/ binding[p0].row # Absent
        \/ binding[p0].owner = r /\ binding[p0].draft # Absent
    BY <1>7 DEF Visible
  <2>3. ServedBy(r)'
    BY <1>1, <1>2, <1>3, <2>1, <2>2 DEF ServedBy, AsksFor, Writing, TakenAway, Unbinds, AsksAgainst
  <2> QED
    BY <1>5, <2>1, <2>3, ItemWishes
<1> QED
  BY <1>6, <1>7

LEMMA DeleteItemWishes ==
    ASSUME IInv, WishesOK, NEW r \in Requests, NEW m \in Models, DeleteItem(r, m)
    PROVE  WishesOK'
<1> PICK b0 \in Backends : b0 = call[r].backend
  BY ItemWrites
<1> DEFINE p0 == <<b0, m>>
<1>1. /\ pc[r] = "delete" /\ m \in toRemove[r] /\ toRemove' = [toRemove EXCEPT ![r] = @ \ {m}]
      /\ UNCHANGED <<pc, call, toAdd>>
      /\ binding' = IF binding[p0].row = seen[r][m] THEN Write(binding, r, p0, Absent) ELSE binding
  BY DEF DeleteItem, Reached
<1>2. toRemove'[r] = toRemove[r] \ {m}
  BY <1>1 DEF IInv, TypeOK
<1>3. ListedBy(r) /\ ServedBy(r) /\ RowExplained(b0, m)
  BY DEF WishesOK
<1>4. AsksAgainst(r, b0, m)
  BY <1>1, <1>3 DEF ListedBy
<1>5. ListedBy(r)'
  BY <1>1, <1>2, <1>3 DEF ListedBy, AsksFor, AsksAgainst
<1>6. CASE binding[p0].row = seen[r][m]
  <2>1. binding[p0].row # Absent
    BY <1>1, <1>6 DEF IInv, WorkOK, WorkOf
  <2>2. /\ binding'[p0].row = binding[p0].row /\ binding'[p0].draft = Absent /\ binding'[p0].owner = r
        /\ \A p \in Pairs \ {p0} : binding'[p] = binding[p]
    <3>1. Absent \in Rows \cup {Absent}
      OBVIOUS
    <3>2. binding \in Table(Pairs, Rows \cup {Absent}, Requests)
      BY Typed
    <3>3. p0 \in Pairs /\ binding' = Write(binding, r, p0, Absent)
      BY <1>1, <1>6
    <3> QED
      BY <3>1, <3>2, <3>3, WriteEffect
  <2>3. \A b \in Backends, n \in Models : <<b, n>> = p0 => b = b0 /\ n = m
    OBVIOUS
  <2>4. \A b \in Backends, n \in Models :
           <<b, n>> \in Pairs /\ (<<b, n>> = p0 \/ <<b, n>> \in Pairs \ {p0})
    OBVIOUS
  <2>5. RowExplained(b0, m)'
    BY <1>1, <1>3, <1>4, <2>2 DEF RowExplained, WishedFor, AsksFor, AsksAgainst, Rows
  <2>6. ServedBy(r)'
    <3> SUFFICES ASSUME NEW b \in Backends, NEW n \in Models, AsksFor(r, b, n), n \notin toAdd[r]
                 PROVE  \/ binding'[<<b, n>>].row # Absent
                        \/ binding'[<<b, n>>].owner = r /\ binding'[<<b, n>>].draft # Absent
                        \/ TakenAway(b, n)
      BY <1>1 DEF ServedBy, AsksFor, TakenAway, Unbinds, AsksAgainst
    <3>1. CASE <<b, n>> = p0
      BY <2>1, <2>2, <3>1
    <3>2. CASE <<b, n>> # p0
      <4>1. binding'[<<b, n>>] = binding[<<b, n>>]
        BY <2>2, <2>4, <3>2
      <4> QED
        BY <1>1, <1>3, <4>1 DEF ServedBy, Writing
    <3> QED
      BY <3>1, <3>2
  <2>7. \A b \in Backends, n \in Models :
           binding'[<<b, n>>] # binding[<<b, n>>] => b = b0 /\ n = m
    BY <2>2, <2>3, <2>4
  <2>8. \A b \in Backends, n \in Models :
           binding'[<<b, n>>] # binding[<<b, n>>] => RowExplained(b, n)'
    BY <2>5, <2>7
  <2> QED
    BY <1>5, <2>6, <2>8, ItemWishes
<1>7. CASE binding[p0].row # seen[r][m]
  <2>1. binding' = binding
    BY <1>1, <1>7
  <2>2. ServedBy(r)'
    BY <1>1, <1>3, <2>1 DEF ServedBy, AsksFor, TakenAway, Unbinds, AsksAgainst
  <2> QED
    BY <1>5, <2>1, <2>2, ItemWishes
<1> QED
  BY <1>6, <1>7

(* A commit grants the wishes of its request.                               *)
LEMMA CommitWishes ==
    ASSUME IInv, WishesOK, NEW r \in Requests, Commit(r)
    PROVE  WishesOK'
<1>1. /\ binding' = Committed(binding, r) /\ call' = call
      /\ toAdd' = [toAdd EXCEPT ![r] = {}] /\ toRemove' = [toRemove EXCEPT ![r] = {}]
      /\ pc' = [pc EXCEPT ![r] = "committed"] /\ pc[r] = "commit"
  BY DEF Commit, EndWith, GoTo
<1>2. /\ pc'[r] = "committed" /\ toAdd'[r] = {} /\ toRemove'[r] = {}
      /\ \A s \in Requests \ {r} :
            pc'[s] = pc[s] /\ toAdd'[s] = toAdd[s] /\ toRemove'[s] = toRemove[s]
  BY <1>1 DEF IInv, TypeOK
<1>3. \A b \in Backends, m \in Models :
         IF binding[<<b, m>>].owner = r
         THEN /\ binding'[<<b, m>>].row = binding[<<b, m>>].draft
              /\ binding'[<<b, m>>].draft = binding[<<b, m>>].draft
              /\ binding'[<<b, m>>].owner = NoTxn
         ELSE binding'[<<b, m>>] = binding[<<b, m>>]
  <2>1. \A p \in Pairs :
           IF binding[p].owner = r
           THEN /\ binding'[p].row = binding[p].draft /\ binding'[p].draft = binding[p].draft
                /\ binding'[p].owner = NoTxn
           ELSE binding'[p] = binding[p]
    BY <1>1, Typed, CommittedEffect
  <2>2. \A b \in Backends, m \in Models : <<b, m>> \in Pairs
    OBVIOUS
  <2> QED
    BY <2>1, <2>2
<1>4. ASSUME NEW b \in Backends, NEW m \in Models, TakenAway(b, m)
      PROVE  TakenAway(b, m)'
  BY <1>1, <1>2, <1>4 DEF TakenAway, Unbinds, AsksAgainst
<1>5. ASSUME NEW b \in Backends, NEW m \in Models,
             binding[<<b, m>>].owner = r, binding[<<b, m>>].draft = Absent
      PROVE  TakenAway(b, m)'
  <2>1. AsksAgainst(r, b, m)
    BY <1>5 DEF WishesOK, RowExplained
  <2>2. Unbinds(r, b, m)'
    BY <1>1, <1>2, <2>1 DEF Unbinds, AsksAgainst
  <2> QED
    BY <2>2 DEF TakenAway
<1>6. ASSUME NEW b \in Backends, NEW m \in Models
      PROVE  RowExplained(b, m)'
  <2>1. RowExplained(b, m)
    BY DEF WishesOK
  <2> QED
    BY <1>1, <1>3, <2>1 DEF RowExplained, WishedFor, AsksFor, AsksAgainst
<1>7. ASSUME NEW b \in Backends, NEW m \in Models, binding[<<b, m>>].row # Absent
      PROVE  binding'[<<b, m>>].row # Absent \/ TakenAway(b, m)'
  BY <1>3, <1>5, <1>7
<1>8. ASSUME NEW s \in Requests
      PROVE  ListedBy(s)' /\ ServedBy(s)'
  <2>1. ListedBy(s) /\ ServedBy(s)
    BY DEF WishesOK
  <2>2. CASE s = r
    BY <1>2, <2>2 DEF ListedBy, ServedBy, Writing
  <2>3. CASE s # r
    <3>1. ListedBy(s)'
      BY <1>1, <1>2, <2>1, <2>3 DEF ListedBy, AsksFor, AsksAgainst
    <3>2. ASSUME NEW b \in Backends, NEW m \in Models,
                 binding[<<b, m>>].owner = s, binding[<<b, m>>].draft # Absent
          PROVE  binding'[<<b, m>>].owner = s /\ binding'[<<b, m>>].draft # Absent
      BY <1>3, <2>3, <3>2
    <3>3. ServedBy(s)'
      BY <1>1, <1>2, <1>4, <1>7, <2>1, <2>3, <3>2 DEF ServedBy, AsksFor
    <3> QED
      BY <3>1, <3>3
  <2> QED
    BY <2>2, <2>3
<1>9. ASSUME NEW b \in Backends, NEW m \in Models
      PROVE  GoneExplained(b, m)'
  <2> SUFFICES ASSUME binding'[<<b, m>>].row = Absent,
                      <<b, m>> \in InitiallyBound \/ \E s \in Requests : Binds(s, b, m)'
               PROVE  TakenAway(b, m)'
    BY DEF GoneExplained
  <2>1. CASE binding[<<b, m>>].row # Absent
    BY <1>7, <2>1
  <2>2. CASE binding[<<b, m>>].row = Absent /\ <<b, m>> \in InitiallyBound
    BY <1>4, <2>2 DEF WishesOK, GoneExplained
  <2>3. ASSUME NEW s \in Requests, Binds(s, b, m)', binding[<<b, m>>].row = Absent
        PROVE  TakenAway(b, m)'
    <3>1. CASE s # r
      <4>1. Binds(s, b, m)
        BY <1>1, <1>2, <2>3, <3>1 DEF Binds, AsksFor
      <4> QED
        BY <1>4, <2>3, <4>1 DEF WishesOK, GoneExplained
    <3>2. CASE s = r
      <4>1. AsksFor(r, b, m)
        BY <1>1, <2>3, <3>2 DEF Binds, AsksFor
      <4>2. m \notin toAdd[r]
        BY <1>1 DEF WishesOK, ListedBy
      <4>3. \/ binding[<<b, m>>].owner = r /\ binding[<<b, m>>].draft # Absent
            \/ TakenAway(b, m)
        BY <1>1, <2>3, <4>1, <4>2 DEF WishesOK, ServedBy, Writing
      <4> QED
        BY <1>3, <1>4, <4>3
    <3> QED
      BY <3>1, <3>2
  <2> QED
    BY <2>1, <2>2, <2>3
<1> QED
  BY <1>6, <1>8, <1>9 DEF WishesOK

LEMMA InitWishes == Init => WishesOK
<1> SUFFICES ASSUME Init PROVE WishesOK
  OBVIOUS
<1> USE DEF Init, InitialRows, Settled
<1>1. \A r \in Requests : ListedBy(r) /\ ServedBy(r)
  BY DEF ListedBy, ServedBy, Writing
<1>2. \A b \in Backends, m \in Models : RowExplained(b, m)
  BY DEF RowExplained, WishedFor, Rows
<1>3. \A b \in Backends, m \in Models : GoneExplained(b, m)
  BY DEF GoneExplained, Binds, Rows
<1> QED
  BY <1>1, <1>2, <1>3 DEF WishesOK

LEMMA NextWishes ==
    ASSUME IInv, WishesOK, [Next]_vars
    PROVE  WishesOK'
<1>1. CASE UNCHANGED vars
  <2>1. UNCHANGED <<binding, pc, call, toAdd, toRemove>>
    BY <1>1 DEF vars, tables
  <2>2. \A r \in Requests : ListedBy(r)' /\ ServedBy(r)'
    BY <2>1 DEF WishesOK, ListedBy, ServedBy, AsksFor, AsksAgainst, TakenAway, Unbinds
  <2>3. ASSUME NEW b \in Backends, NEW m \in Models
        PROVE  RowExplained(b, m)'
    <3>1. RowExplained(b, m)
      BY DEF WishesOK
    <3> QED
      BY <2>1, <3>1 DEF RowExplained, WishedFor, AsksFor, AsksAgainst
  <2>4. \A b \in Backends, m \in Models : GoneExplained(b, m)'
    BY <2>1 DEF WishesOK, GoneExplained, AsksFor, AsksAgainst, TakenAway, Binds, Unbinds
  <2> QED
    BY <2>2, <2>3, <2>4 DEF WishesOK
<1>2. ASSUME NEW r \in Requests, Arrive(r)
      PROVE  WishesOK'
  BY <1>2, EarlyWishes
<1>3. ASSUME NEW r \in Requests, Step(r)
      PROVE  WishesOK'
  <2>1. CASE \E m \in Models : InsertItem(r, m) \/ DeleteItem(r, m)
    BY <2>1, InsertItemWishes, DeleteItemWishes
  <2>2. CASE Get(r) \/ FindModel(r) \/ ResolveModels(r) \/ ReadBound(r)
    BY <2>2, EarlyWishes, ResolveWishes, ReadBoundWishes
  <2>3. CASE CreateBackend(r) \/ InsertDone(r) \/ DeleteStart(r) \/ DeleteDone(r)
    BY <2>3, BetweenWishes
  <2>4. CASE InsertModel(r) \/ Commit(r)
    BY <2>4, InsertModelWishes, CommitWishes
  <2> QED
    BY <1>3, <2>1, <2>2, <2>3, <2>4 DEF Step
<1>4. ASSUME NEW r \in Requests, LockWaitAborted(r) \/ DeadlockDetected(r) \/ Aborted(r)
      PROVE  WishesOK'
  <2>1. Fail(r) /\ pc[r] \in InFlight
    BY <1>4 DEF LockWaitAborted, DeadlockDetected, InCircle, Circle, Waits, WaitsAt, Aborted,
                Blocked, InFlight
  <2> QED
    BY <2>1, FailWishes
<1> QED
  BY <1>1, <1>2, <1>3, <1>4 DEF Next, Done

LEMMA WishesExplain == IInv /\ WishesOK => OutcomeExplained
<1> SUFFICES ASSUME IInv, WishesOK, NEW b \in Backends, NEW m \in Models
             PROVE  /\ binding[<<b, m>>].row # Absent
                          => \/ \E r \in Requests : Binds(r, b, m)
                             \/ <<b, m>> \in InitiallyBound
                    /\ binding[<<b, m>>].row = Absent
                          => \/ \E r \in Requests : Unbinds(r, b, m)
                             \/ /\ <<b, m>> \notin InitiallyBound
                                /\ \A r \in Requests : ~ Binds(r, b, m)
  BY DEF OutcomeExplained
<1>1. binding[<<b, m>>].row \in Requests \cup {NoTxn, Absent}
  BY Typed, Owners DEF Rows
<1>2. WishedFor(binding[<<b, m>>].row, b, m) /\ AuthorOK(binding[<<b, m>>])
  BY DEF WishesOK, RowExplained, IInv, AuthorsOK
<1>3. GoneExplained(b, m)
  BY DEF WishesOK
<1> QED
  BY <1>1, <1>2, <1>3 DEF WishedFor, AuthorOK, Binds, GoneExplained, TakenAway

(* When all requests have ended, a pair is bound if somebody who committed  *)
(* asked for it, or it was at the start, and is not bound if somebody asked *)
(* for that, or nobody for the contrary: however the statements of          *)
(* bind_models, unbind_models and replace_models interleave.                *)
THEOREM OutcomesAreWishes == Spec => []OutcomeExplained
<1>1. Init => WishesOK
  BY InitWishes
<1>2. IInv /\ WishesOK /\ [Next]_vars => WishesOK'
  BY NextWishes
<1> QED
  BY <1>1, <1>2, WishesExplain, SpecInv, PTL DEF Spec
=============================================================================
