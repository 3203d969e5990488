-------------------------- MODULE RequestLogProofs --------------------------
(* The safety of the request log, for any number of requests and ids: a     *)
(* decision stays with its record, records are whole, conflicts are real,   *)
(* purges keep their limit and their counts add up, and the log implements  *)
(* RequestLedger.                                                           *)
EXTENDS RequestLog, ReadCommittedProofs, FiniteSetTheorems

(* The inductive invariant of the specification.                            *)

Recording == {"find", "insert", "decide"}
Purging   == {"select", "delete"}

(* A request is where its call leads.                                       *)
ControlOK ==
    \A r \in Requests :
        /\ pc[r] # "idle" => call[r] \in Calls
        /\ pc[r] \in Recording => call[r].op = "record"
        /\ pc[r] \in Purging => call[r].op = "purge"
        /\ pc[r] = "decide" => call[r].decision # "none" /\ log[call[r].id].owner = r

(* What a record has written: its row, and its decision in the end.         *)
RecordedBy(r, k) ==
    /\ k = call[r].id
    /\ log[k].row = Absent
    /\ log[k].draft = [finished |-> call[r].finished, by |-> r]
    /\ pc[r] = "decide" => decision[k].draft = Absent
    /\ pc[r] = "commit" => /\ call[r].decision # "invalid"
                           /\ (call[r].decision = "valid") = (decision[k].draft # Absent)

(* What a purge has written.                                                *)
PurgedBy(r, k) ==
    /\ log[k].row # Absent /\ log[k].row.finished < call[r].cutoff
    /\ log[k].draft = Absent
    /\ decision[k].draft = Absent

HeldBy(r, k) ==
    \/ pc[r] \in {"decide", "commit"} /\ call[r].op = "record" /\ RecordedBy(r, k)
    \/ pc[r] \in {"delete", "commit"} /\ call[r].op = "purge" /\ PurgedBy(r, k)

(* Whoever holds a decision holds its record, and no row is held in vain.   *)
SlotOK(k) ==
    /\ log[k].owner = NoTxn => log[k].draft = log[k].row
    /\ decision[k].owner = NoTxn => decision[k].draft = decision[k].row
    /\ decision[k].owner \in Requests => log[k].owner = decision[k].owner
    /\ log[k].owner \in Requests => HeldBy(log[k].owner, k)

SlotsOK == \A k \in LogIds : SlotOK(k)

(* A decision goes with its record also if everybody commits.               *)
DraftsMatch ==
    \A k \in LogIds :
        decision[k].draft # Absent =>
            log[k].draft # Absent /\ log[k].draft.by = decision[k].draft.by

(* A row that a purge has selected finished before its cutoff; its writer   *)
(* has ended, so no other row will ever look the same.                      *)
DoomedOK ==
    \A r \in Requests : \A d \in doomed[r] :
        /\ pc[r] = "delete"
        /\ d[2] \in Requests => pc[d[2]] = "committed"
        /\ Stands(d[1], d[2]) => log[d[1]].row.finished < call[r].cutoff

CountOK ==
    \A r \in Requests :
        /\ IsFiniteSet(doomed[r])
        /\ pc[r] \in {"idle", "select"} => deleted[r] = 0

IInv == /\ TypeOK /\ ControlOK /\ SlotsOK /\ DraftsMatch /\ DecisionHasLog
        /\ AllOrNothing /\ DoomedOK /\ CountOK /\ PurgeBounded

(* What makes the counts of the purges add up: a purge under way has        *)
(* counted the rows it holds, once each, and a record about to commit holds *)
(* its row.                                                                 *)
Held(r) == {k \in LogIds : log[k].owner = r}

TallyOf(r) ==
    /\ pc[r] = "commit" /\ call[r].op = "record" => log[call[r].id].owner = r
    /\ pc[r] \in {"delete", "commit"} /\ call[r].op = "purge"
          => deleted[r] = Cardinality(Held(r))
    /\ \A d \in doomed[r] : Stands(d[1], d[2]) => log[d[1]].owner # r

TallyOK == /\ \A r \in Requests : TallyOf(r)
           /\ IsFiniteSet(Recorded) /\ IsFiniteSet(Deletions)
           /\ PurgesCounted

-----------------------------------------------------------------------------
USE FreshAssumption

Logs      == Table(LogIds, LogRows \cup {Absent}, Requests)
Decisions == Table(LogIds, DecisionRows \cup {Absent}, Requests)
Labels    == {"idle"} \cup InFlight \cup Ended

LEMMA InitInv == Init => IInv
<1> SUFFICES ASSUME Init PROVE IInv
  OBVIOUS
<1>1. \A k \in Existing : [finished |-> FinishedAt[k], by |-> NoTxn] \in LogRows
  BY StartAssumption DEF LogRows
<1>2. /\ log \in Logs
      /\ \A k \in LogIds : /\ log[k].owner = NoTxn /\ log[k].draft = log[k].row
                           /\ log[k].row # Absent => log[k].row.by = NoTxn
                           /\ log[k].row = Absent => k \notin Existing
  BY <1>1 DEF Init, Settled, Table, Logs
<1>3. /\ decision \in Decisions
      /\ \A k \in LogIds : /\ decision[k].owner = NoTxn /\ decision[k].draft = decision[k].row
                           /\ decision[k].row # Absent => k \in Existing /\ decision[k].row.by = NoTxn
  <2> PICK decided \in SUBSET Existing :
         decision = [k \in LogIds |-> Settled(IF k \in decided THEN [by |-> NoTxn] ELSE Absent)]
    BY DEF Init
  <2> QED
    BY DEF Settled, Table, Decisions, DecisionRows
<1>4. TypeOK
  BY <1>2, <1>3 DEF TypeOK, Init, Logs, Decisions
<1>5. ControlOK
  BY DEF ControlOK, Recording, Purging, Init
<1>6. SlotsOK
  BY <1>2, <1>3 DEF SlotsOK, SlotOK
<1>7. DraftsMatch /\ DecisionHasLog
  BY <1>2, <1>3 DEF DraftsMatch, DecisionHasLog
<1>8. AllOrNothing
  BY <1>2 DEF AllOrNothing
<1>9. DoomedOK /\ CountOK /\ PurgeBounded
  BY FS_EmptySet DEF DoomedOK, CountOK, PurgeBounded, Init
<1> QED
  BY <1>4, <1>5, <1>6, <1>7, <1>8, <1>9 DEF IInv

(* The facts of the slots that the lemmas work with.                        *)
LEMMA Typed ==
    ASSUME IInv
    PROVE  /\ log \in Logs /\ decision \in Decisions
           /\ pc \in [Requests -> Labels] /\ call \in [Requests -> Calls \cup {NoCall}]
           /\ doomed \in [Requests -> SUBSET (LogIds \X (Requests \cup {NoTxn}))]
           /\ deleted \in [Requests -> Nat]
           /\ reply \in [Requests -> {0, 200, 201, 409, 422, 500}]
           /\ \A k \in LogIds : /\ log[k].owner \in Requests \cup {NoTxn}
                                /\ log[k].row \in LogRows \cup {Absent}
                                /\ log[k].draft \in LogRows \cup {Absent}
                                /\ decision[k].owner \in Requests \cup {NoTxn}
                                /\ decision[k].row \in DecisionRows \cup {Absent}
                                /\ decision[k].draft \in DecisionRows \cup {Absent}
  BY Owners DEF IInv, TypeOK, Logs, Decisions, Labels

LEMMA CallFields ==
    ASSUME IInv, NEW r \in Requests, pc[r] # "idle"
    PROVE  /\ call[r] \in Calls /\ call[r].op \in {"record", "purge"}
           /\ call[r].op = "record" => /\ call[r].id \in LogIds /\ call[r].finished \in Times
                                       /\ call[r].decision \in {"none", "valid", "invalid"}
           /\ call[r].op = "purge" => call[r].cutoff \in Times /\ call[r].batch \in Nat
<1>1. call[r] \in Calls
  BY DEF IInv, ControlOK
<1> QED
  BY <1>1, TimeAssumption DEF Calls

(* What DoomedOK says of the rows that a purge has selected.                *)
OldEnough(rows, cutoff) ==
    \A d \in rows : /\ d[2] \in Requests => pc[d[2]] = "committed"
                    /\ Stands(d[1], d[2]) => log[d[1]].row.finished < cutoff

-----------------------------------------------------------------------------
(* A request moves on without writing; it holds nothing before "decide".    *)
LEMMA MoveStep ==
    ASSUME IInv, NEW r \in Requests, NEW label \in InFlight,
           pc[r] \in {"idle", "find", "select", "delete"},
           pc[r] = "delete" => label = "commit",
           pc[r] # "delete" => label \notin {"decide", "commit"},
           GoTo(r, label), UNCHANGED <<log, decision>>,
           call' \in [Requests -> Calls \cup {NoCall}], call'[r] \in Calls,
           label \in Recording => call'[r].op = "record",
           label \in Purging \cup {"commit"} => call'[r].op = "purge",
           pc[r] # "idle" => call'[r] = call[r],
           doomed' \in [Requests -> SUBSET (LogIds \X (Requests \cup {NoTxn}))],
           deleted' \in [Requests -> Nat],
           reply' \in [Requests -> {0, 200, 201, 409, 422, 500}],
           \A s \in Requests \ {r} :
               call'[s] = call[s] /\ doomed'[s] = doomed[s] /\ deleted'[s] = deleted[s],
           IsFiniteSet(doomed'[r]),
           label = "select" => deleted'[r] = 0,
           label # "delete" => doomed'[r] = {},
           OldEnough(doomed'[r], call'[r].cutoff),
           label \in {"delete", "commit"} =>
               deleted'[r] + Cardinality(doomed'[r]) <= call'[r].batch
    PROVE  IInv'
<1> USE DEF IInv, GoTo, OldEnough
<1>1. pc'[r] = label /\ \A s \in Requests \ {r} : pc'[s] = pc[s]
  BY Typed
<1>2. label # "idle" /\ label \notin Ended
  BY DEF InFlight, Ended
<1>3. TypeOK'
  BY DEF TypeOK
<1>4. ControlOK'
  BY <1>1, <1>2 DEF ControlOK, Recording, Purging
<1>5. SlotsOK'
  <2> SUFFICES ASSUME NEW k \in LogIds, NEW s \in Requests, log[k].owner = s, HeldBy(s, k)
               PROVE  HeldBy(s, k)'
    BY DEF SlotsOK, SlotOK
  <2>1. CASE s = r
    BY <2>1, <1>1, CallFields DEF HeldBy, PurgedBy
  <2>2. CASE s # r
    BY <2>2, <1>1 DEF HeldBy, PurgedBy, RecordedBy
  <2> QED
    BY <2>1, <2>2
<1>6. DraftsMatch' /\ DecisionHasLog'
  BY DEF DraftsMatch, DecisionHasLog
<1>7. AllOrNothing'
  BY <1>1 DEF AllOrNothing
<1>8. DoomedOK'
  <2> SUFFICES ASSUME NEW s \in Requests, NEW d \in doomed'[s]
               PROVE  /\ pc'[s] = "delete"
                      /\ d[2] \in Requests => pc'[d[2]] = "committed"
                      /\ Stands(d[1], d[2]) => log[d[1]].row.finished < call'[s].cutoff
    BY DEF DoomedOK, Stands
  <2>1. d[2] \in Requests /\ pc[d[2]] = "committed" => pc'[d[2]] = "committed"
    BY <1>1
  <2>2. CASE s = r
    BY <2>1, <2>2, <1>1
  <2>3. CASE s # r
    BY <2>1, <2>3, <1>1 DEF DoomedOK
  <2> QED
    BY <2>2, <2>3
<1>9. CountOK'
  BY <1>1, <1>2 DEF CountOK
<1>10. PurgeBounded'
  BY <1>1, <1>2 DEF PurgeBounded, Ended
<1> QED
  BY <1>3, <1>4, <1>5, <1>6, <1>7, <1>8, <1>9, <1>10

(* A request ends without an effect.                                        *)
LEMMA FailStep ==
    ASSUME IInv, NEW r \in Requests, pc[r] \in InFlight,
           NEW code \in {0, 200, 201, 409, 422, 500}, Fail(r, code), UNCHANGED <<call, deleted>>
    PROVE  /\ IInv'
           /\ \A k \in LogIds : log'[k].row = log[k].row /\ decision'[k].row = decision[k].row
<1> USE DEF IInv
<1>1. /\ log' = RolledBack(log, r) /\ decision' = RolledBack(decision, r)
      /\ doomed' = [doomed EXCEPT ![r] = {}] /\ reply' = [reply EXCEPT ![r] = code]
      /\ pc' = [pc EXCEPT ![r] = "rolledBack"]
  BY DEF Fail, GoTo
<1>2. pc'[r] = "rolledBack" /\ \A s \in Requests \ {r} : pc'[s] = pc[s]
  BY <1>1, Typed
<1>3. pc[r] # "idle" /\ pc[r] \notin Ended
  BY DEF InFlight, Ended
<1>4. /\ log' \in Logs
      /\ \A k \in LogIds :
            IF log[k].owner = r
            THEN /\ log'[k].row = log[k].row /\ log'[k].draft = log[k].row /\ log'[k].owner = NoTxn
            ELSE log'[k] = log[k]
  BY <1>1, Typed, RolledBackEffect DEF Logs
<1>5. /\ decision' \in Decisions
      /\ \A k \in LogIds :
            IF decision[k].owner = r
            THEN /\ decision'[k].row = decision[k].row /\ decision'[k].draft = decision[k].row
                 /\ decision'[k].owner = NoTxn
            ELSE decision'[k] = decision[k]
  BY <1>1, Typed, RolledBackEffect DEF Decisions
<1>6. \A k \in LogIds : log'[k].row = log[k].row /\ decision'[k].row = decision[k].row
  BY <1>4, <1>5
<1>7. doomed'[r] = {} /\ \A s \in Requests \ {r} : doomed'[s] = doomed[s]
  BY <1>1, Typed
<1>8. TypeOK'
  BY <1>1, <1>4, <1>5 DEF TypeOK, Ended, Logs, Decisions
<1>9. ControlOK'
  BY <1>2, <1>3, <1>4, CallFields DEF ControlOK, Recording, Purging
<1>10. SlotsOK'
  <2> SUFFICES ASSUME NEW k \in LogIds PROVE SlotOK(k)'
    BY DEF SlotsOK
  <2>0. SlotOK(k)
    BY DEF SlotsOK
  <2>1. CASE log[k].owner = r
    <3>1. decision[k].owner \in {r, NoTxn}
      BY <2>0, <2>1, Typed DEF SlotOK
    <3>2. log'[k].owner = NoTxn /\ log'[k].draft = log'[k].row
      BY <2>1, <1>4
    <3>3. decision'[k].owner = NoTxn /\ decision'[k].draft = decision'[k].row
      BY <2>0, <3>1, <1>5 DEF SlotOK
    <3> QED
      BY <3>2, <3>3 DEF SlotOK
  <2>2. CASE log[k].owner # r
    <3>1. decision[k].owner # r
      BY <2>0, <2>2 DEF SlotOK
    <3>2. log'[k] = log[k] /\ decision'[k] = decision[k]
      BY <2>2, <3>1, <1>4, <1>5
    <3>3. ASSUME NEW s \in Requests, s = log[k].owner
          PROVE  HeldBy(s, k)'
      BY <2>0, <2>2, <3>2, <3>3, <1>2 DEF SlotOK, HeldBy, RecordedBy, PurgedBy
    <3> QED
      BY <2>0, <3>2, <3>3 DEF SlotOK
  <2> QED
    BY <2>1, <2>2
<1>11. DraftsMatch'
  BY <1>4, <1>5, Typed DEF DraftsMatch, DecisionHasLog, SlotsOK, SlotOK
<1>12. DecisionHasLog'
  BY <1>6 DEF DecisionHasLog
<1>13. AllOrNothing'
  BY <1>2, <1>3, <1>6 DEF AllOrNothing, Ended
<1>14. DoomedOK'
  <2> SUFFICES ASSUME NEW s \in Requests, NEW d \in doomed'[s]
               PROVE  /\ pc'[s] = "delete"
                      /\ d[2] \in Requests => pc'[d[2]] = "committed"
                      /\ Stands(d[1], d[2])' => log'[d[1]].row.finished < call'[s].cutoff
    BY DEF DoomedOK
  <2>1. s # r /\ d \in doomed[s]
    BY <1>7
  <2>2. d[1] \in LogIds
    BY <2>1, Typed
  <2>3. d[2] \in Requests => d[2] # r
    BY <2>1, <1>3 DEF DoomedOK, Ended
  <2> QED
    BY <2>1, <2>2, <2>3, <1>2, <1>6 DEF DoomedOK, Stands
<1>15. CountOK'
  <2>1. \A s \in Requests : IsFiniteSet(doomed'[s])
    <3>1. IsFiniteSet(doomed'[r])
      <4>1. IsFiniteSet({})
        BY FS_EmptySet
      <4> QED
        BY <4>1, <1>7
    <3>2. \A s \in Requests : IsFiniteSet(doomed[s])
      BY DEF CountOK
    <3> QED
      BY <3>1, <3>2, <1>7
  <2>2. \A s \in Requests : pc'[s] \in {"idle", "select"} => deleted'[s] = 0
    BY <1>2 DEF CountOK
  <2> QED
    BY <2>1, <2>2 DEF CountOK
<1>16. PurgeBounded'
  BY <1>2, <1>7 DEF PurgeBounded
<1> QED
  BY <1>6, <1>8, <1>9, <1>10, <1>11, <1>12, <1>13, <1>14, <1>15, <1>16

(* A request commits what it has written.                                   *)
LEMMA CommitStep ==
    ASSUME IInv, NEW r \in Requests, Commit(r)
    PROVE  IInv'
<1> USE DEF IInv
<1>1. /\ log' = Committed(log, r) /\ decision' = Committed(decision, r)
      /\ pc' = [pc EXCEPT ![r] = "committed"] /\ pc[r] = "commit"
      /\ UNCHANGED <<call, doomed, deleted, reply>>
  BY DEF Commit, GoTo
<1>2. pc'[r] = "committed" /\ \A s \in Requests \ {r} : pc'[s] = pc[s]
  BY <1>1, Typed
<1>3. \A k \in LogIds : SlotOK(k)
  BY DEF SlotsOK
<1>4. /\ log' \in Logs
      /\ \A k \in LogIds :
            IF log[k].owner = r
            THEN /\ log'[k].row = log[k].draft /\ log'[k].draft = log[k].draft /\ log'[k].owner = NoTxn
            ELSE log'[k] = log[k]
  BY <1>1, Typed, CommittedEffect DEF Logs
<1>5. /\ decision' \in Decisions
      /\ \A k \in LogIds :
            IF decision[k].owner = r
            THEN /\ decision'[k].row = decision[k].draft /\ decision'[k].draft = decision[k].draft
                 /\ decision'[k].owner = NoTxn
            ELSE decision'[k] = decision[k]
  BY <1>1, Typed, CommittedEffect DEF Decisions
<1>6. ASSUME NEW k \in LogIds, log[k].owner = r
      PROVE  /\ log'[k].owner = NoTxn /\ log'[k].row = log[k].draft /\ log'[k].draft = log[k].draft
             /\ decision'[k].owner = NoTxn /\ decision'[k].row = decision[k].draft
             /\ decision'[k].draft = decision[k].draft
             /\ HeldBy(r, k)
  <2>1. decision[k].owner \in {r, NoTxn}
    BY <1>6, <1>3, Typed DEF SlotOK
  <2>2. HeldBy(r, k)
    BY <1>6, <1>3 DEF SlotOK
  <2>3. log'[k].owner = NoTxn /\ log'[k].row = log[k].draft /\ log'[k].draft = log[k].draft
    BY <1>6, <1>4
  <2>4. decision[k].owner = NoTxn => decision[k].draft = decision[k].row
    BY <1>3 DEF SlotOK
  <2>5. /\ decision'[k].owner = NoTxn /\ decision'[k].row = decision[k].draft
        /\ decision'[k].draft = decision[k].draft
    BY <2>1, <2>4, <1>5
  <2> QED
    BY <2>2, <2>3, <2>5
<1>7. ASSUME NEW k \in LogIds, log[k].owner # r
      PROVE  log'[k] = log[k] /\ decision'[k] = decision[k]
  <2>1. decision[k].owner # r
    BY <1>7, <1>3 DEF SlotOK
  <2> QED
    BY <1>7, <2>1, <1>4, <1>5
<1>8. TypeOK'
  BY <1>1, <1>4, <1>5 DEF TypeOK, Ended, Logs, Decisions
<1>9. ControlOK'
  BY <1>1, <1>2, <1>7, CallFields DEF ControlOK, Recording, Purging
<1>10. SlotsOK'
  <2> SUFFICES ASSUME NEW k \in LogIds PROVE SlotOK(k)'
    BY DEF SlotsOK
  <2>1. CASE log[k].owner = r
    BY <2>1, <1>6 DEF SlotOK
  <2>2. CASE log[k].owner # r
    <3>1. ASSUME NEW s \in Requests, s = log[k].owner
          PROVE  HeldBy(s, k)'
      BY <1>3, <2>2, <3>1, <1>1, <1>2, <1>7 DEF SlotOK, HeldBy, RecordedBy, PurgedBy
    <3> QED
      BY <2>2, <1>3, <1>7, <3>1 DEF SlotOK
  <2> QED
    BY <2>1, <2>2
<1>11. DraftsMatch'
  BY <1>6, <1>7 DEF DraftsMatch
<1>12. DecisionHasLog'
  BY <1>6, <1>7 DEF DraftsMatch, DecisionHasLog
<1>13. AllOrNothing'
  <2> SUFFICES ASSUME NEW k \in LogIds, NEW s \in Requests, log'[k].row # Absent, log'[k].row.by = s
               PROVE  /\ pc'[s] = "committed"
                      /\ (call'[s].decision = "valid") = (decision'[k].row # Absent)
                      /\ call'[s].decision # "invalid"
    BY DEF AllOrNothing
  <2>1. CASE log[k].owner = r
    <3>1. HeldBy(r, k) /\ log[k].draft # Absent
      BY <2>1, <1>6
    <3>2. RecordedBy(r, k)
      BY <3>1 DEF HeldBy, PurgedBy
    <3> QED
      BY <2>1, <3>2, <1>1, <1>2, <1>6 DEF RecordedBy
  <2>2. CASE log[k].owner # r
    BY <2>2, <1>1, <1>2, <1>7 DEF AllOrNothing
  <2> QED
    BY <2>1, <2>2
<1>14. DoomedOK'
  <2> SUFFICES ASSUME NEW s \in Requests, NEW d \in doomed[s]
               PROVE  /\ pc'[s] = "delete"
                      /\ d[2] \in Requests => pc'[d[2]] = "committed"
                      /\ Stands(d[1], d[2])' => log'[d[1]].row.finished < call'[s].cutoff
    BY <1>1 DEF DoomedOK
  <2>1. s # r /\ (d[2] \in Requests => pc[d[2]] = "committed")
    BY <1>1 DEF DoomedOK
  <2>2. d[1] \in LogIds /\ d[2] # r
    BY <2>1, <1>1, Typed
  <2>3. CASE log[d[1]].owner = r
    <3>1. HeldBy(r, d[1])
      BY <2>2, <2>3, <1>6
    <3>2. log'[d[1]].row = Absent \/ log'[d[1]].row.by = r
      BY <2>2, <2>3, <3>1, <1>6 DEF HeldBy, RecordedBy, PurgedBy
    <3> QED
      BY <2>1, <2>2, <3>2, <1>2 DEF Stands, DoomedOK
  <2>4. CASE log[d[1]].owner # r
    BY <2>1, <2>2, <2>4, <1>1, <1>2, <1>7 DEF DoomedOK, Stands
  <2> QED
    BY <2>3, <2>4
<1>15. CountOK'
  BY <1>1, <1>2 DEF CountOK
<1>16. PurgeBounded'
  BY <1>1, <1>2 DEF PurgeBounded
<1> QED
  BY <1>8, <1>9, <1>10, <1>11, <1>12, <1>13, <1>14, <1>15, <1>16

-----------------------------------------------------------------------------
(* The steps that write.  They keep what is committed.                      *)

RowsKept == \A k \in LogIds : log'[k].row = log[k].row /\ decision'[k].row = decision[k].row

(* What such a step keeps by that alone.                                    *)
LEMMA RowsKeptKeeps ==
    ASSUME IInv, NEW r \in Requests, RowsKept, pc[r] \notin Ended,
           \A s \in Requests \ {r} : pc'[s] = pc[s],
           pc[r] = "delete" => pc'[r] = "delete",
           UNCHANGED call,
           \A s \in Requests : doomed'[s] \subseteq doomed[s]
    PROVE  DecisionHasLog' /\ AllOrNothing' /\ DoomedOK'
<1> USE DEF IInv, RowsKept
<1>1. DecisionHasLog'
  BY DEF DecisionHasLog
<1>2. AllOrNothing'
  BY DEF AllOrNothing, Ended
<1>3. DoomedOK'
  <2> SUFFICES ASSUME NEW s \in Requests, NEW d \in doomed'[s]
               PROVE  /\ pc'[s] = "delete"
                      /\ d[2] \in Requests => pc'[d[2]] = "committed"
                      /\ Stands(d[1], d[2])' => log'[d[1]].row.finished < call'[s].cutoff
    BY DEF DoomedOK
  <2>1. d \in doomed[s] /\ d[1] \in LogIds
    BY Typed
  <2>2. /\ pc[s] = "delete"
        /\ d[2] \in Requests => pc[d[2]] = "committed"
        /\ Stands(d[1], d[2]) => log[d[1]].row.finished < call[s].cutoff
    BY <2>1 DEF DoomedOK
  <2>3. pc'[s] = "delete"
    BY <2>2
  <2>4. d[2] \in Requests => d[2] # r
    BY <2>2 DEF Ended
  <2> QED
    BY <2>1, <2>2, <2>3, <2>4 DEF Stands
<1> QED
  BY <1>1, <1>2, <1>3

LEMMA InsertStep ==
    ASSUME IInv, NEW r \in Requests, Insert(r)
    PROVE  IInv' /\ RowsKept
<1> DEFINE c == call[r]
           k0 == c.id
           row == [finished |-> c.finished, by |-> r]
<1> USE DEF IInv
<1>1. /\ pc[r] = "insert" /\ pc[r] \in InFlight /\ pc[r] \notin Ended
      /\ c.op = "record" /\ c \in Calls /\ k0 \in LogIds /\ row \in LogRows
      /\ c.decision \in {"none", "valid", "invalid"}
  BY CallFields DEF Insert, InFlight, Ended, ControlOK, Recording, LogRows
<1>2. CASE Fail(r, 422) \/ Fail(r, 409)
  BY <1>1, <1>2, FailStep DEF Insert, RowsKept
<1>3. CASE /\ Visible(log, r, k0) = Absent /\ Lockable(log, r, k0)
           /\ log' = Write(log, r, k0, row)
           /\ \/ c.decision = "none" /\ Answer(r, 201)
              \/ c.decision # "none" /\ GoTo(r, "decide") /\ UNCHANGED reply
           /\ UNCHANGED <<decision, doomed, call, deleted>>
  <2>1. SlotOK(k0)
    BY <1>1 DEF SlotsOK
  <2>2. log[k0].owner = NoTxn /\ log[k0].row = Absent
    <3>1. log[k0].owner # r
      BY <1>1, <2>1 DEF SlotOK, HeldBy
    <3> QED
      BY <1>3, <3>1 DEF Visible, Lockable
  <2>3. decision[k0].owner = NoTxn /\ decision[k0].draft = Absent /\ decision[k0].row = Absent
    BY <1>1, <2>1, <2>2, Typed DEF SlotOK, DecisionHasLog
  <2>4. row \in LogRows \cup {Absent} /\ log \in Table(LogIds, LogRows \cup {Absent}, Requests)
    BY <1>1, Typed DEF Logs
  <2>5. /\ log' \in Logs /\ log'[k0].row = Absent /\ log'[k0].draft = row /\ log'[k0].owner = r
        /\ \A k \in LogIds \ {k0} : log'[k] = log[k]
    BY <1>1, <1>3, <2>2, <2>4, WriteEffect DEF Logs
  <2>6. /\ pc' = [pc EXCEPT ![r] = IF c.decision = "none" THEN "commit" ELSE "decide"]
        /\ pc'[r] = IF c.decision = "none" THEN "commit" ELSE "decide"
        /\ \A s \in Requests \ {r} : pc'[s] = pc[s]
    BY <1>3, Typed DEF Answer, GoTo
  <2>7. reply' \in [Requests -> {0, 200, 201, 409, 422, 500}]
    BY <1>3, Typed DEF Answer
  <2>8. UNCHANGED <<decision, doomed, call, deleted>>
    BY <1>3
  <2>9. RowsKept
    BY <2>2, <2>5, <2>8 DEF RowsKept
  <2>a. row # Absent /\ row.by = r /\ row.finished = c.finished
    BY <1>1
  <2> HIDE DEF row
  <2>10. TypeOK'
    BY <2>5, <2>6, <2>7, <2>8 DEF TypeOK, InFlight, Logs
  <2>11. ControlOK'
    <3> SUFFICES ASSUME NEW s \in Requests
                 PROVE  /\ pc'[s] # "idle" => call[s] \in Calls
                        /\ pc'[s] \in Recording => call[s].op = "record"
                        /\ pc'[s] \in Purging => call[s].op = "purge"
                        /\ pc'[s] = "decide" => call[s].decision # "none" /\ log'[call[s].id].owner = s
      BY <2>8 DEF ControlOK
    <3>1. CASE s = r
      BY <3>1, <1>1, <2>5, <2>6 DEF Purging
    <3>2. CASE s # r
      <4>1. pc[s] = "decide" => call[s].id \in LogIds /\ call[s].id # k0
        BY <2>2, CallFields DEF ControlOK, Recording
      <4> QED
        BY <3>2, <4>1, <2>5, <2>6 DEF ControlOK
    <3> QED
      BY <3>1, <3>2
  <2>12. SlotsOK'
    <3> SUFFICES ASSUME NEW k \in LogIds PROVE SlotOK(k)'
      BY DEF SlotsOK
    <3>1. CASE k = k0
      <4>1. RecordedBy(r, k0)'
        BY <1>1, <2>3, <2>5, <2>6, <2>8 DEF RecordedBy, row
      <4>2. HeldBy(r, k0)'
        BY <4>1, <1>1, <2>6, <2>8 DEF HeldBy
      <4> QED
        BY <3>1, <4>2, <2>3, <2>5, <2>8 DEF SlotOK
    <3>2. CASE k # k0
      <4>1. SlotOK(k)
        BY DEF SlotsOK
      <4>2. ASSUME NEW s \in Requests, s = log[k].owner
            PROVE  HeldBy(s, k)'
        <5>1. s # r
          BY <4>1, <4>2, <1>1 DEF SlotOK, HeldBy
        <5> QED
          BY <4>1, <4>2, <5>1, <3>2, <2>5, <2>6, <2>8 DEF SlotOK, HeldBy, RecordedBy, PurgedBy
      <4> QED
        BY <3>2, <4>1, <4>2, <2>5, <2>8 DEF SlotOK
    <3> QED
      BY <3>1, <3>2
  <2>13. DraftsMatch'
    BY <2>3, <2>5, <2>8 DEF DraftsMatch
  <2>14. DecisionHasLog' /\ AllOrNothing' /\ DoomedOK'
    BY <1>1, <2>6, <2>8, <2>9, RowsKeptKeeps
  <2>15. CountOK'
    BY <2>6, <2>8 DEF CountOK
  <2>16. PurgeBounded'
    BY <1>1, <2>6, <2>8 DEF PurgeBounded
  <2> QED
    BY <2>9, <2>10, <2>11, <2>12, <2>13, <2>14, <2>15, <2>16
<1> QED
  BY <1>2, <1>3 DEF Insert

LEMMA RecordDecisionStep ==
    ASSUME IInv, NEW r \in Requests, RecordDecision(r)
    PROVE  IInv' /\ RowsKept
<1> DEFINE c == call[r]
           k0 == c.id
           row == [by |-> r]
<1> USE DEF IInv
<1>1. /\ pc[r] = "decide" /\ pc[r] \in InFlight /\ pc[r] \notin Ended
      /\ c.op = "record" /\ c \in Calls /\ k0 \in LogIds /\ row \in DecisionRows
      /\ log[k0].owner = r
  BY CallFields DEF RecordDecision, InFlight, Ended, ControlOK, Recording, DecisionRows
<1>2. CASE Fail(r, 422)
  BY <1>1, <1>2, FailStep DEF RecordDecision, RowsKept
<1>3. CASE /\ c.decision = "valid"
           /\ decision' = Write(decision, r, k0, row)
           /\ Answer(r, 201)
           /\ UNCHANGED <<log, doomed, call, deleted>>
  <2>1. SlotOK(k0) /\ RecordedBy(r, k0)
    BY <1>1 DEF SlotsOK, SlotOK, HeldBy
  <2>2. row \in DecisionRows \cup {Absent} /\ decision \in Table(LogIds, DecisionRows \cup {Absent}, Requests)
    BY <1>1, Typed DEF Decisions
  <2>3. /\ decision' \in Decisions /\ decision'[k0].row = decision[k0].row
        /\ decision'[k0].draft = row /\ decision'[k0].owner = r
        /\ \A k \in LogIds \ {k0} : decision'[k] = decision[k]
    BY <1>1, <1>3, <2>2, WriteEffect DEF Decisions
  <2>4. pc' = [pc EXCEPT ![r] = "commit"] /\ pc'[r] = "commit" /\ \A s \in Requests \ {r} : pc'[s] = pc[s]
    BY <1>3, Typed DEF Answer, GoTo
  <2>5. reply' \in [Requests -> {0, 200, 201, 409, 422, 500}]
    BY <1>3, Typed DEF Answer
  <2>6. UNCHANGED <<log, doomed, call, deleted>>
    BY <1>3
  <2>7. RowsKept
    BY <2>3, <2>6 DEF RowsKept
  <2>8. row # Absent /\ row.by = r
    BY <1>1
  <2>9. log[k0].draft # Absent /\ log[k0].draft.by = r
    BY <2>1, <1>1, CallFields DEF RecordedBy, LogRows
  <2> HIDE DEF row
  <2>10. TypeOK'
    BY <2>3, <2>4, <2>5, <2>6 DEF TypeOK, InFlight, Decisions
  <2>11. ControlOK'
    BY <1>1, <2>4, <2>6 DEF ControlOK, Recording, Purging
  <2>12. SlotsOK'
    <3> SUFFICES ASSUME NEW k \in LogIds PROVE SlotOK(k)'
      BY DEF SlotsOK
    <3>1. CASE k = k0
      <4>1. RecordedBy(r, k0)'
        BY <1>3, <2>1, <2>3, <2>4, <2>6, <2>8 DEF RecordedBy
      <4>2. HeldBy(r, k0)'
        BY <4>1, <1>1, <2>4, <2>6 DEF HeldBy
      <4> QED
        BY <3>1, <4>2, <1>1, <2>3, <2>6 DEF SlotOK
    <3>2. CASE k # k0
      <4>1. SlotOK(k)
        BY DEF SlotsOK
      <4>2. ASSUME NEW s \in Requests, s = log[k].owner
            PROVE  HeldBy(s, k)'
        <5>1. s # r
          BY <3>2, <4>1, <4>2, <1>1 DEF SlotOK, HeldBy, RecordedBy
        <5> QED
          BY <4>1, <4>2, <5>1, <3>2, <2>3, <2>4, <2>6 DEF SlotOK, HeldBy, RecordedBy, PurgedBy
      <4> QED
        BY <3>2, <4>1, <4>2, <2>3, <2>6 DEF SlotOK
    <3> QED
      BY <3>1, <3>2
  <2>13. DraftsMatch'
    BY <2>3, <2>6, <2>8, <2>9 DEF DraftsMatch
  <2>14. DecisionHasLog' /\ AllOrNothing' /\ DoomedOK'
    BY <1>1, <2>4, <2>6, <2>7, RowsKeptKeeps
  <2>15. CountOK'
    BY <2>4, <2>6 DEF CountOK
  <2>16. PurgeBounded'
    BY <1>1, <2>4, <2>6 DEF PurgeBounded
  <2> QED
    BY <2>7, <2>10, <2>11, <2>12, <2>13, <2>14, <2>15, <2>16
<1> QED
  BY <1>2, <1>3 DEF RecordDecision

LEMMA DeleteRowStep ==
    ASSUME IInv, NEW r \in Requests, NEW id \in LogIds, NEW by \in Requests \cup {NoTxn},
           DeleteRow(r, id, by)
    PROVE  IInv' /\ RowsKept
<1> DEFINE d0 == <<id, by>>
<1> USE DEF IInv
<1>1. /\ pc[r] = "delete" /\ pc[r] \notin Ended /\ d0 \in Reachable(r)
      /\ doomed' = [doomed EXCEPT ![r] = @ \ {d0}]
      /\ log' = IF Stands(id, by) THEN Write(log, r, id, Absent) ELSE log
      /\ decision' = IF Stands(id, by) THEN Write(decision, r, id, Absent) ELSE decision
      /\ deleted' = [deleted EXCEPT ![r] = @ + (IF Stands(id, by) THEN 1 ELSE 0)]
      /\ UNCHANGED <<pc, call, reply>>
  BY DEF DeleteRow, DeleteRowAs, Cascade, RowCount, Ended
<1>2. d0 \in doomed[r] /\ (Stands(id, by) => log[id].owner \in {NoTxn, r})
  BY <1>1 DEF Reachable, Lockable
<1>3. call[r] \in Calls /\ call[r].op = "purge"
  BY <1>1, CallFields DEF ControlOK, Purging
<1>4. /\ doomed'[r] = doomed[r] \ {d0} /\ \A s \in Requests \ {r} : doomed'[s] = doomed[s]
      /\ doomed' \in [Requests -> SUBSET (LogIds \X (Requests \cup {NoTxn}))]
  BY <1>1, Typed
<1>5. /\ deleted'[r] = deleted[r] + (IF Stands(id, by) THEN 1 ELSE 0)
      /\ \A s \in Requests \ {r} : deleted'[s] = deleted[s]
      /\ deleted' \in [Requests -> Nat]
  BY <1>1, Typed
<1>6. CountOK'
  <2>1. IsFiniteSet(doomed[r] \ {d0})
    <3>1. IsFiniteSet(doomed[r])
      BY DEF CountOK
    <3> QED
      BY <3>1, FS_RemoveElement
  <2>2. IsFiniteSet(doomed'[r])
    BY <2>1, <1>4
  <2> QED
    BY <2>2, <1>1, <1>4, <1>5 DEF CountOK
<1>7. PurgeBounded'
  <2>1. Cardinality(doomed'[r]) = Cardinality(doomed[r]) - 1 /\ Cardinality(doomed[r]) \in Nat
    <3>1. IsFiniteSet(doomed[r])
      BY DEF CountOK
    <3>2. Cardinality(doomed[r] \ {d0}) = Cardinality(doomed[r]) - 1
      BY <3>1, <1>2, FS_RemoveElement
    <3> QED
      BY <3>1, <3>2, <1>4, FS_CardinalityType
  <2>2. deleted[r] + Cardinality(doomed[r]) <= call[r].batch /\ call[r].batch \in Nat
    BY <1>1, <1>3, CallFields DEF PurgeBounded
  <2>3. deleted'[r] + Cardinality(doomed'[r]) <= call[r].batch
    BY <2>1, <2>2, <1>5, Typed
  <2> QED
    BY <2>3, <1>1, <1>4, <1>5 DEF PurgeBounded
<1>8. CASE ~ Stands(id, by)
  <2>1. log' = log /\ decision' = decision
    BY <1>1, <1>8
  <2>2. RowsKept
    BY <2>1 DEF RowsKept
  <2>3. TypeOK'
    BY <2>1, <1>1, <1>4, <1>5 DEF TypeOK
  <2>4. ControlOK' /\ DraftsMatch'
    BY <2>1, <1>1 DEF ControlOK, DraftsMatch
  <2>5. SlotsOK'
    BY <2>1, <1>1 DEF SlotsOK, SlotOK, HeldBy, RecordedBy, PurgedBy
  <2>6. DecisionHasLog' /\ AllOrNothing' /\ DoomedOK'
    BY <1>1, <1>4, <2>2, RowsKeptKeeps
  <2> QED
    BY <2>2, <2>3, <2>4, <2>5, <2>6, <1>6, <1>7
<1>9. CASE Stands(id, by)
  <2>1. SlotOK(id)
    BY DEF SlotsOK
  <2>2. decision[id].owner \in {NoTxn, r}
    BY <2>1, <1>2, <1>9, Typed DEF SlotOK
  <2>3. /\ Absent \in LogRows \cup {Absent} /\ Absent \in DecisionRows \cup {Absent}
        /\ log \in Table(LogIds, LogRows \cup {Absent}, Requests)
        /\ decision \in Table(LogIds, DecisionRows \cup {Absent}, Requests)
    BY Typed DEF Logs, Decisions
  <2>4. /\ log' \in Logs /\ log'[id].row = log[id].row /\ log'[id].draft = Absent /\ log'[id].owner = r
        /\ \A k \in LogIds \ {id} : log'[k] = log[k]
    BY <1>1, <1>9, <2>3, WriteEffect DEF Logs
  <2>5. /\ decision' \in Decisions /\ decision'[id].row = decision[id].row
        /\ decision'[id].draft = Absent /\ decision'[id].owner = r
        /\ \A k \in LogIds \ {id} : decision'[k] = decision[k]
    BY <1>1, <1>9, <2>3, WriteEffect DEF Decisions
  <2>6. RowsKept
    BY <2>4, <2>5 DEF RowsKept
  <2>7. log[id].row # Absent /\ log[id].row.finished < call[r].cutoff
    BY <1>2, <1>9 DEF DoomedOK, Stands
  <2>8. TypeOK'
    BY <2>4, <2>5, <1>1, <1>4, <1>5 DEF TypeOK, Logs, Decisions
  <2>9. ControlOK'
    <3> SUFFICES ASSUME NEW s \in Requests, pc[s] = "decide"
                 PROVE  log'[call[s].id].owner = s
      BY <1>1 DEF ControlOK
    <3>1. call[s].id \in LogIds /\ log[call[s].id].owner = s /\ s # r
      BY <1>1, CallFields DEF ControlOK, Recording
    <3>2. call[s].id # id
      BY <3>1, <1>2, <1>9
    <3> QED
      BY <3>1, <3>2, <2>4
  <2>10. SlotsOK'
    <3> SUFFICES ASSUME NEW k \in LogIds PROVE SlotOK(k)'
      BY DEF SlotsOK
    <3>1. CASE k = id
      <4>1. HeldBy(r, id)'
        BY <1>1, <1>3, <2>4, <2>5, <2>7 DEF HeldBy, PurgedBy
      <4> QED
        BY <3>1, <4>1, <2>4, <2>5 DEF SlotOK
    <3>2. CASE k # id
      <4>1. SlotOK(k)
        BY DEF SlotsOK
      <4>2. ASSUME NEW s \in Requests, s = log[k].owner
            PROVE  HeldBy(s, k)'
        BY <3>2, <4>1, <4>2, <2>4, <2>5, <1>1 DEF SlotOK, HeldBy, RecordedBy, PurgedBy
      <4> QED
        BY <3>2, <4>1, <4>2, <2>4, <2>5 DEF SlotOK
    <3> QED
      BY <3>1, <3>2
  <2>11. DraftsMatch'
    BY <2>4, <2>5 DEF DraftsMatch
  <2>12. DecisionHasLog' /\ AllOrNothing' /\ DoomedOK'
    BY <1>1, <1>4, <2>6, RowsKeptKeeps
  <2> QED
    BY <2>6, <2>8, <2>9, <2>10, <2>11, <2>12, <1>6, <1>7
<1> QED
  BY <1>8, <1>9

-----------------------------------------------------------------------------
(* The steps that do not write.                                             *)

(* Only a DELETE under way has rows before it.                              *)
LEMMA NothingDoomed ==
    ASSUME IInv, NEW r \in Requests, pc[r] # "delete"
    PROVE  doomed[r] = {} /\ IsFiniteSet(doomed[r]) /\ Cardinality(doomed[r]) = 0
<1>1. doomed[r] = {}
  BY DEF IInv, DoomedOK
<1> QED
  BY <1>1, FS_EmptySet

LEMMA ArriveStep ==
    ASSUME IInv, NEW r \in Requests, Arrive(r)
    PROVE  IInv' /\ RowsKept
<1> PICK c \in Calls : Begin(r, c)
  BY DEF Arrive
<1> DEFINE label == IF c.op = "record" THEN "find" ELSE "select"
<1>1. /\ pc[r] = "idle" /\ call' = [call EXCEPT ![r] = c] /\ GoTo(r, label)
      /\ UNCHANGED <<log, decision, doomed, deleted, reply>>
  BY DEF Begin
<1>2. c.op \in {"record", "purge"}
  BY DEF Calls
<1>3. /\ label \in InFlight /\ label \notin {"decide", "commit", "delete"}
      /\ label \in Recording => c.op = "record"
      /\ label \in Purging \cup {"commit"} => c.op = "purge"
  BY <1>2 DEF InFlight, Recording, Purging
<1> HIDE DEF label
<1>4. /\ call' \in [Requests -> Calls \cup {NoCall}] /\ call'[r] = c
      /\ \A s \in Requests \ {r} : call'[s] = call[s]
  BY <1>1, Typed
<1>5. deleted[r] = 0
  BY <1>1 DEF IInv, CountOK
<1>6. IInv'
  BY <1>1, <1>3, <1>4, <1>5, NothingDoomed, MoveStep, Typed DEF OldEnough
<1> QED
  BY <1>1, <1>6 DEF RowsKept

LEMMA FindStep ==
    ASSUME IInv, NEW r \in Requests, Find(r)
    PROVE  IInv' /\ RowsKept
<1>1. /\ pc[r] = "find" /\ pc[r] \in InFlight /\ call[r] \in Calls /\ call[r].op = "record"
      /\ UNCHANGED <<call, deleted>>
  BY DEF Find, InFlight, IInv, ControlOK, Recording
<1>2. CASE Fail(r, 422) \/ Fail(r, 409)
  BY <1>1, <1>2, FailStep DEF RowsKept
<1>3. CASE GoTo(r, "insert") /\ UNCHANGED <<log, decision, doomed, reply>>
  <2>1. "insert" \in InFlight /\ "insert" \notin Purging
    BY DEF InFlight, Purging
  <2>2. IInv'
    BY <1>1, <1>3, <2>1, NothingDoomed, MoveStep, Typed DEF OldEnough
  <2> QED
    BY <2>2, <1>3 DEF RowsKept
<1> QED
  BY <1>2, <1>3 DEF Find

LEMMA SelectStep ==
    ASSUME IInv, NEW r \in Requests, Select(r)
    PROVE  IInv' /\ RowsKept
<1> DEFINE row(k) == Visible(log, r, k)
           old    == {k \in LogIds : row(k) # Absent /\ row(k).finished < call[r].cutoff}
<1> PICK ids \in SUBSET old :
       /\ Cardinality(ids) <= call[r].batch
       /\ doomed' = [doomed EXCEPT ![r] = {<<k, row(k).by>> : k \in ids}]
  BY DEF Select
<1> DEFINE found == {<<k, row(k).by>> : k \in ids}
<1>1. /\ pc[r] = "select" /\ GoTo(r, "delete") /\ doomed' = [doomed EXCEPT ![r] = found]
      /\ UNCHANGED <<log, decision, call, deleted, reply>>
  BY DEF Select
<1>2. call[r] \in Calls /\ call[r].op = "purge" /\ call[r].batch \in Nat /\ deleted[r] = 0
  BY <1>1, CallFields DEF IInv, ControlOK, Purging, CountOK
<1>3. \A k \in LogIds : row(k) = log[k].row
  BY <1>1, <1>2 DEF Visible, IInv, SlotsOK, SlotOK, HeldBy
<1>4. \A k \in ids : /\ k \in LogIds /\ log[k].row # Absent /\ log[k].row.finished < call[r].cutoff
                     /\ row(k) = log[k].row
  BY <1>3
<1>5. IsFiniteSet(found) /\ Cardinality(found) <= Cardinality(ids) /\ IsFiniteSet(ids)
  <2>1. IsFiniteSet(ids)
    BY <1>4, FiniteAssumption, FS_Subset
  <2> DEFINE f == [k \in ids |-> <<k, row(k).by>>]
  <2>2. f \in Surjection(ids, found)
    BY DEF Surjection
  <2> HIDE DEF f, found
  <2> QED
    BY <2>1, <2>2, FS_Surjection
<1>6. \A k \in ids : log[k].row.by \in Requests \cup {NoTxn}
                     /\ (log[k].row.by \in Requests => pc[log[k].row.by] = "committed")
  BY <1>4, Typed DEF IInv, AllOrNothing, LogRows
<1>7. \A d \in found : /\ d \in LogIds \X (Requests \cup {NoTxn})
                       /\ d[2] \in Requests => pc[d[2]] = "committed"
                       /\ Stands(d[1], d[2]) => log[d[1]].row.finished < call[r].cutoff
  BY <1>4, <1>6
<1>8. deleted[r] + Cardinality(found) <= call[r].batch
  BY <1>2, <1>5, FS_CardinalityType
<1> HIDE DEF found
<1>9. /\ doomed' \in [Requests -> SUBSET (LogIds \X (Requests \cup {NoTxn}))] /\ doomed'[r] = found
      /\ \A s \in Requests \ {r} : doomed'[s] = doomed[s]
  BY <1>1, <1>7, Typed
<1>10. "delete" \in InFlight /\ "delete" \notin Recording
  BY DEF InFlight, Recording
<1> HIDE DEF old, row
<1>11. /\ IsFiniteSet(doomed'[r]) /\ deleted'[r] + Cardinality(doomed'[r]) <= call'[r].batch
       /\ OldEnough(doomed'[r], call'[r].cutoff)
  BY <1>1, <1>5, <1>7, <1>8, <1>9 DEF OldEnough
<1>12. /\ call' \in [Requests -> Calls \cup {NoCall}] /\ deleted' \in [Requests -> Nat]
       /\ reply' \in [Requests -> {0, 200, 201, 409, 422, 500}]
       /\ call' = call /\ deleted' = deleted /\ UNCHANGED <<log, decision>>
  BY <1>1, Typed
<1> DEFINE label == "delete"
<1>13. /\ label \in InFlight /\ label = "delete" /\ GoTo(r, label) /\ pc[r] = "select"
       /\ label \notin Recording
  BY <1>1, <1>10
<1>14. /\ call'[r] = call[r] /\ call[r] \in Calls /\ call[r].op = "purge"
       /\ doomed' \in [Requests -> SUBSET (LogIds \X (Requests \cup {NoTxn}))]
       /\ \A s \in Requests \ {r} :
             call'[s] = call[s] /\ doomed'[s] = doomed[s] /\ deleted'[s] = deleted[s]
  BY <1>2, <1>9, <1>12
<1> HIDE DEF label
<1>15. IInv'
  BY <1>11, <1>12, <1>13, <1>14, MoveStep
<1> QED
  BY <1>1, <1>15 DEF RowsKept

LEMMA DeleteDoneStep ==
    ASSUME IInv, NEW r \in Requests, DeleteDone(r)
    PROVE  IInv' /\ RowsKept
<1>1. /\ pc[r] = "delete" /\ doomed[r] = {} /\ GoTo(r, "commit")
      /\ reply' = [reply EXCEPT ![r] = 200]
      /\ UNCHANGED <<log, decision, call, doomed, deleted>>
  BY DEF DeleteDone, Answer
<1>2. call[r] \in Calls /\ call[r].op = "purge"
  BY <1>1, CallFields DEF IInv, ControlOK, Purging
<1>3. deleted[r] + Cardinality(doomed[r]) <= call[r].batch /\ IsFiniteSet(doomed[r])
  BY <1>1, <1>2 DEF IInv, PurgeBounded, CountOK
<1>4. "commit" \in InFlight /\ "commit" \notin Recording
  BY DEF InFlight, Recording
<1>5. reply' \in [Requests -> {0, 200, 201, 409, 422, 500}]
  BY <1>1, Typed
<1>6. IInv'
  BY <1>1, <1>2, <1>3, <1>4, <1>5, MoveStep, Typed DEF OldEnough
<1> QED
  BY <1>1, <1>6 DEF RowsKept

LEMMA AbortStep ==
    ASSUME IInv, NEW r \in Requests, LockWaitAborted(r) \/ Aborted(r)
    PROVE  IInv' /\ RowsKept
<1>1. pc[r] \in InFlight /\ UNCHANGED <<call, deleted>>
  BY DEF LockWaitAborted, Aborted, Blocked, InFlight
<1>2. PICK code \in {0, 200, 201, 409, 422, 500} : Fail(r, code)
  BY Typed DEF LockWaitAborted, Aborted
<1> QED
  BY <1>1, <1>2, FailStep DEF RowsKept

-----------------------------------------------------------------------------
LEMMA StutterStep == IInv /\ UNCHANGED vars => IInv' /\ RowsKept
<1> SUFFICES ASSUME IInv, UNCHANGED vars PROVE IInv' /\ RowsKept
  OBVIOUS
<1> USE DEF vars, IInv
<1>1. TypeOK' /\ ControlOK'
  BY DEF TypeOK, ControlOK
<1>2. SlotsOK' /\ DraftsMatch'
  BY DEF SlotsOK, SlotOK, HeldBy, RecordedBy, PurgedBy, DraftsMatch
<1>3. DecisionHasLog' /\ AllOrNothing'
  BY DEF DecisionHasLog, AllOrNothing
<1>4. DoomedOK' /\ CountOK' /\ PurgeBounded'
  BY DEF DoomedOK, Stands, CountOK, PurgeBounded
<1> QED
  BY <1>1, <1>2, <1>3, <1>4 DEF RowsKept

(* Every step keeps the invariant, and all but a commit what is committed.  *)
LEMMA NextInv ==
    ASSUME IInv, [Next]_vars
    PROVE  IInv' /\ (RowsKept \/ \E r \in Requests : Commit(r))
<1>1. CASE UNCHANGED vars
  BY <1>1, StutterStep
<1>2. ASSUME NEW r \in Requests, Arrive(r)
      PROVE  IInv' /\ RowsKept
  BY <1>2, ArriveStep
<1>3. ASSUME NEW r \in Requests, Step(r)
      PROVE  IInv' /\ (RowsKept \/ Commit(r))
  <2>1. CASE Find(r) \/ Insert(r) \/ RecordDecision(r)
    BY <2>1, FindStep, InsertStep, RecordDecisionStep
  <2>2. CASE Select(r) \/ DeleteDone(r)
    BY <2>2, SelectStep, DeleteDoneStep
  <2>3. CASE \E id \in LogIds, by \in Requests \cup {NoTxn} : DeleteRow(r, id, by)
    BY <2>3, DeleteRowStep
  <2>4. CASE Commit(r)
    BY <2>4, CommitStep
  <2>5. CASE LockWaitAborted(r)
    BY <2>5, AbortStep
  <2> QED
    BY <1>3, <2>1, <2>2, <2>3, <2>4, <2>5 DEF Step
<1>4. ASSUME NEW r \in Requests, Aborted(r)
      PROVE  IInv' /\ RowsKept
  BY <1>4, AbortStep
<1> QED
  BY <1>1, <1>2, <1>3, <1>4 DEF Next, Done

LEMMA SpecInv == Spec => []IInv
<1>1. Init => IInv
  BY InitInv
<1>2. IInv /\ [Next]_vars => IInv'
  BY NextInv
<1> QED
  BY <1>1, <1>2, PTL DEF Spec

(* Every state is well formed.                                              *)
THEOREM TypeCorrect == Spec => []TypeOK
<1>1. IInv => TypeOK
  BY DEF IInv
<1> QED
  BY <1>1, SpecInv, PTL

(* No routing decision outlives its record (the CASCADE), however purges    *)
(* and records of the same id interleave.                                   *)
THEOREM DecisionsKeepTheirLog == Spec => []DecisionHasLog
<1>1. IInv => DecisionHasLog
  BY DEF IInv
<1> QED
  BY <1>1, SpecInv, PTL

(* What RequestLogService.record leaves is the record with its decision, or *)
(* nothing.                                                                 *)
THEOREM RecordsAreWhole == Spec => []AllOrNothing
<1>1. IInv => AllOrNothing
  BY DEF IInv
<1> QED
  BY <1>1, SpecInv, PTL

(* No purge deletes more than its batch.                                    *)
THEOREM PurgesKeepTheirLimit == Spec => []PurgeBounded
<1>1. IInv => PurgeBounded
  BY DEF IInv
<1> QED
  BY <1>1, SpecInv, PTL

-----------------------------------------------------------------------------
(* Conflicts.                                                               *)

(* Nobody who looks for an id, or is about to insert it, holds it.          *)
LEMMA FoundIsThere ==
    ASSUME IInv, NEW r \in Requests, pc[r] \in {"find", "insert"},
           Visible(log, r, call[r].id) # Absent
    PROVE  log[call[r].id].row # Absent
<1>1. call[r].id \in LogIds
  BY CallFields DEF IInv, ControlOK, Recording
<1>2. log[call[r].id].owner # r
  BY <1>1 DEF IInv, SlotsOK, SlotOK, HeldBy
<1> QED
  BY <1>2 DEF Visible

LEMMA ConflictStep ==
    ASSUME IInv, [Next]_vars, NEW r \in Requests, reply'[r] = 409, reply[r] # 409
    PROVE  log[call[r].id].row # Absent
<1>1. reply' # reply
  OBVIOUS
<1>2. ASSUME NEW s \in Requests, Find(s) \/ Insert(s)
      PROVE  log[call[r].id].row # Absent
  <2>1. PICK code \in {201, 422, 409} : reply' = [reply EXCEPT ![s] = code]
    BY <1>1, <1>2 DEF Find, Insert, Fail, Answer
  <2>2. s = r /\ code = 409
    BY <2>1, Typed
  <2>3. reply'[r] = 409 /\ ~ Answer(r, 201) /\ ~ Fail(r, 422)
    BY <2>2, Typed DEF Answer, Fail
  <2>4. pc[r] \in {"find", "insert"} /\ Visible(log, r, call[r].id) # Absent
    BY <1>1, <1>2, <2>2, <2>3 DEF Find, Insert
  <2> QED
    BY <2>4, FoundIsThere
<1>3. ASSUME NEW s \in Requests, RecordDecision(s) \/ DeleteDone(s)
      PROVE  FALSE
  <2>1. PICK code \in {201, 422, 200} : reply' = [reply EXCEPT ![s] = code]
    BY <1>3 DEF RecordDecision, DeleteDone, Fail, Answer
  <2> QED
    BY <2>1, Typed
<1>4. ASSUME NEW s \in Requests, LockWaitAborted(s) \/ Aborted(s)
      PROVE  FALSE
  <2>1. PICK code \in {500, reply[s]} : reply' = [reply EXCEPT ![s] = code]
    BY <1>4 DEF LockWaitAborted, Aborted, Fail
  <2> QED
    BY <2>1, Typed
<1>5. ASSUME NEW s \in Requests, Arrive(s) \/ Select(s) \/ Commit(s)
      PROVE  FALSE
  BY <1>1, <1>5 DEF Arrive, Begin, Select, Commit
<1>6. ASSUME NEW s \in Requests, \E id \in LogIds, by \in Requests \cup {NoTxn} : DeleteRow(s, id, by)
      PROVE  FALSE
  BY <1>1, <1>6 DEF DeleteRow, DeleteRowAs
<1> QED
  BY <1>1, <1>2, <1>3, <1>4, <1>5, <1>6 DEF Next, Step, Done, vars

(* A conflict is answered only for an id that has a record.                 *)
THEOREM ConflictsAreReal == Spec => ConflictIsReal
<1>1. IInv /\ [Next]_vars =>
         [\A r \in Requests : reply'[r] = 409 /\ reply[r] # 409
             => log[call[r].id].row # Absent]_vars
  BY ConflictStep
<1> QED
  BY <1>1, SpecInv, PTL DEF Spec, ConflictIsReal

-----------------------------------------------------------------------------
(* The refinement: a commit of a record is Record, one of a purge is Purge, *)
(* and every other step leaves the ledger as it is.                         *)

Entries == [k \in LogIds |-> LedgerEntry(k)]

LEMMA InitRefines == Init => Ledger!LedgerInit
<1> SUFFICES ASSUME Init PROVE Entries \in [LogIds -> Ledger!Entries \cup {Absent}]
  BY DEF Ledger!LedgerInit, Entries
<1>1. IInv
  BY InitInv
<1>2. \A k \in LogIds : LedgerEntry(k) \in Ledger!Entries \cup {Absent}
  BY <1>1, Typed DEF LedgerEntry, Ledger!Entries, LogRows
<1> QED
  BY <1>2 DEF Entries

LEMMA KeptEntries == RowsKept => Entries' = Entries
  BY DEF RowsKept, Entries, LedgerEntry

LEMMA CommitRefines ==
    ASSUME IInv, NEW r \in Requests, Commit(r)
    PROVE  Ledger!LedgerNext \/ Entries' = Entries
<1>1. /\ log' = Committed(log, r) /\ decision' = Committed(decision, r) /\ pc[r] = "commit"
  BY DEF Commit
<1>2. \A k \in LogIds : SlotOK(k)
  BY DEF IInv, SlotsOK
<1>3. \A k \in LogIds :
         IF log[k].owner = r
         THEN log'[k].row = log[k].draft /\ decision'[k].row = decision[k].draft /\ HeldBy(r, k)
         ELSE log'[k].row = log[k].row /\ decision'[k].row = decision[k].row
  <2>1. \A k \in LogIds : log'[k].row = IF log[k].owner = r THEN log[k].draft ELSE log[k].row
    BY <1>1, Typed, CommittedEffect DEF Logs
  <2>2. \A k \in LogIds :
           decision'[k].row = IF decision[k].owner = r THEN decision[k].draft ELSE decision[k].row
    BY <1>1, Typed, CommittedEffect DEF Decisions
  <2> QED
    BY <1>2, <2>1, <2>2, Typed DEF SlotOK
<1>4. call[r] \in Calls /\ call[r].op \in {"record", "purge"}
  BY <1>1, CallFields
<1>5. CASE call[r].op = "record"
  <2> PICK k0 \in LogIds : k0 = call[r].id
    BY <1>1, <1>5, CallFields
  <2>1. k0 \in LogIds
    OBVIOUS
  <2>2. \A k \in LogIds \ {k0} : log'[k].row = log[k].row /\ decision'[k].row = decision[k].row
    BY <1>3, <1>5 DEF HeldBy, RecordedBy
  <2>3. CASE log[k0].owner = r
    <3>1. RecordedBy(r, k0)
      BY <1>3, <1>5, <2>1, <2>3 DEF HeldBy
    <3>2. log[k0].row = Absent /\ log'[k0].row \in LogRows
      BY <3>1, <1>3, <2>1, <2>3, <1>1, CallFields, <1>5 DEF RecordedBy, LogRows
    <3>3. LedgerEntry(k0) = Absent /\ LedgerEntry(k0)' \in Ledger!Entries
      BY <3>2 DEF LedgerEntry, Ledger!Entries, LogRows
    <3>4. Entries' = [Entries EXCEPT ![k0] = LedgerEntry(k0)']
      BY <2>1, <2>2 DEF Entries, LedgerEntry
    <3>5. Ledger!Record(k0, LedgerEntry(k0)')
      BY <2>1, <3>3, <3>4 DEF Ledger!Record, Entries
    <3> QED
      BY <2>1, <3>3, <3>5 DEF Ledger!LedgerNext
  <2>4. CASE log[k0].owner # r
    <3>1. RowsKept
      BY <1>3, <2>2, <2>4 DEF RowsKept
    <3> QED
      BY <3>1, KeptEntries
  <2> QED
    BY <2>3, <2>4
<1>6. CASE call[r].op = "purge"
  <2> DEFINE ids == {k \in LogIds : log[k].owner = r}
             cutoff == call[r].cutoff
  <2>1. cutoff \in Times /\ ids \in SUBSET LogIds
    BY <1>1, <1>6, CallFields
  <2>2. \A k \in ids : PurgedBy(r, k) /\ log'[k].row = Absent
    BY <1>3, <1>6 DEF HeldBy, PurgedBy
  <2>3. \A k \in ids : LedgerEntry(k) # Absent /\ LedgerEntry(k).finished < cutoff
    <3> SUFFICES ASSUME NEW k \in ids
                 PROVE  LedgerEntry(k) # Absent /\ LedgerEntry(k).finished < cutoff
      OBVIOUS
    <3>1. log[k].row # Absent /\ log[k].row.finished < cutoff /\ log[k].row \in LogRows
      BY <2>2, Typed DEF PurgedBy
    <3>2. LedgerEntry(k) \in Ledger!Entries /\ LedgerEntry(k).finished = log[k].row.finished
      BY <3>1 DEF LedgerEntry, Ledger!Entries, LogRows
    <3> QED
      BY <3>1, <3>2, EntryAssumption
  <2>4. Entries' = [k \in LogIds |-> IF k \in ids THEN Absent ELSE Entries[k]]
    <3>1. \A k \in LogIds : LedgerEntry(k)' = IF k \in ids THEN Absent ELSE LedgerEntry(k)
      BY <1>3, <2>2 DEF LedgerEntry
    <3> QED
      BY <3>1 DEF Entries
  <2>5. Ledger!Purge(cutoff, ids)
    BY <2>3, <2>4 DEF Ledger!Purge, Entries
  <2> HIDE DEF ids, cutoff
  <2> QED
    BY <2>1, <2>5 DEF Ledger!LedgerNext
<1> QED
  BY <1>4, <1>5, <1>6

(* To its readers the request log is the ledger.                            *)
THEOREM LogImplementsLedger == Spec => ImplementsLedger
<1>1. Init => Ledger!LedgerInit
  BY InitRefines
<1>2. IInv /\ [Next]_vars => [Ledger!LedgerNext]_Entries
  BY NextInv, KeptEntries, CommitRefines
<1> QED
  BY <1>1, <1>2, SpecInv, PTL DEF Spec, ImplementsLedger, Ledger!LedgerSpec, Entries

-----------------------------------------------------------------------------
(* The counts of the purges.                                                *)

(* The rows at the end of a step are of the types that Typed names.         *)
LEMMA TypedNext ==
    ASSUME IInv'
    PROVE  doomed' \in [Requests -> SUBSET (LogIds \X (Requests \cup {NoTxn}))]
  BY DEF IInv, TypeOK

(* What one purge has counted, as pairs.                                    *)
LEMMA PairsOfOne ==
    ASSUME NEW r, NEW n \in Nat
    PROVE  IsFiniteSet({r} \X (1 .. n)) /\ Cardinality({r} \X (1 .. n)) = n
<1>1. IsFiniteSet({r}) /\ Cardinality({r}) = 1
  BY FS_Singleton
<1>2. IsFiniteSet(1 .. n) /\ Cardinality(1 .. n) = n
  BY FS_Interval
<1>3. /\ IsFiniteSet({r} \X (1 .. n))
      /\ Cardinality({r} \X (1 .. n)) = Cardinality({r}) * Cardinality(1 .. n)
  BY <1>1, <1>2, FS_Product
<1>4. Cardinality({r} \X (1 .. n)) = 1 * n
  BY <1>1, <1>2, <1>3, Zenon
<1> QED
  BY <1>3, <1>4

(* A step of r leaves alone what s is, counts and holds.                    *)
Leaves(s) ==
    /\ pc'[s] = pc[s] /\ call'[s] = call[s] /\ deleted'[s] = deleted[s]
    /\ doomed'[s] = doomed[s]
    /\ \A k \in LogIds : /\ log'[k].owner = s <=> log[k].owner = s
                         /\ log[k].owner = s => log'[k].row = log[k].row

LEMMA LeavesTally ==
    ASSUME IInv, NEW s \in Requests, TallyOf(s), Leaves(s)
    PROVE  TallyOf(s)'
<1>1. Held(s)' = Held(s)
  BY DEF Held, Leaves
<1>2. pc[s] = "commit" /\ call[s].op = "record" => call[s].id \in LogIds
  BY CallFields
<1>3. \A d \in doomed[s] : d[1] \in LogIds
  BY Typed
<1>4. (pc[s] = "commit" /\ call[s].op = "record" => log[call[s].id].owner = s)'
  BY <1>2 DEF TallyOf, Leaves
<1>5. (\A d \in doomed[s] : Stands(d[1], d[2]) => log[d[1]].owner # s)'
  BY <1>3 DEF TallyOf, Leaves, Stands
<1> QED
  BY <1>1, <1>4, <1>5 DEF TallyOf, Leaves

(* As long as nobody commits, the sums stay what they are.                  *)
LEMMA KeptSums ==
    ASSUME IInv, TallyOK, RowsKept, NEW r \in Requests,
           pc[r] \notin Ended, pc'[r] # "committed",
           \A s \in Requests \ {r} : Leaves(s)
    PROVE  IsFiniteSet(Recorded)' /\ IsFiniteSet(Deletions)' /\ PurgesCounted'
<1>1. Purges' = Purges /\ Recorded' = Recorded
  BY DEF Purges, Recorded, Leaves, Ended
<1>2. Present' = Present
  BY DEF Present, RowsKept
<1>3. \A s \in Purges : deleted'[s] = deleted[s]
  BY DEF Purges, Leaves, Ended
<1>4. Deletions' = Deletions
  BY <1>1, <1>3 DEF Deletions
<1> QED
  BY <1>1, <1>2, <1>4 DEF TallyOK, PurgesCounted

LEMMA KeptTally ==
    ASSUME IInv, TallyOK, RowsKept, NEW r \in Requests,
           pc[r] \notin Ended, pc'[r] # "committed",
           \A s \in Requests \ {r} : Leaves(s), TallyOf(r)'
    PROVE  TallyOK'
<1>1. \A s \in Requests \ {r} : TallyOf(s)'
  BY LeavesTally DEF TallyOK
<1> QED
  BY <1>1, KeptSums DEF TallyOK

(* A rollback leaves others theirs.                                         *)
LEMMA FailTally ==
    ASSUME IInv, TallyOK, RowsKept, NEW r \in Requests, pc[r] \in InFlight,
           NEW code \in {0, 200, 201, 409, 422, 500}, Fail(r, code), UNCHANGED <<call, deleted>>
    PROVE  TallyOK'
<1>1. /\ pc' = [pc EXCEPT ![r] = "rolledBack"] /\ log' = RolledBack(log, r)
      /\ doomed' = [doomed EXCEPT ![r] = {}]
  BY DEF Fail, GoTo
<1>2. /\ pc'[r] = "rolledBack" /\ doomed'[r] = {}
      /\ \A s \in Requests \ {r} : pc'[s] = pc[s] /\ doomed'[s] = doomed[s]
  BY <1>1, Typed
<1>3. \A k \in LogIds : IF log[k].owner = r THEN log'[k].owner = NoTxn /\ log'[k].row = log[k].row
                        ELSE log'[k] = log[k]
  BY <1>1, Typed, RolledBackEffect DEF Logs
<1>4. \A s \in Requests \ {r} : Leaves(s)
  BY <1>2, <1>3 DEF Leaves
<1>5. TallyOf(r)'
  BY <1>2 DEF TallyOf
<1>6. pc[r] \notin Ended /\ pc'[r] # "committed"
  BY <1>2 DEF InFlight, Ended
<1> QED
  BY <1>4, <1>5, <1>6, KeptTally

(* Nor does a step that writes nothing.                                     *)
LEMMA QuietTally ==
    ASSUME IInv, TallyOK, NEW r \in Requests, NEW label \in InFlight,
           pc[r] \notin Ended, GoTo(r, label), UNCHANGED <<log, decision>>,
           \A s \in Requests \ {r} :
               call'[s] = call[s] /\ deleted'[s] = deleted[s] /\ doomed'[s] = doomed[s],
           TallyOf(r)'
    PROVE  TallyOK'
<1>1. pc'[r] = label /\ \A s \in Requests \ {r} : pc'[s] = pc[s]
  BY Typed DEF GoTo
<1>2. \A s \in Requests \ {r} : Leaves(s)
  BY <1>1 DEF Leaves
<1>3. RowsKept /\ pc'[r] # "committed"
  BY <1>1 DEF RowsKept, InFlight
<1> QED
  BY <1>2, <1>3, KeptTally

(* Before it has written, a request holds nothing.                          *)
LEMMA HoldsNothing ==
    ASSUME IInv, NEW r \in Requests, pc[r] \in {"idle", "find", "insert", "select"}
    PROVE  \A k \in LogIds : log[k].owner # r
  BY DEF IInv, SlotsOK, SlotOK, HeldBy

LEMMA BeforeTally ==
    ASSUME IInv, TallyOK, NEW r \in Requests, Arrive(r) \/ Find(r)
    PROVE  TallyOK'
<1>1. CASE Arrive(r)
  <2> PICK c \in Calls : Begin(r, c)
    BY <1>1 DEF Arrive
  <2>1. PICK label \in {"find", "select"} : GoTo(r, label)
    BY DEF Begin
  <2>2. /\ pc[r] = "idle" /\ call' = [call EXCEPT ![r] = c]
        /\ UNCHANGED <<log, decision, doomed, deleted>>
    BY DEF Begin
  <2>3. pc'[r] = label /\ doomed'[r] = {}
    BY <2>1, <2>2, Typed, NothingDoomed DEF GoTo
  <2>4. TallyOf(r)'
    BY <2>3 DEF TallyOf
  <2>5. label \in InFlight /\ pc[r] \notin Ended
    BY <2>2 DEF InFlight, Ended
  <2>6. \A s \in Requests \ {r} :
           call'[s] = call[s] /\ deleted'[s] = deleted[s] /\ doomed'[s] = doomed[s]
    BY <2>2, Typed
  <2> QED
    BY <2>1, <2>2, <2>4, <2>5, <2>6, QuietTally
<1>2. CASE Find(r)
  <2>1. pc[r] = "find" /\ pc[r] \in InFlight /\ pc[r] \notin Ended /\ UNCHANGED <<call, deleted>>
    BY <1>2 DEF Find, InFlight, Ended
  <2>2. CASE Fail(r, 422) \/ Fail(r, 409)
    BY <1>2, <2>1, <2>2, FindStep, FailTally
  <2>3. CASE GoTo(r, "insert") /\ UNCHANGED <<log, decision, doomed, reply>>
    <3>1. pc'[r] = "insert" /\ doomed'[r] = {}
      BY <2>1, <2>3, Typed, NothingDoomed DEF GoTo
    <3>2. TallyOf(r)'
      BY <3>1 DEF TallyOf
    <3>3. "insert" \in InFlight
      BY DEF InFlight
    <3> QED
      BY <2>1, <2>3, <3>2, <3>3, QuietTally
  <2> QED
    BY <1>2, <2>2, <2>3 DEF Find
<1> QED
  BY <1>1, <1>2

LEMMA InsertTally ==
    ASSUME IInv, TallyOK, NEW r \in Requests, Insert(r)
    PROVE  TallyOK'
<1> PICK k0 \in LogIds : k0 = call[r].id
  BY CallFields DEF IInv, ControlOK, Recording, Insert
<1>1. /\ pc[r] = "insert" /\ pc[r] \in InFlight /\ pc[r] \notin Ended
      /\ UNCHANGED <<call, deleted>> /\ RowsKept /\ Lockable(log, r, k0)
  BY InsertStep DEF Insert, InFlight, Ended
<1>2. CASE Fail(r, 422) \/ Fail(r, 409)
  BY <1>1, <1>2, FailTally
<1>3. ASSUME NEW row \in LogRows, NEW label \in {"commit", "decide"},
             log' = Write(log, r, k0, row), GoTo(r, label), UNCHANGED doomed
      PROVE  TallyOK'
  <2>1. pc'[r] = label /\ doomed'[r] = {} /\ \A s \in Requests \ {r} : pc'[s] = pc[s]
    BY <1>1, <1>3, Typed, NothingDoomed DEF GoTo
  <2>2. /\ log'[k0].owner = r /\ log'[k0].row = log[k0].row
        /\ \A k \in LogIds \ {k0} : log'[k] = log[k]
    BY <1>3, Typed, WriteEffect DEF Logs
  <2>3. \A s \in Requests \ {r} : Leaves(s)
    BY <1>1, <1>3, <2>1, <2>2 DEF Leaves, Lockable
  <2>4. call'[r].op = "record"
    BY <1>1 DEF IInv, ControlOK, Recording
  <2>5. TallyOf(r)'
    BY <1>1, <2>1, <2>2, <2>4 DEF TallyOf
  <2> QED
    BY <1>1, <2>1, <2>3, <2>5, KeptTally
<1>4. [finished |-> call[r].finished, by |-> r] \in LogRows
  BY <1>1, CallFields DEF LogRows, IInv, ControlOK, Recording
<1> QED
  BY <1>2, <1>3, <1>4 DEF Insert, Answer

LEMMA RecordDecisionTally ==
    ASSUME IInv, TallyOK, NEW r \in Requests, RecordDecision(r)
    PROVE  TallyOK'
<1>1. /\ pc[r] = "decide" /\ pc[r] \in InFlight /\ pc[r] \notin Ended /\ call[r].op = "record"
      /\ UNCHANGED <<call, deleted>> /\ RowsKept /\ log[call[r].id].owner = r
  BY RecordDecisionStep DEF RecordDecision, InFlight, Ended, IInv, ControlOK, Recording
<1>2. CASE Fail(r, 422)
  BY <1>1, <1>2, FailTally
<1>3. CASE GoTo(r, "commit") /\ UNCHANGED <<log, doomed>>
  <2>1. pc'[r] = "commit" /\ doomed'[r] = {} /\ \A s \in Requests \ {r} : pc'[s] = pc[s]
    BY <1>1, <1>3, Typed, NothingDoomed DEF GoTo
  <2>2. \A s \in Requests \ {r} : Leaves(s)
    BY <1>1, <1>3, <2>1 DEF Leaves
  <2>3. TallyOf(r)'
    BY <1>1, <1>3, <2>1 DEF TallyOf
  <2> QED
    BY <1>1, <2>1, <2>2, <2>3, KeptTally
<1> QED
  BY <1>2, <1>3 DEF RecordDecision, Answer

LEMMA SelectTally ==
    ASSUME IInv, TallyOK, NEW r \in Requests, Select(r)
    PROVE  TallyOK'
<1>1. /\ pc[r] = "select" /\ pc[r] \notin Ended /\ GoTo(r, "delete") /\ "delete" \in InFlight
      /\ UNCHANGED <<log, decision, call, deleted>>
  BY DEF Select, Ended, InFlight
<1>2. PICK found : doomed' = [doomed EXCEPT ![r] = found]
  BY DEF Select
<1>3. \A s \in Requests \ {r} : doomed'[s] = doomed[s]
  BY <1>2, Typed
<1>4. pc'[r] = "delete"
  BY <1>1, Typed DEF GoTo
<1>5. Held(r)' = {} /\ deleted'[r] = 0
  BY <1>1, HoldsNothing DEF Held, IInv, CountOK
<1>6. \A d \in doomed'[r] : log'[d[1]].owner # r
  <2>1. doomed' \in [Requests -> SUBSET (LogIds \X (Requests \cup {NoTxn}))]
    BY SelectStep, TypedNext
  <2> QED
    BY <1>1, <2>1, HoldsNothing
<1>7. TallyOf(r)'
  BY <1>4, <1>5, <1>6, FS_EmptySet DEF TallyOf
<1> QED
  BY <1>1, <1>3, <1>7, QuietTally

LEMMA DeleteRowTally ==
    ASSUME IInv, TallyOK, NEW r \in Requests, NEW id \in LogIds, NEW by \in Requests \cup {NoTxn},
           DeleteRow(r, id, by)
    PROVE  TallyOK'
<1> DEFINE d0 == <<id, by>>
<1>1. /\ pc[r] = "delete" /\ pc[r] \notin Ended /\ d0 \in doomed[r] /\ d0 \in Reachable(r)
      /\ call[r].op = "purge" /\ UNCHANGED <<pc, call>> /\ RowsKept
  BY DeleteRowStep DEF DeleteRow, DeleteRowAs, Ended, Reachable, IInv, ControlOK, Purging
<1>2. /\ doomed' = [doomed EXCEPT ![r] = @ \ {d0}]
      /\ log' = IF Stands(id, by) THEN Write(log, r, id, Absent) ELSE log
      /\ deleted' = [deleted EXCEPT ![r] = @ + (IF Stands(id, by) THEN 1 ELSE 0)]
  BY DEF DeleteRow, DeleteRowAs, RowCount
<1>3. /\ doomed'[r] = doomed[r] \ {d0} /\ \A s \in Requests \ {r} : doomed'[s] = doomed[s]
      /\ deleted'[r] = deleted[r] + (IF Stands(id, by) THEN 1 ELSE 0)
      /\ \A s \in Requests \ {r} : deleted'[s] = deleted[s]
  BY <1>2, Typed
<1>4. /\ TallyOf(r) /\ deleted[r] = Cardinality(Held(r))
      /\ \A d \in doomed[r] : Stands(d[1], d[2]) => log[d[1]].owner # r
  BY <1>1 DEF TallyOK, TallyOf
<1>5. CASE ~ Stands(id, by)
  <2>1. log' = log /\ deleted' = deleted
    BY <1>2, <1>3, <1>5, Typed
  <2>2. \A s \in Requests \ {r} : Leaves(s)
    BY <1>1, <1>3, <2>1 DEF Leaves
  <2>3. TallyOf(r)'
    BY <1>1, <1>3, <1>4, <2>1 DEF TallyOf, Stands, Held
  <2> QED
    BY <1>1, <2>2, <2>3, KeptTally
<1>6. CASE Stands(id, by)
  <2>1. /\ log'[id].owner = r /\ log'[id].row = log[id].row
        /\ \A k \in LogIds \ {id} : log'[k] = log[k]
    BY <1>2, <1>6, Typed, WriteEffect DEF Logs
  <2>2. log[id].owner = NoTxn
    BY <1>1, <1>4, <1>6 DEF Reachable, Lockable
  <2>3. \A s \in Requests \ {r} : Leaves(s)
    BY <1>1, <1>3, <2>1, <2>2 DEF Leaves
  <2>4. Held(r)' = Held(r) \cup {id} /\ id \notin Held(r)
    BY <2>1, <2>2 DEF Held
  <2>5. Cardinality(Held(r)') = Cardinality(Held(r)) + 1
    <3>1. IsFiniteSet(Held(r))
      BY FiniteAssumption, FS_Subset DEF Held
    <3> QED
      BY <2>4, <3>1, FS_AddElement
  <2>6. ASSUME NEW d \in doomed'[r], Stands(d[1], d[2])'
        PROVE  log'[d[1]].owner # r
    <3>1. d \in doomed[r] /\ d # d0 /\ d \in LogIds \X (Requests \cup {NoTxn})
      BY <1>3, Typed
    <3>2. Stands(d[1], d[2])
      BY <2>6, <3>1, <1>1 DEF RowsKept, Stands
    <3>3. d[1] # id
      BY <3>1, <3>2, <1>6 DEF Stands
    <3> QED
      BY <3>1, <3>2, <3>3, <2>1, <1>4
  <2>7. deleted'[r] = Cardinality(Held(r)')
    BY <1>3, <1>4, <1>6, <2>5
  <2>8. TallyOf(r)'
    BY <1>1, <2>6, <2>7 DEF TallyOf
  <2> QED
    BY <1>1, <2>3, <2>8, KeptTally
<1> QED
  BY <1>5, <1>6

LEMMA DeleteDoneTally ==
    ASSUME IInv, TallyOK, NEW r \in Requests, DeleteDone(r)
    PROVE  TallyOK'
<1>1. /\ pc[r] = "delete" /\ pc[r] \notin Ended /\ GoTo(r, "commit") /\ "commit" \in InFlight
      /\ doomed[r] = {} /\ UNCHANGED <<log, decision, call, doomed, deleted>>
  BY DEF DeleteDone, Answer, Ended, InFlight
<1>2. call[r].op = "purge" /\ pc'[r] = "commit"
  BY <1>1, Typed DEF IInv, ControlOK, Purging, GoTo
<1>3. TallyOf(r)'
  BY <1>1, <1>2 DEF TallyOK, TallyOf, Held
<1> QED
  BY <1>1, <1>3, QuietTally

(* A commit of a record adds a row and a record, one of a purge takes away  *)
(* the rows that the purge has counted.                                     *)
LEMMA CommitTally ==
    ASSUME IInv, TallyOK, NEW r \in Requests, Commit(r)
    PROVE  TallyOK'
<1>1. /\ log' = Committed(log, r) /\ pc' = [pc EXCEPT ![r] = "committed"] /\ pc[r] = "commit"
      /\ UNCHANGED <<call, doomed, deleted>>
  BY DEF Commit, GoTo
<1>2. pc'[r] = "committed" /\ \A s \in Requests \ {r} : pc'[s] = pc[s]
  BY <1>1, Typed
<1>3. \A k \in LogIds :
         IF log[k].owner = r
         THEN log'[k].row = log[k].draft /\ log'[k].owner = NoTxn
         ELSE log'[k] = log[k]
  BY <1>1, Typed, CommittedEffect DEF Logs
<1>4. \A s \in Requests : s # r => TallyOf(s)'
  BY <1>1, <1>2, <1>3, LeavesTally DEF TallyOK, Leaves
<1>5. TallyOf(r)'
  BY <1>1, <1>2, NothingDoomed DEF TallyOf
<1>6. \A k \in LogIds : log[k].owner = r => HeldBy(r, k)
  BY DEF IInv, SlotsOK, SlotOK
<1>7. /\ IsFiniteSet(Recorded) /\ IsFiniteSet(Deletions) /\ IsFiniteSet(Present)
      /\ IsFiniteSet(Held(r)) /\ IsFiniteSet(Existing)
      /\ Held(r) \subseteq LogIds
  BY FiniteAssumption, StartAssumption, FS_Subset DEF TallyOK, Present, Held
<1>8. /\ Cardinality(Recorded) \in Nat /\ Cardinality(Deletions) \in Nat
      /\ Cardinality(Present) \in Nat /\ Cardinality(Held(r)) \in Nat /\ Cardinality(Existing) \in Nat
  BY <1>7, FS_CardinalityType
<1>9. call[r].op \in {"record", "purge"}
  BY <1>1, CallFields
<1>10. r \notin Purges /\ r \notin Recorded
  BY <1>1 DEF Purges, Recorded
<1>11. CASE call[r].op = "record"
  <2> PICK k0 \in LogIds : k0 = call[r].id
    BY <1>1, <1>11, CallFields
  <2>1. log[k0].owner = r
    BY <1>1, <1>11 DEF TallyOK, TallyOf
  <2>2. RecordedBy(r, k0) /\ \A k \in LogIds : log[k].owner = r => k = k0
    BY <1>6, <1>11, <2>1 DEF HeldBy, RecordedBy
  <2>3. log[k0].row = Absent /\ log'[k0].row # Absent
    <3>1. log[k0].draft \in LogRows
      BY <2>2, <1>1, <1>11, CallFields DEF RecordedBy, LogRows
    <3> QED
      BY <2>1, <2>2, <3>1, <1>3 DEF RecordedBy
  <2>4. Present' = Present \cup {k0} /\ k0 \notin Present
    BY <1>3, <2>2, <2>3 DEF Present
  <2>5. Recorded' = Recorded \cup {r}
    BY <1>1, <1>2, <1>11 DEF Recorded
  <2>6. Purges' = Purges
    BY <1>1, <1>2, <1>11 DEF Purges
  <2>7. Deletions' = Deletions
    BY <1>1, <2>6 DEF Deletions
  <2>8. /\ IsFiniteSet(Recorded') /\ Cardinality(Recorded') = Cardinality(Recorded) + 1
        /\ Cardinality(Present') = Cardinality(Present) + 1
    BY <1>7, <1>10, <2>4, <2>5, FS_AddElement
  <2>9. PurgesCounted'
    BY <1>8, <2>7, <2>8 DEF PurgesCounted, TallyOK
  <2> QED
    BY <1>4, <1>5, <1>7, <2>7, <2>8, <2>9 DEF TallyOK
<1>12. CASE call[r].op = "purge"
  <2> DEFINE mine == {r} \X (1 .. deleted[r])
  <2>1. deleted[r] = Cardinality(Held(r))
    BY <1>1, <1>12 DEF TallyOK, TallyOf
  <2>2. \A k \in Held(r) : k \in Present /\ log'[k].row = Absent
    BY <1>3, <1>6, <1>12 DEF Held, Present, HeldBy, PurgedBy
  <2>3. Present' = Present \ Held(r) /\ Held(r) \subseteq Present
    BY <1>3, <2>2 DEF Present, Held
  <2>4. Recorded' = Recorded
    BY <1>1, <1>2, <1>12 DEF Recorded
  <2>5. Purges' = Purges \cup {r}
    BY <1>1, <1>2, <1>12 DEF Purges
  <2>6. Deletions' = Deletions \cup mine
    BY <1>1, <2>5 DEF Deletions
  <2>7. Deletions \cap mine = {}
    BY <1>10 DEF Deletions
  <2>8. IsFiniteSet(mine) /\ Cardinality(mine) = deleted[r]
    <3>1. deleted[r] \in Nat
      BY Typed
    <3> QED
      BY <3>1, PairsOfOne
  <2>9. /\ IsFiniteSet(Deletions') /\ Cardinality(Deletions') = Cardinality(Deletions) + deleted[r]
    <3> HIDE DEF mine
    <3>1. Cardinality(Deletions \cap mine) = 0
      BY <2>7, FS_EmptySet
    <3>2. /\ IsFiniteSet(Deletions \cup mine)
          /\ Cardinality(Deletions \cup mine) = Cardinality(Deletions) + Cardinality(mine) - 0
      BY <1>7, <2>8, <3>1, FS_Union
    <3> QED
      BY <1>8, <2>1, <2>6, <2>8, <3>2
  <2>10. Cardinality(Present') = Cardinality(Present) - Cardinality(Held(r))
    <3>1. Present \cap Held(r) = Held(r)
      BY <2>3
    <3> QED
      BY <1>7, <2>3, <3>1, FS_Difference
  <2>11. PurgesCounted'
    <3>1. Cardinality(Deletions) + Cardinality(Present) = Cardinality(Existing) + Cardinality(Recorded)
      BY DEF TallyOK, PurgesCounted
    <3>2. Cardinality(Deletions') + Cardinality(Present') = Cardinality(Existing) + Cardinality(Recorded)
      BY <1>8, <2>1, <2>9, <2>10, <3>1
    <3> QED
      BY <2>4, <3>2 DEF PurgesCounted
  <2> QED
    BY <1>4, <1>5, <1>7, <2>4, <2>9, <2>11 DEF TallyOK
<1> QED
  BY <1>9, <1>11, <1>12

LEMMA InitTally == Init => TallyOK
<1> SUFFICES ASSUME Init PROVE TallyOK
  OBVIOUS
<1>1. Recorded = {} /\ Deletions = {}
  BY DEF Init, Recorded, Deletions, Purges
<1>2. Present = Existing
  <2>1. \A k \in Existing : [finished |-> FinishedAt[k], by |-> NoTxn] \in LogRows
    BY StartAssumption DEF LogRows
  <2>2. \A k \in LogIds : log[k].row # Absent <=> k \in Existing
    BY <2>1 DEF Init, Settled
  <2> QED
    BY <2>2, StartAssumption DEF Present
<1>3. \A r \in Requests : TallyOf(r)
  BY DEF Init, TallyOf
<1>4. Cardinality(Existing) \in Nat
  BY FiniteAssumption, StartAssumption, FS_Subset, FS_CardinalityType
<1> QED
  BY <1>1, <1>2, <1>3, <1>4, FS_EmptySet DEF TallyOK, PurgesCounted

LEMMA NextTally ==
    ASSUME IInv, TallyOK, [Next]_vars
    PROVE  TallyOK'
<1>1. CASE UNCHANGED vars
  <2>1. Recorded' = Recorded /\ Deletions' = Deletions /\ Present' = Present
    BY <1>1 DEF vars, Recorded, Deletions, Purges, Present
  <2>2. \A r \in Requests : Leaves(r)
    BY <1>1 DEF vars, Leaves
  <2> QED
    BY <2>1, <2>2, LeavesTally DEF TallyOK, PurgesCounted
<1>2. ASSUME NEW r \in Requests, Arrive(r) \/ Find(r) \/ Insert(r) \/ RecordDecision(r)
      PROVE  TallyOK'
  BY <1>2, BeforeTally, InsertTally, RecordDecisionTally
<1>3. ASSUME NEW r \in Requests, Select(r) \/ DeleteDone(r) \/ Commit(r)
      PROVE  TallyOK'
  BY <1>3, SelectTally, DeleteDoneTally, CommitTally
<1>4. ASSUME NEW r \in Requests, NEW id \in LogIds, NEW by \in Requests \cup {NoTxn}, DeleteRow(r, id, by)
      PROVE  TallyOK'
  BY <1>4, DeleteRowTally
<1>5. ASSUME NEW r \in Requests, LockWaitAborted(r) \/ Aborted(r)
      PROVE  TallyOK'
  <2>1. pc[r] \in InFlight /\ UNCHANGED <<call, deleted>> /\ RowsKept
    BY <1>5, AbortStep DEF LockWaitAborted, Aborted, Blocked, InFlight
  <2>2. PICK code \in {0, 200, 201, 409, 422, 500} : Fail(r, code)
    BY <1>5, Typed DEF LockWaitAborted, Aborted
  <2> QED
    BY <2>1, <2>2, FailTally
<1> QED
  BY <1>1, <1>2, <1>3, <1>4, <1>5 DEF Next, Step, Done

(* However purges select the same rows and wait for each other, together    *)
(* they answer as many deletions as records have disappeared.               *)
THEOREM CountsAddUp == Spec => []PurgesCounted
<1>1. Init => TallyOK
  BY InitTally
<1>2. IInv /\ TallyOK /\ [Next]_vars => TallyOK'
  BY NextTally
<1>3. TallyOK => PurgesCounted
  BY DEF TallyOK
<1> QED
  BY <1>1, <1>2, <1>3, SpecInv, PTL DEF Spec
=============================================================================
