----------------------------- MODULE RequestLog -----------------------------
(***************************************************************************)
(* The request log: recording a request together with its routing decision *)
(* and purging finished requests (service/request_log_service.py, tables   *)
(* "request_log" and "routing_decision").                                  *)
(*                                                                         *)
(* A DELETE of many rows locks them one after the other, in the order its  *)
(* plan meets them, which nobody determines.                               *)
(***************************************************************************)
EXTENDS ReadCommitted, Integers, FiniteSets

CONSTANTS
    Requests,       \* HTTP requests, each of them served once
    LogIds,         \* request ids that clients send or the service draws
    Times,          \* instants: when a request finished, a cutoff
    BatchSizes,     \* batch sizes of purges
    Existing,       \* the ids logged at the start ..
    FinishedAt,     \* .. and when those requests finished
    Absent, NoCall

LogRows      == [finished : Times, by : Requests \cup {NoTxn}]
DecisionRows == [by : Requests \cup {NoTxn}]

ASSUME TimeAssumption  == Times \subseteq Int /\ BatchSizes \subseteq Nat \ {0}
ASSUME StartAssumption == Existing \subseteq LogIds /\ FinishedAt \in [Existing -> Times]
ASSUME FiniteAssumption == IsFiniteSet(LogIds)
ASSUME FreshAssumption ==
    NoTxn \notin Requests /\ Absent \notin LogRows /\ Absent \notin DecisionRows

(* "valid" tells whether the token counts, the durations, the timeline and  *)
(* the error code pass the validation, and "decision" the same of the       *)
(* routing decision, if there is one.                                       *)
Calls ==
         [op : {"record"}, id : LogIds, finished : Times, valid : BOOLEAN,
          decision : {"none", "valid", "invalid"}]
    \cup [op : {"purge"}, cutoff : Times, batch : BatchSizes]

VARIABLES
    log,        \* table request_log
    decision,   \* table routing_decision
    pc, call,
    doomed,     \* rows <<id, by>> a purge has selected and not reached yet
    deleted,    \* rows it has deleted so far
    reply       \* HTTP status, 0 before there is one

vars == <<log, decision, pc, call, doomed, deleted, reply>>

InFlight == {"find", "insert", "decide", "select", "delete", "commit"}
Ended    == {"committed", "rolledBack"}

TypeOK ==
    /\ log \in Table(LogIds, LogRows \cup {Absent}, Requests)
    /\ decision \in Table(LogIds, DecisionRows \cup {Absent}, Requests)
    /\ pc \in [Requests -> {"idle"} \cup InFlight \cup Ended]
    /\ call \in [Requests -> Calls \cup {NoCall}]
    /\ doomed \in [Requests -> SUBSET (LogIds \X (Requests \cup {NoTxn}))]
    /\ deleted \in [Requests -> Nat]
    /\ reply \in [Requests -> {0, 200, 201, 409, 422, 500}]

Init ==
    /\ log = [k \in LogIds |-> Settled(
                IF k \in Existing THEN [finished |-> FinishedAt[k], by |-> NoTxn] ELSE Absent)]
    /\ \E decided \in SUBSET Existing :
          decision = [k \in LogIds |-> Settled(IF k \in decided THEN [by |-> NoTxn] ELSE Absent)]
    /\ pc = [r \in Requests |-> "idle"]
    /\ call = [r \in Requests |-> NoCall]
    /\ doomed = [r \in Requests |-> {}]
    /\ deleted = [r \in Requests |-> 0]
    /\ reply = [r \in Requests |-> 0]

-----------------------------------------------------------------------------
GoTo(r, label) == pc' = [pc EXCEPT ![r] = label]

Fail(r, code) ==
    /\ log' = RolledBack(log, r)
    /\ decision' = RolledBack(decision, r)
    /\ doomed' = [doomed EXCEPT ![r] = {}]
    /\ reply' = [reply EXCEPT ![r] = code]
    /\ GoTo(r, "rolledBack")

Answer(r, code) ==
    /\ reply' = [reply EXCEPT ![r] = code]
    /\ GoTo(r, "commit")

(* The row that a purge has selected is still the one committed last, and   *)
(* not one that has got its id since.                                       *)
Stands(id, by) == log[id].row # Absent /\ log[id].row.by = by

(* Rows that a purge may lock now: it need not wait for another transaction.*)
Reachable(r) == {d \in doomed[r] : Stands(d[1], d[2]) => Lockable(log, r, d[1])}

Blocked(r) ==
    \/ pc[r] = "insert" /\ ~ Lockable(log, r, call[r].id)
    \/ pc[r] = "delete" /\ doomed[r] \ Reachable(r) # {}

-----------------------------------------------------------------------------
Begin(r, c) ==
    /\ pc[r] = "idle"
    /\ call' = [call EXCEPT ![r] = c]
    /\ GoTo(r, IF c.op = "record" THEN "find" ELSE "select")
    /\ UNCHANGED <<log, decision, doomed, deleted, reply>>

(* The id is looked up before the other fields are validated.               *)
Find(r) ==
    LET found == Visible(log, r, call[r].id) # Absent
    IN  /\ pc[r] = "find"
        /\ \/ /\ ~ found /\ call[r].valid
              /\ GoTo(r, "insert")
              /\ UNCHANGED <<log, decision, doomed, reply>>
           \/ ~ found /\ ~ call[r].valid /\ Fail(r, 422)
           \/ found /\ Fail(r, 409)
        /\ UNCHANGED <<call, deleted>>

(* Mutant: an id that another request is about to take is a conflict.       *)
InsertNoWait(r) ==
    LET c == call[r]
    IN  /\ pc[r] = "insert"
        /\ \/ /\ Visible(log, r, c.id) = Absent /\ Lockable(log, r, c.id)
              /\ log' = Write(log, r, c.id, [finished |-> c.finished, by |-> r])
              /\ GoTo(r, IF c.decision = "none" THEN "commit" ELSE "decide")
              /\ UNCHANGED <<decision, doomed, reply>>
           \/ /\ Visible(log, r, c.id) # Absent \/ ~ Lockable(log, r, c.id)
              /\ Fail(r, 409)
        /\ UNCHANGED <<call, deleted>>

(* The primary key decides when two records of an id got this far; the key  *)
(* and the backend that the record names may not exist (foreign keys).      *)
Insert(r) ==
    LET c == call[r]
    IN  /\ pc[r] = "insert"
        /\ Lockable(log, r, c.id)
        /\ \/ /\ Visible(log, r, c.id) = Absent
              /\ log' = Write(log, r, c.id, [finished |-> c.finished, by |-> r])
              /\ \/ c.decision = "none" /\ Answer(r, 201)
                 \/ c.decision # "none" /\ GoTo(r, "decide") /\ UNCHANGED reply
              /\ UNCHANGED <<decision, doomed>>
           \/ Visible(log, r, c.id) = Absent /\ Fail(r, 422)
           \/ Visible(log, r, c.id) # Absent /\ Fail(r, 409)
        /\ UNCHANGED <<call, deleted>>

(* Mutant: the answer to an invalid decision does not end the transaction.  *)
RecordDecisionKeepsLog(r) ==
    LET c == call[r]
    IN  /\ pc[r] = "decide"
        /\ decision' = IF c.decision = "valid" THEN Write(decision, r, c.id, [by |-> r]) ELSE decision
        /\ Answer(r, IF c.decision = "valid" THEN 201 ELSE 422)
        /\ UNCHANGED <<log, call, doomed, deleted>>

(* The decision is validated only now: the row of the log is in the table.  *)
RecordDecision(r) ==
    LET c == call[r]
    IN  /\ pc[r] = "decide"
        /\ \/ /\ c.decision = "valid"
              /\ decision' = Write(decision, r, c.id, [by |-> r])
              /\ Answer(r, 201)
              /\ UNCHANGED <<log, doomed>>
           \/ /\ c.decision = "invalid"
              /\ Fail(r, 422)
        /\ UNCHANGED <<call, deleted>>

(* The subquery of the DELETE: any rows that finished before the cutoff, as *)
(* many as there are up to the batch size.                                  *)
Select(r) ==
    LET row(k) == Visible(log, r, k)
        old    == {k \in LogIds : row(k) # Absent /\ row(k).finished < call[r].cutoff}
    IN  /\ pc[r] = "select"
        /\ \E ids \in SUBSET old :
              /\ Cardinality(ids) <= call[r].batch
              /\ Cardinality(ids) < call[r].batch => ids = old
              /\ doomed' = [doomed EXCEPT ![r] = {<<k, row(k).by>> : k \in ids}]
        /\ GoTo(r, "delete")
        /\ UNCHANGED <<log, decision, call, deleted, reply>>

(* A selected row goes, with its decision (ON DELETE CASCADE), unless       *)
(* another purge has deleted it in the meantime: what becomes of the        *)
(* decisions, and how much the row adds to the count, come from below.      *)
DeleteRowAs(r, id, by, decisions, counted) ==
    /\ pc[r] = "delete"
    /\ <<id, by>> \in Reachable(r)
    /\ doomed' = [doomed EXCEPT ![r] = @ \ {<<id, by>>}]
    /\ log' = IF Stands(id, by) THEN Write(log, r, id, Absent) ELSE log
    /\ decision' = decisions
    /\ deleted' = [deleted EXCEPT ![r] = @ + counted]
    /\ UNCHANGED <<pc, call, reply>>

Cascade(r, id, by) == IF Stands(id, by) THEN Write(decision, r, id, Absent) ELSE decision
RowCount(id, by)   == IF Stands(id, by) THEN 1 ELSE 0

(* Mutant: rows that another purge has deleted are counted again.           *)
DeleteRowCountsAll(r, id, by) == DeleteRowAs(r, id, by, Cascade(r, id, by), 1)

(* Mutant: the driver does not know the count and gives -1.                 *)
DeleteRowUncounted(r, id, by) == DeleteRowAs(r, id, by, Cascade(r, id, by), -1)

(* Mutant: the decision stays.                                              *)
DeleteRowNoCascade(r, id, by) == DeleteRowAs(r, id, by, decision, RowCount(id, by))

(* Mutant: a session of its own has removed the decision before.            *)
DeleteRowDecisionFirst(r, id, by) ==
    DeleteRowAs(r, id, by,
                IF Stands(id, by) THEN [decision EXCEPT ![id] = Settled(Absent)] ELSE decision,
                RowCount(id, by))

DeleteRow(r, id, by) == DeleteRowAs(r, id, by, Cascade(r, id, by), RowCount(id, by))

DeleteDone(r) ==
    /\ pc[r] = "delete"
    /\ doomed[r] = {}
    /\ Answer(r, 200)
    /\ UNCHANGED <<log, decision, call, doomed, deleted>>

Commit(r) ==
    /\ pc[r] = "commit"
    /\ log' = Committed(log, r)
    /\ decision' = Committed(decision, r)
    /\ GoTo(r, "committed")
    /\ UNCHANGED <<call, doomed, deleted, reply>>

(* Deadlock detection or statement_timeout ends a wait.                     *)
LockWaitAborted(r) ==
    /\ Blocked(r)
    /\ Fail(r, 500)
    /\ UNCHANGED <<call, deleted>>

(* A statement or the commit fails, or the process or the connection dies.  *)
Aborted(r) ==
    /\ pc[r] \in InFlight
    /\ Fail(r, IF pc[r] = "commit" THEN reply[r] ELSE 500)
    /\ UNCHANGED <<call, deleted>>

Step(r) ==
    \/ Find(r) \/ Insert(r) \/ RecordDecision(r)
    \/ Select(r) \/ DeleteDone(r)
    \/ \E id \in LogIds, by \in Requests \cup {NoTxn} : DeleteRow(r, id, by)
    \/ Commit(r) \/ LockWaitAborted(r)

Arrive(r) == \E c \in Calls : Begin(r, c)

Done == /\ \A r \in Requests : pc[r] \in Ended
        /\ UNCHANGED vars

Next == \/ \E r \in Requests : Arrive(r) \/ Step(r) \/ Aborted(r)
        \/ Done

Spec == Init /\ [][Next]_vars

-----------------------------------------------------------------------------
(* Correctness. *)

(* A routing decision belongs to the very record it was written with: none  *)
(* outlives its record and meets a later one of the same id (the CASCADE of *)
(* RoutingDecisionRow, under purges and new records of the id).             *)
DecisionHasLog ==
    \A k \in LogIds :
        decision[k].row # Absent => log[k].row # Absent /\ log[k].row.by = decision[k].row.by

(* A record that asked for a decision is there with it or not at all, and   *)
(* one that failed, even after its row was inserted, is not there           *)
(* (RequestLogService.record, _record_decision).                            *)
AllOrNothing ==
    \A k \in LogIds :
        log[k].row # Absent /\ log[k].row.by \in Requests =>
            LET r == log[k].row.by
            IN  /\ pc[r] = "committed"
                /\ (call[r].decision = "valid") = (decision[k].row # Absent)
                /\ call[r].decision # "invalid"

Purges    == {r \in Requests : pc[r] = "committed" /\ call[r].op = "purge"}
Recorded  == {r \in Requests : pc[r] = "committed" /\ call[r].op = "record"}
Present   == {k \in LogIds : log[k].row # Absent}
Deletions == UNION {{r} \X (1 .. deleted[r]) : r \in Purges}     \* as many as were answered

(* The purges that succeeded have together answered as many deletions as    *)
(* records have disappeared, although they select the same rows and wait    *)
(* for each other (RequestLogRepository.delete_finished_before).            *)
PurgesCounted ==
    Cardinality(Deletions) + Cardinality(Present) = Cardinality(Existing) + Cardinality(Recorded)

(* A purge deletes no more than its batch.                                  *)
PurgeBounded ==
    \A r \in Requests :
        pc[r] \in {"delete", "commit", "committed"} /\ call[r].op = "purge" =>
            deleted[r] + Cardinality(doomed[r]) <= call[r].batch

(* A conflict is answered only when the id is taken by a record that is     *)
(* there: never because of one that then fails (RequestLogService.record).  *)
ConflictIsReal ==
    [][\A r \in Requests : reply'[r] = 409 /\ reply[r] # 409
          => log[call[r].id].row # Absent]_vars

(* To its readers the log is the ledger: what is committed changes by whole *)
(* records and by purges of finished ones (Database.transaction).           *)
LedgerEntry(k) ==
    IF log[k].row = Absent THEN Absent
    ELSE [finished |-> log[k].row.finished, by |-> log[k].row.by,
          decided |-> decision[k].row # Absent]

Ledger == INSTANCE RequestLedger
            WITH ledger <- [k \in LogIds |-> LedgerEntry(k)],
                 Writers <- Requests \cup {NoTxn}

ASSUME EntryAssumption == Absent \notin Ledger!Entries

ImplementsLedger == Ledger!LedgerSpec
=============================================================================
