------------------------------ MODULE LogReads ------------------------------
(***************************************************************************)
(* Reading the request log while it changes: walking through its pages,    *)
(* one entry with its routing decision, and the summary                    *)
(* (api/routes/requests.py, api/pagination.py, the reads of                *)
(* service/request_log_service.py and of its repository).                  *)
(*                                                                         *)
(* Each of these reads is several statements, and at READ COMMITTED each   *)
(* statement sees what is committed when it starts.  What is committed     *)
(* changes as RequestLedger says, which RequestLog implements.  Readers do *)
(* not touch each other, so there is one.  Its authentication, which       *)
(* ApiKeys has, and a status that is refused as unknown are left out.      *)
(***************************************************************************)
EXTENDS RequestLedger, FiniteSets

CONSTANTS
    Existing,           \* the ids logged at the start ..
    WrittenBy,          \* .. and the writers of their entries
    Values,             \* for each writer, the columns the readers use
    Backends,
    DefaultPageSize, MaxPageSize,
    Calls,              \* the reads a client may ask for
    None

RowValues == [started : Int, finished : Times, backend : Backends,
              failed : BOOLEAN,     \* status # "success"
              timed : BOOLEAN,      \* total_ms is known
              decided : BOOLEAN]    \* has a routing decision

ASSUME PageAssumption  == DefaultPageSize \in Nat \ {0} /\ MaxPageSize \in Nat \ {0}
ASSUME ValueAssumption == Times \subseteq Int /\ Values \in [Writers -> RowValues]
ASSUME StartAssumption ==
    /\ IsFiniteSet(Writers) /\ Absent \notin Entries
    /\ Existing \subseteq LogIds /\ WrittenBy \in [Existing -> Writers]
    /\ \A i, j \in Existing : WrittenBy[i] = WrittenBy[j] => i = j

(* after and before are None when the client does not send them.  "backend" *)
(* stands for all columns a listing compares with a value.                  *)
Filters == [backend : Backends \cup {None}, after : Int \cup {None},
            before : Int \cup {None}, failuresOnly : BOOLEAN]

ASSUME CallAssumption ==
    /\ \A c \in Calls :
          \/ c.op = "walk"    /\ c.filter \in Filters /\ c.limit \in (Nat \ {0}) \cup {None}
          \/ c.op = "detail"  /\ c.id \in LogIds
          \/ c.op = "summary" /\ c.filter \in Filters
    /\ None \notin Writers \cup Backends \cup Calls \cup Int

VARIABLES
    written,    \* writers that have written
    pc, call,
    offset,     \* of the page that is read
    page,       \* rows the list statement of this page has returned
    shown,      \* how often each row has been on a page
    entry,      \* the writer of the row the detail shows, None if none
    decision,   \* the writer of the decision it shows, None if none
    counts,     \* what the statements of the summary have returned
    start,      \* history: rows there when the read began ..
    born, gone  \* .. and those recorded and purged since

reader == <<pc, call, offset, page, shown, entry, decision, counts>>
vars   == <<ledger, written, reader, start, born, gone>>

Rows == {ledger[id].by : id \in {i \in LogIds : ledger[i] # Absent}}

TypeOK ==
    /\ ledger \in [LogIds -> Entries \cup {Absent}]
    /\ written \in SUBSET Writers /\ Rows \subseteq written
    /\ pc \in {"idle", "list", "count", "log", "decision",
               "backends", "statuses", "latency", "done", "notFound"}
    /\ call \in Calls \cup {None}
    /\ offset \in 0 .. Cardinality(Writers)
    /\ page \in SUBSET Writers /\ Cardinality(page) <= MaxPageSize
    /\ shown \in [Writers -> Nat]
    /\ entry \in Writers \cup {None} /\ decision \in Writers \cup {None}
    /\ counts \in [backends : [Backends -> Nat], statuses : [BOOLEAN -> Nat], samples : Nat]
    /\ {start, born, gone} \subseteq SUBSET Writers

Entry(w) == [finished |-> Values[w].finished, by |-> w, decided |-> Values[w].decided]

Init ==
    /\ ledger = [id \in LogIds |-> IF id \in Existing THEN Entry(WrittenBy[id]) ELSE Absent]
    /\ written = {WrittenBy[id] : id \in Existing}
    /\ pc = "idle" /\ call = None
    /\ offset = 0 /\ page = {}
    /\ shown = [w \in Writers |-> 0]
    /\ entry = None /\ decision = None
    /\ counts = [backends |-> [b \in Backends |-> 0],
                 statuses |-> [f \in BOOLEAN |-> 0], samples |-> 0]
    /\ start = {} /\ born = {} /\ gone = {}

-----------------------------------------------------------------------------
(* What the other requests do to the log.                                   *)
Reading == pc \notin {"idle", "done", "notFound"}

RecordRow(w) ==
    /\ w \notin written
    /\ \E id \in LogIds : Record(id, Entry(w))
    /\ written' = written \cup {w}
    /\ born' = IF Reading THEN born \cup {w} ELSE born
    /\ UNCHANGED <<reader, start, gone>>

PurgeRows(cutoff, ids) ==
    /\ ids # {}
    /\ Purge(cutoff, ids)
    /\ gone' = IF Reading THEN gone \cup {ledger[id].by : id \in ids} ELSE gone
    /\ UNCHANGED <<written, reader, start, born>>

-----------------------------------------------------------------------------
(* The WHERE clauses of the statements.                                     *)
Since(f, w) == f.after = None \/ Values[w].started >= f.after
Until(f, w) == f.before = None \/ Values[w].started < f.before

Wanted(f) ==
    {w \in Writers : /\ f.backend = None \/ Values[w].backend = f.backend
                     /\ Since(f, w) /\ Until(f, w)
                     /\ f.failuresOnly => Values[w].failed}
Matching(f) == Rows \cap Wanted(f)

Smaller(m, n) == IF m < n THEN m ELSE n

(* Mutant: no ORDER BY.                                                     *)
TopUnordered(rows, n) == {T \in SUBSET rows : Cardinality(T) = Smaller(n, Cardinality(rows))}

(* The possible first n rows in ORDER BY started_at DESC: rows that started *)
(* at the same instant come in any order.                                   *)
Top(rows, n) ==
    {T \in SUBSET rows : /\ Cardinality(T) = Smaller(n, Cardinality(rows))
                         /\ \A t \in T, w \in rows \ T : Values[t].started >= Values[w].started}

(* Mutant: the limit of the client is not clamped.                          *)
PageSizeUnclamped(limit) == IF limit = None THEN DefaultPageSize ELSE limit

PageSize(limit) == Smaller(IF limit = None THEN DefaultPageSize ELSE limit, MaxPageSize)

(* Mutant: an empty page at the end promises another one.                   *)
HasMoreAtEnd(count, total) == offset + count <= total

HasMore(count, total) == offset + count < total

Begin(c) ==
    /\ pc = "idle"
    /\ call' = c
    /\ pc' = CASE c.op = "walk" -> "list" [] c.op = "detail" -> "log" [] OTHER -> "backends"
    /\ start' = Rows
    /\ UNCHANGED <<ledger, written, offset, page, shown, entry, decision, counts, born, gone>>

List ==
    /\ pc = "list"
    /\ \E before \in Top(Matching(call.filter), offset),
          upTo \in Top(Matching(call.filter), offset + PageSize(call.limit)) :
          /\ before \subseteq upTo
          /\ page' = upTo \ before
    /\ pc' = "count"
    /\ UNCHANGED <<ledger, written, call, offset, shown, entry, decision, counts, start, born, gone>>

(* The second statement of a page, and the client that asks for the next    *)
(* page, from where this one ended, as long as has_more says so.            *)
Count ==
    LET count == Cardinality(page)
        total == Cardinality(Matching(call.filter))
    IN  /\ pc = "count"
        /\ shown' = [w \in Writers |-> IF w \in page THEN shown[w] + 1 ELSE shown[w]]
        /\ page' = {}
        /\ IF HasMore(count, total) THEN pc' = "list" /\ offset' = offset + count
                                    ELSE pc' = "done" /\ offset' = offset
        /\ UNCHANGED <<ledger, written, call, entry, decision, counts, start, born, gone>>

-----------------------------------------------------------------------------
(* One entry: its row, then (selectinload) the decision of that id.         *)
DetailLog ==
    /\ pc = "log"
    /\ IF ledger[call.id] = Absent
       THEN pc' = "notFound" /\ entry' = entry
       ELSE pc' = "decision" /\ entry' = ledger[call.id].by
    /\ UNCHANGED <<ledger, written, call, offset, page, shown, decision, counts, start, born, gone>>

DecisionOf(id) ==
    IF ledger[id] # Absent /\ ledger[id].decided THEN ledger[id].by ELSE None

(* Mutant: the decision is not looked for by the id of the request.         *)
DetailDecisionOfAny ==
    /\ pc = "decision"
    /\ \E id \in LogIds : decision' = DecisionOf(id)
    /\ pc' = "done"
    /\ UNCHANGED <<ledger, written, call, offset, page, shown, entry, counts, start, born, gone>>

DetailDecision ==
    /\ pc = "decision"
    /\ decision' = DecisionOf(call.id)
    /\ pc' = "done"
    /\ UNCHANGED <<ledger, written, call, offset, page, shown, entry, counts, start, born, gone>>

-----------------------------------------------------------------------------
(* The summary: three statements with three different WHERE clauses.        *)
Part(label, part, count, next) ==
    /\ pc = label
    /\ counts' = [counts EXCEPT ![part] = count]
    /\ pc' = next
    /\ UNCHANGED <<ledger, written, call, offset, page, shown, entry, decision, start, born, gone>>

BackendStats ==
    LET rows == {w \in Rows : Since(call.filter, w) /\ Until(call.filter, w)}
        ofBackend(b) == {w \in rows : Values[w].backend = b}
    IN  Part("backends", "backends", [b \in Backends |-> Cardinality(ofBackend(b))], "statuses")

Statuses(rows) == [f \in BOOLEAN |-> Cardinality({w \in rows : Values[w].failed = f})]

(* Mutant: the breakdown by status covers all times.                        *)
StatusBreakdownOfAll == Part("statuses", "statuses", Statuses(Rows), "latency")

StatusBreakdown ==
    Part("statuses", "statuses", Statuses({w \in Rows : Since(call.filter, w)}), "latency")

LatencyPercentiles ==
    LET rows == {w \in Rows : /\ Values[w].timed /\ Since(call.filter, w)
                              /\ call.filter.backend \in {None, Values[w].backend}}
    IN  Part("latency", "samples", Cardinality(rows), "done")

-----------------------------------------------------------------------------
Step == \/ List \/ Count
        \/ DetailLog \/ DetailDecision
        \/ BackendStats \/ StatusBreakdown \/ LatencyPercentiles

Done == pc \in {"done", "notFound"} /\ UNCHANGED vars

Next ==
    \/ \E w \in Writers : RecordRow(w)
    \/ \E cutoff \in Times, ids \in SUBSET LogIds : PurgeRows(cutoff, ids)
    \/ \E c \in Calls : Begin(c)
    \/ Step
    \/ Done

Spec     == Init /\ [][Next]_vars
FairSpec == Spec /\ WF_vars(Step)

-----------------------------------------------------------------------------
(* No other row of these started at the same instant.                       *)
Alone(w, rows) == \A v \in rows \ {w} : Values[v].started # Values[w].started

(* One pair for each time a row came again.                                 *)
Repeats(times, rows) == UNION {{w} \X (2 .. times[w]) : w \in rows}

(* Pages move under a walk no further than the log has changed: of the rows *)
(* that are there all the time it misses no more than were purged, and it   *)
(* shows rows again no more often than rows were recorded meanwhile.  A log *)
(* that stands still is shown exactly once.  Rows that started at the same  *)
(* instant are excepted: their order may differ from page to page           *)
(* (RequestLogRepository.list, PageParams.build).                           *)
WalkDrift ==
    pc = "done" /\ call.op = "walk" =>
        LET wanted  == Wanted(call.filter)
            alone   == {w \in wanted : Alone(w, wanted)}
            missed  == {w \in (start \cap alone) \ gone : shown[w] = 0}
        IN  /\ Cardinality(missed) <= Cardinality(gone \cap wanted)
            /\ Cardinality(Repeats(shown, alone)) <= Cardinality(born \cap wanted)

(* The detail of an entry shows the decision of that entry, and none when   *)
(* it has none; it may show another one, or none, only when the entry was   *)
(* purged between the two statements (RequestLogRepository.get).            *)
DetailWhole ==
    pc = "done" /\ call.op = "detail" =>
        \/ entry \in gone
        \/ decision = IF Values[entry].decided THEN entry ELSE None

(* One pair for each row that was counted.                                  *)
Counted(count) == UNION {{b} \X (1 .. count[b]) : b \in Backends}

(* As long as no upper bound is asked for, which only the first statement   *)
(* of the summary heeds, its parts differ by no more than what has been     *)
(* recorded or purged between their statements, and there are no more       *)
(* latencies than requests (RequestLogService.summary).                     *)
SummaryDrift ==
    pc = "done" /\ call.op = "summary" /\ call.filter.before = None =>
        LET inTime     == {w \in Writers : Since(call.filter, w)}
            byBackend  == Cardinality(Counted(counts.backends))
            byStatus   == counts.statuses[TRUE] + counts.statuses[FALSE]
            ofLatency  == IF call.filter.backend = None THEN byBackend
                          ELSE counts.backends[call.filter.backend]
            recorded   == Cardinality(born \cap inTime)
        IN  /\ byStatus <= byBackend + recorded
            /\ byBackend <= byStatus + Cardinality(gone \cap inTime)
            /\ counts.samples <= ofLatency + recorded

(* Every read ends, also a walk through a log that changes: has_more does   *)
(* not promise a page for ever (PageParams.build).                          *)
EveryReadEnds == (pc # "idle") ~> (pc \in {"done", "notFound"})
=============================================================================
