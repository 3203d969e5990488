# TLA+ models of the AI infrastructure platform API

The service registers inference backends and models, binds models to backends,
keeps a log of routed requests, ranks backends for a model, and guards all of it
with API keys. It is a FastAPI application over one PostgreSQL database:
routes (`src/src/api`) call services (`src/src/service`), services call
repositories (`src/src/repository`). No state lives in the process; everything
that can go wrong between two requests goes wrong in the database. So most models
are about **transactions that interleave**: each HTTP request is a process, each
SQL statement with the Python code up to the next `await` is a step, and
PostgreSQL at READ COMMITTED decides what a statement sees and for whom it waits.
The last one is about how a push becomes the image that serves: webhook, Jenkins
pipeline (`ci/Jenkinsfile`), migration job, GitOps repository, alert.

## 1. Inventory

| Component (sources) | State | Operations | Hard behaviour | What makes it correct |
|---|---|---|---|---|
| Sessions, transactions (`repository/session.py`, `api/deps.py`) | transaction of each request, pool | begin with the request, commit after the answer, roll back on an exception | isolation level is the default, READ COMMITTED; answer before commit; statement_timeout and deadlock detection abort waits | a request that fails leaves nothing; every wait ends |
| Backend registry (`service/backend_service.py`, `repository/backend_repository.py`) | table `backend` | register, bulk_register, update, change_state | look-then-write; bulk inserts wait in the middle; crossing orders deadlock | names (URLs) unique, transitions enforced, counts true, conflicts real |
| Model bindings (same) | table `backend_model` | bind, unbind, replace, binding of a registration | multi-row statements that wait row by row; stale difference in replace | bound pairs exist, no circular wait of INSERTs, no binding lost or invented, replace is exact |
| Model catalogue (`service/model_service.py`) | table `model` | create, upsert | look-then-insert | one row per name |
| Request log (`service/request_log_service.py`) | tables `request_log`, `routing_decision` | record, purge, readers | validation after the first insert; purges of the same rows; ids used again | entries appear and vanish whole; purges count and keep their limits |
| API keys (`service/api_key_service.py`, `api/deps.py`, `ci/bootstrap_admin.py`) | table `api_key`, clock | authenticate, verify, create, revoke, bootstrap | check, then note the use, then work, in one transaction; concurrent revocations; time passes between | revoked keys are refused, revocation is final, last_used_at is close, the job makes one bootstrap key |
| Routing (`service/scoring.py`, `rank_candidates`, `pick_by_weight`) | table `backend_health_check` | report health, rank, pick | late reports, ties, two statements per ranking, rounding | excluded backends are never picked; ranking follows the policy |
| Listings, statistics (`api/pagination.py`, `api/routes/requests.py`, reads of `request_log_service.py`) | none | pages, detail, summary | several statements per read, offsets that shift, ids used again | what is shown differs from what was there by no more than what changed |
| Lifespan, probes (`main.py`, `routes/health.py`) | pool | start, stop, healthz, readyz | pool exhausted by waiting requests | readiness tells the truth |
| Delivery (`ci/Jenkinsfile`, `ci/migrate.py`, `ci/notify_alertmanager.py`) | branch, webhooks, builds, schema, image in the GitOps repository, alert | push, guard, test, migrate, write, notify | webhooks lost and reordered, builds by hand, failing and skipped stages, rejected pushes, roll-backs meanwhile | no relevant change is forgotten, no build undoes a newer image, a failure is heard, a deployed image finds its schema |

Components meet in the database only: a route's authentication, its service and
the bindings of a registration share one transaction (`get_session`), and every
other influence between requests is a row, a row lock or an index check. The
full list of hazards, each at its line, is `hazards` in `PROJECT.json`.

## 2. Modules

```
ReadCommitted           a table: committed version, draft, lock owner per row
                        -> ReadCommittedProofs, lemmas the other proofs share
  BackendRegistry       table backend        -> BackendRegistryProofs, MCBackendRegistry
                        implements BackendCatalogue
  ModelBindings         backend_model, model -> ModelBindingsProofs, MCModelBindings
  RequestLog            request_log, routing_decision -> RequestLogProofs, MCRequestLog
                        implements RequestLedger
    LogReads            readers of a RequestLedger -> LogReadsProofs, MCLogReads
  ApiKeys               api_key and the clock -> ApiKeysProofs, MCApiKeys
                        implements KeyLifecycle
Scoring                 scores, ranking and choice, as operators
  Routing               backend_health_check and rankings -> RoutingProofs, MCRouting
Delivery                branch, builds, schema, image, alert -> DeliveryProofs, MCDelivery
```

**ReadCommitted.** A slot of a table holds the version committed last (`row`), the
version its owner will commit (`draft`) and the transaction that owns the row
lock (`owner`). `Visible` is what a SELECT returns, `Lockable` whether an UPDATE,
DELETE or INSERT of that key need not wait, `InDoubt` whether a unique check
must wait; `Committed` and `RolledBack` end a transaction. PostgreSQL is not in
the repository: these definitions are marked external, except the two ends of
`Database.transaction`.

**BackendRegistry.** `pc` names the next statement of each request. `CheckName`,
`CheckUrl`, `ResolveModels`, `Insert` are `register`; `BulkItem` (one row of the
multi-row INSERT, which may wait) and `BulkDone` are `bulk_register`; `Read`,
`CheckUrl`, `ApplyUpdate` are `update` and `change_state` (the DELETE route is a change
to `disabled`). `Begin` and `Refuse` are arrival, without and with a failing validation.
`Commit`, `Aborted` and `LockWaitAborted` end the transaction. The unique index on the
name is used by the code (`backend_name_unique`); one on the URL is not known from the
repository, so `UniqueColumns` says which there are: RegistryRace has both, the theorems
need the name only. **BackendCatalogue** is what readers are promised: the backends of a
request appear together, active and under names that nobody has; afterwards a commit
changes the URL or the state of one of them; none ever goes or is renamed.
`ImplementsCatalogue` is the refinement. Which states may follow each other it does not
say, for the code does not keep that (RegistryStateRace).

**ModelBindings.** The rows of an INSERT or DELETE are taken one after the other
(`InsertItem`, `DeleteItem`). An INSERT takes them in the order of its VALUES, which the
code sorts (`First`); a DELETE .. IN has no order but that of its plan, so that `MoveTo`
goes on to any row it has left and `at` holds the one it has reached. A DELETE compares
with the snapshot it took (`DeleteStart`, `seen`), as PostgreSQL does after a wait.
`ReadBound` is the read on which `replace_models` decides. `DeadlockDetected` is
PostgreSQL's deadlock detector, which may abort any request in a circle of waits
(`InCircle`). Models are created and upserted concurrently.

**RequestLog.** `Find`, `Insert`, `RecordDecision` are `record`; `Select`,
`DeleteRow`, `DeleteDone` are `purge_finished_before`, whose rows are reached in
any order. Rows carry the request that wrote them (`by`), so an id that is
purged and recorded again is told apart. A request that has not finished is one
that finishes after every cutoff. **RequestLedger** is what readers are
promised: entries appear whole and vanish whole, only when they had finished
before a cutoff. `ImplementsLedger` is the refinement.

**LogReads.** A reader takes several statements, each of which sees the ledger of
its moment, and the ledger changes in between by `Record` and `Purge` of
**RequestLedger** and by nothing else, which `LogImplementsLedger` justifies: the
transactions of the writers need not be modelled again. `List` and `Count` are
the two statements of a page; a walk asks for the next page from where the last
one ended, as long as `has_more` says so. `Top` leaves rows that started at one
instant in any order, and may order them differently in each statement, for
`ORDER BY started_at DESC` has no second key. `DetailLog` and `DetailDecision`
are the row and its decision (`selectinload`). `BackendStats`, `StatusBreakdown`
and `LatencyPercentiles` are the summary, each with the bounds that its WHERE
clause has. `start`, `born` and `gone` record for the properties what was there
when the read began and what has changed since.

**ApiKeys.** `AuthRead`, `AuthCheck`, `Touch` run in front of every operation
(`require_scope`, `verify`); `VerRead`, `VerCheck` are POST /keys/verify; `Draw`,
`PrefixTaken`, `Insert` are `create`; `RevokeRead`, `RevokeUpdate` are `revoke`;
`BootstrapList` starts the bootstrap job, which looks through one page (`PagesOf`,
`limit=10` in the code) of the keys whose name contains its own (`Matching`, ILIKE) for
one of exactly its name (`HasName`). Names matter only as far as that goes (`NameKinds`),
and POST /keys takes any of them, the job's own included; which keys fill the page is left
open, although the code orders them by id. `Answer` comes before `Commit`, as FastAPI
runs the exit code of `get_session` after it has sent the answer; `Revocation` says how
far the revocation of a key has come (nothing, answered, committed). `Loaded` has the
session's identity map: with autoflush off, the object of a key whose use was noted is
what a later SELECT of the same request returns. `Tick` moves the clock, but not while
an UPDATE has waited `MaxWait`. **KeyLifecycle** is what those are promised who hold a
key: it is made at once, as the only one of its maker, with rights that never change,
and revoked at most once, at an instant that never changes. `ImplementsLifecycle` is the
refinement: notes of a use and all that is not committed are invisible in it.

**Scoring** and **Routing.** `Score`, `Ranked` and `Pick` are `score_candidates` and
`pick_by_weight` in exact arithmetic: factors and scores are rounded where the code
rounds them, but to `Parts` (6 in the run, 1000000 in the code), so that roundings
to 0 and to equal scores are frequent. Square roots (`session_sticky`) are rounded
without computing them (`RoundRoot`). `Ranked` is the one sequence of the scored
candidates that `Precedes` orders, as a sort returns it; `Pick` walks the eligible
positions with their running sum. In `Routing` a `Report` is one step, since no
backend is ever deleted, and dated with the instant its sender gives or with the
start of its transaction; a ranking is `ListCandidates`, then `ReadHealth`, which
takes any of several latest reports. `Change` stands for what commits of the other
components do to the backends that serve the model. `known` is kept for checking only.

**Delivery.** A commit is its place on `main` and the code its tree holds, that is,
what lies under the paths the guard looks at; a tree that differs in documentation only
holds the same code. `Listed` says whether `git diff --name-only` names one of those
paths: it detects renames and prints only where a moved file is now, so that between the
trees of `MovedAway`, which differ by files moved out of those paths, it names none. `Push` moves `main` by one or
several commits and leaves a webhook, which `Deliver` brings in any order or
`Lose` drops; `Manual` starts a build without a known range. `Start` checks out
what `main` is by then, not what the webhook said, and only when no other build
runs (`disableConcurrentBuilds`). `Guard` is the Trigger Guard, `Test` to `Write` the
stages, `Fail` and `Abort` may hit any of them. `Write` is the push to the GitOps
repository: rejected when somebody else has pushed since the clone
(`PushElsewhere`, `HandEdit`), tried again on top of a change elsewhere, in conflict
with a change of the same image. `Migrate` is `ci/migrate.py`, `Notify` and
`Expire` are `ci/notify_alertmanager.py` and its `endsAt`. `Ready` is the answer of
`/readyz` for an image and the schema it meets.

What the models leave out in each operation: values that decide nothing (weight,
cost, tokens), texts, the columns of replies. Field validation is one choice
between accepted and refused.

Definitions called "Mutant" are changed versions of definitions beside them, as
a plausible bug would change them (a dropped limit, a forgotten rollback, ids not
sorted). Nothing uses them; replacing the original by its mutant makes TLC report
a violation of the property that `mutants` in `PROJECT.json` names, which shows
that the property can tell.

## 3. Runs

| Run | Instance | Checks | Shows |
|---|---|---|---|
| RegistryRace | 3 requests of every kind, 3 names, 3 URLs, both indexed, 1 row there, 4 ids, two batches of free names and URLs that cross and one that repeats a name | TypeOK, NameUnique, InsertedCounted, BulkComplete, UrlUnique, ConflictIsReal, ImplementsCatalogue | with both indexes the registry is right in names, URLs, counts and conflicts, and a batch is seen whole or not at all, under all interleavings |
| RegistryStateRace | 2 requests, 1 backend | StateTransitionsEnforced **violated** | disabled becomes draining |
| BindingsRace | 3 requests, 2 backends (one not yet registered), 3 models (one not yet there) | TypeOK, BoundExists, OnlyDeletesCircle, OutcomeExplained | bindings neither lost nor invented, no circle of waits with an INSERT in it |
| BindingsEnds | 2 requests, 4 models, 2 of them bound, bodies of 2 that overlap | EveryRequestEnds | requests end although no timeout cuts off a wait, only DELETEs that cross each other |
| RequestLogRace | 3 requests, 2 ids with old records, 2 instants, batches 1 and 2 | TypeOK, DecisionHasLog, AllOrNothing, PurgesCounted, ConflictIsReal, ImplementsLedger | the log is the ledger |
| ReadsRace | 4 ids, 3 entries there, 2 more to come, newer and older than all; 2 that started at one instant; page sizes 1, 2 and 3, a limit above the maximum; 3 filters | TypeOK, WalkDrift, DetailWhole, SummaryDrift, EveryReadEnds | pages, detail and summary go wrong by no more than the log changed meanwhile |
| KeysRace | 3 requests, 1 key that expires at 4, clock 0..4, throttle 1, wait 1 | RevokedKeyRefused, RevokeEffective, RevokedOnPurpose, LastUsedLag | use, verification and revocation of one key over time |
| RevokeAnswered | 2 requests, 1 key | RevokedOnceAnswered **violated** | a key is let in after its revocation was answered |
| KeysCreate | 3 requests, 4 tokens, some with one prefix, 1 of a name that contains the job's, 2 attempts, a page of 2 | TypeOK, OneKeyEach, BootstrapOnce, ImplementsLifecycle | creations with collisions; bootstrap jobs one after the other, with keys of their name and similar ones made in between; the keys live as KeyLifecycle says |
| RoutingRace | 2 reports, 1 ranking, 2 backends that come and go, clock 0..2; 36 x 36 pairs of candidates under 4 policies | TypeOK, ReportsCount, FailingNeverChosen, BetterRanksFirst, SharesAreScores | late, equal and future reports are ranked by their instant; the ranking is monotone, the choice fair |
| DeliveryRace | 3 commits in pushes of 1 or 2, 2 codes, one of them the other less a moved file, 3 builds, 2 attempts to push | TypeOK, NothingForgotten, NeverBackwards, RedIsHeard | every order of pushes, webhooks and builds, with failures at every stage |
| DeliveryGreen | 2 commits, the second may expect another version of the schema, 2 builds | GreenMeansConsistent **violated** | a green pipeline leaves an image that the schema does not fit |

**Bounds.** Requests are served once, so that their number bounds everything. Three is
enough for a request to wait for one that waits for another, and for a row that
disappears and comes back between two steps of a third; two is enough for a deadlock or
a stale decision. Two values per key suffice for "same or different" (three URLs, so
that one batch can insert two rows), ids and tokens are one or two more than what is
there at the start. `MaxBackends`, `MaxTime`, `MaxWait`, `MaxAttempts` (5 in the code, 2
here; the loop has no other use of the number), `ListLimit` (10 in the code, 2 here: one
other key of such a name and the job's own fill the page, and a second one hides it), `MaxCommits`, `MaxPush`, `MaxBuilds`,
`MaxTries` (3 in the code, 2 here) and the batch and page sizes (2 and 3 here, 50 and
200 in the code) are bounds or parameters by name. A page size below the number of
entries makes a walk of several pages, and there is an entry less than there are ids, so
that a purged id is used again under the reader. Three builds let one fail, one overtake
it and one come late; three commits let a push of two begin below what a build has
already seen. `Done` lets a run stop when all requests have ended (in Routing the
backends may always change), so deadlock is checked everywhere. `BetterRanksFirst` and
`SharesAreScores` speak of the operators of Scoring, not of the state, and are evaluated
while nothing has happened: every pair of candidates made of 2 weights, 3 costs (free,
dearer than the baseline, so dear that its factor is 0), 3 latencies (0, half of the
baseline, beyond it), unknown latency, unknown health and failure, under all 4 policies.
Requests are symmetric; runs with liveness use no symmetry, nor does DeliveryRace, whose
codes differ in which becomes the other by a move. They expect one version of the schema
there; DeliveryGreen is the instance where they do not, and no file moves.

**Fairness.** `FairSpec` asks weak fairness of the steps of each request, never
of arrivals, failures or the clock: uvicorn and PostgreSQL run what can run. In
ModelBindings it does not include that a wait is cut off, with one exception: a DELETE in
a circle of waits is, for PostgreSQL's detector looks for circles after
`deadlock_timeout` and aborts somebody in it. So `EveryRequestEnds` says there that no
other wait ever needs to be cut off, by the detector or by `statement_timeout`. In LogReads
(`EveryReadEnds`) the reader's steps are fair and the writers are not; each writer
writes once, so that the log grows finitely often, as it does for a client that
reads faster than entries come in. `Delivery` has no liveness: nothing in the
repository promises that a lost webhook is ever made up for.

**Disagreements found.** Three are runs:

1. `change_state` reads without a lock and updates by id. Two requests can take
   a backend from `disabled` to `draining`, which
   `tests/test_backend_service.py:98-99` says raises ConflictError.
2. The answer to a revocation is sent before its transaction commits
   (`api/deps.py:26`). A request that comes after the answer may still be let in, and
   if the commit fails the key was never revoked. `tests/test_http_api.py:400-405`
   expects an answered revocation to hold for the next request.
3. "只要流水线绿了，就说明「代码 + 表结构」这一对是一致的" (`ci/README.md:33-34`):
   `ci/migrate.py` knows one file and skips when one table exists, and the tests
   that would notice are skipped when PostgreSQL cannot be reached
   (`tests/conftest.py:61-65`). A green pipeline leaves an image whose
   probe says 503 wherever it is deployed.

Others follow from the models and have no run of their own:

- `bulk_register` does not look for the URL, which `register` and `update` do. Unless
  the schema has an index on the URL (`UniqueColumns = {"name"}`), a URL is stored twice.
- `PUT /backends/{id}/models`, "全量替换挂载模型", computes its difference from an
  unlocked read: two of them leave a set that neither gave.
- `DELETE .. WHERE model_id IN (..)` locks its rows in an order that nobody chooses: two
  unbindings or replacements of one backend may wait for each other, and PostgreSQL
  aborts one of them, which is answered 500.
- Two bootstrap jobs at the same time make two keys (`JobsOverlap = TRUE`).
- "幂等键是 name == 'bootstrap-admin'：已存在就跳过，重复执行不会堆一串 key"
  (`ci/bootstrap_admin.py`): the job looks only at the first ten keys whose name contains
  the string. Ten other keys with such names and smaller ids hide its own, and every
  further run makes another one. `BootstrapOnce` is stated for fewer than that. Names are
  free in POST /keys, where a key of exactly that name can be created as well, and as
  often as one likes; the job then takes it for its own and makes none.
- Two administrators who verify or revoke each other's keys deadlock, since the note
  of a use stays locked until the request ends.
- Entries that started at one instant have no order: a walk may omit one and show
  another twice although the log stands still. `WalkDrift` excepts them.
- The detail of an entry shows no decision, or that of another entry, when the entry
  was purged between its two statements (and its id used again). `DetailWhole` says
  this is the only case.
- Only the first statement of the summary heeds `started_before`, and only the last one
  `backend_id`: with an upper bound its parts count different requests.
  `SummaryDrift` is stated without one.
- A push that moves a file out of `src/`, `tests/` or `ci/` changes the code, but the
  Trigger Guard sees only the new path (`ci/Jenkinsfile:134`, where `--no-renames` is
  missing) and skips it. `NothingForgotten` excepts codes that differ by such moves
  (`ByMoves`).
- After a failed build, a push of documentation only is skipped, ends green and
  resolves the alert, although the code of `main` is not deployed.
  `NothingForgotten` excepts what a failed build held; `RedIsHeard` what a later
  build resolved.
- A build that knows no range compares with the commit before only: by hand, it
  skips code whose webhook was lost if documentation came last.

## 4. Proofs

TLAPS checks them for all values of the constants. Each module names its
assumptions and TLC evaluates them in the runs. The marks for "none" are no values;
sizes, models and batch sizes are natural numbers, instants are integers. There are
finitely many log ids, and finitely many entries in `LogReads`, each of which starts
out under one id at most. There are finitely many backends; weights are positive, and
costs and latencies not negative (`gt=0` and `ge=0` in `api/schemas.py`); `Parts`, to
which scores are rounded, is even. The backends at the start have distinct names, the keys at the
start were made by none of the requests and last used at 0 or never. The name column is
indexed (`UniqueAssumption`; without the index `NamesStayUnique` is false). Every
constant set may be infinite otherwise; the number of requests is not bounded. Two
theorems have a hypothesis of their own, without which they are false (section 3):
`UrlsStayUnique` that the URL is indexed, and distinct at the start; `OneBootstrapKey`
that bootstrap jobs do not overlap, and that there is one key of their name at most at the
start. There are finitely many tokens. `MovedAway` is any relation between codes.

Each proof goes the same way: an invariant `IInv`, defined at the beginning of the
component's proof module (no run lists it: it is proved), holds in `Init` (`InitInv`) and is
kept by every step (`NextInv`, with a lemma for each action, and under it a step
for each part); the theorems follow from it. Actions of one shape share a lemma
(`MoveStep`: goes on without writing; `FailStep`; `CommitStep`), and
`ReadCommittedProofs` says once what a write, a commit and a rollback do to a table.
Where a property needs more than the others, it has a second invariant that is kept
given `IInv`: `UrlInv`, `CountInv`, `BulkInv` and `WrittenInv` in the registry, `WishesOK` in the
bindings, `TallyOK` in the log, `MadeInv` and `BootstrapInv` of the keys.

**BackendRegistryProofs** (`TypeCorrect`, `NamesStayUnique`, `FailuresLeaveNothing`,
`UrlsStayUnique`, `CountIsStored`, `BulkNamesThere`, `ConflictsAreReal`,
`RegistryImplementsCatalogue`). `NameUnique` speaks of committed rows and is not
inductive: two drafts of one name would both be committed. So `IInv` says that names are
distinct in what there would be if everybody committed (`DraftNamesDistinct`), and
`SlotsOK` that a request that holds no lock has nothing to commit, that an update keeps
the name, and that ids from `nextId` on are free. `FreeName` is the core: a name that is
neither visible nor in doubt is in no draft, except one of the same transaction, which
its own statement sees. The lookups of `register` play no part: the index alone keeps
names unique. A URL can change, so that for `UrlUnique` drafts are not enough: a
rollback brings the committed URL back. `UrlInv` keeps all versions of a row apart from
those of the others. `CountInv` counts the drafts of a request, which its commit turns
into rows; `BulkInv` says that a bulk sees the name of every item it has passed, for a
name that it has skipped was committed, and names do not change. A conflict is real
because a check does not answer while it is in doubt. For the refinement, `WrittenInv`
says what a commit is going to show: a request that has written to a backend others can
see holds no other row, and its draft differs from the committed version in one column;
all other drafts are of active, new backends. So a commit is `Modify`
(`CommitModifies`), `Register` (`CommitRegisters`, with `DraftNamesDistinct` for the
names) or, for an update that changes nothing, a stutter, and no other step changes what
is committed (`RowsStay`).

**ModelBindingsProofs** (`TypeCorrect`, `PairsExist`, `InsertsNeverCircle`,
`FailuresLeaveNothing`, `OutcomesAreWishes`). For `BoundExists` the invariant carries
what a request has looked up until it uses it (`FoundOK`: models and backends are never
deleted) and says that drafts of pairs have their models (`PairsOK`). For
`OnlyDeletesCircle` it says that a request that inserts holds only pairs it inserted, and
only below those it still has to do (`WorkOK`); `OwnersOK` says who can hold a lock
at all, so that a request that is waited for is one whose pairs `WorkOK` describes. Who
waits for an INSERT that waits is an INSERT at a smaller id (`WaitsClimb`); of the INSERTs
in a circle one waits at the least id (`LeastOf`), and nobody could wait for it.
`OutcomeExplained` speaks of the end of a run; `WishesOK` says what is so before: what a
request has still to do is what it asked for (`ListedBy`), every version of a pair has
somebody who wanted it (`RowExplained`), a pair that a request asked for and has passed
is there, in its own draft or in the table, or has been taken away by a committed
request (`ServedBy`), and so was every pair that was ever there and is not any more
(`GoneExplained`).

**RequestLogProofs** (`TypeCorrect`, `DecisionsKeepTheirLog`, `RecordsAreWhole`,
`PurgesKeepTheirLimit`, `ConflictsAreReal`, `LogImplementsLedger`, `CountsAddUp`).
`SlotsOK` describes every locked row: a record holds a free id with its draft, and, once
it is about to commit, the decision it asked for (`RecordedBy`); a purge holds rows
that finished before its cutoff and whose drafts are gone with their decisions
(`PurgedBy`); nobody holds a decision without its log. `DoomedOK` says that the
writer of a row that a purge has selected has ended: a row that stands under the
same id and the same writer is that very row, which is why no purge deletes a
newer record. The refinement is then short: every step but a commit leaves the
committed rows alone (`RowsKept`, proved with `IInv`), and a commit is `Record`,
`Purge` or, for a purge that found nothing, no change (`CommitRefines`).
For `PurgesCounted`, `TallyOK` says that a purge under way has counted exactly the rows
it holds, and has none of them before it once more; its commit then moves as many from
one side of the equation to the other. The sum of what purges have answered is the
cardinality of a set of pairs (`Deletions`), one for each deletion, so that a commit adds
a disjoint set to it and no induction over a sum is needed.

**LogReadsProofs** (`TypeCorrect`, `DetailsMatch`, `WalksDriftNoFurther`,
`SummariesDriftNoFurther`). The reader of a log that changes: for a walk `IInv` keeps two
accounts (`WalkOK`). `Passed` are the rows there from the start that the walk has gone
past and not shown: it begins empty, no page adds to it, and each purge of a newer row
moves at most one row past the reader. `Due` are rows already shown that lie ahead of
the reader again: each newer record puts at most one there, and showing it takes one
from `Due` and adds one to `Repeats`. Both need that rows are alone at their instant: a
page then ends between two rows in the only order there is (`PageFacts`). For the
summary, what the first statement counted lies between the rows that have been there
since and those together with the purged ones (`SummaryOK`), and each later count is
compared with these. Sums over backends are cardinalities of sets of pairs here, too
(`Counted`, `CountedIs`).

**ApiKeysProofs** (`TypeCorrect`, `LateIsRefused`, `AnsweredIsRevoked`,
`RevokedOnlyOnPurpose`, `LastUseKnown`, `OneKeyPerCreation`, `RevokedForGood`,
`KeysImplementLifecycle`, `OneBootstrapKey`). The invariant has a part for each request
and one for each key. `OldKeyOK` says what may differ between the two versions of a key:
a revocation stays, a use is not forgotten by more than a wait, and a draft that newly
revokes belongs to a revocation about to commit. `LateOK` carries a refusal from the
moment a request came too late to the check it fails: the row it reads is revoked.
`NotedOK` is the argument for `LastUsedLag`: whoever was let in has either found a note
recent enough or holds the row with its own, and whoever overwrites a note has an
instant at most `MaxWait` older (`ControlOK`, which `Tick` keeps since the clock does
not pass a waiting UPDATE). `RevokeOK` and `CreateOK` tie an answer to the draft that
the commit will bring. For the refinement, `SlotsFollow` says that no step but a commit
changes what others see of a key, and `MadeInv` that drafts keep the rights of their
rows. A commit may bring two drafts, the noted use of the key that opened the door and
the key that was made or revoked; `CommitLives` shows that a holder sees one of them at
most, since a request that makes a key revokes none. `RevokedForGood` is the part of it
that a revoked key sees. For `OneBootstrapKey`, `BootstrapInv` says that once a job has
found no key that a job has made, or that was there, under its name, there is none,
committed or drafted, until it inserts its own. It finds one if there is one, because
its page is then the whole of what there is to see (`WholePage`), as long as there are
`Few` others; and if there are few after a step there were few before it (`FewBefore`),
so that the invariant is carried along as far as the condition holds.

**RoutingProofs** (`TypeCorrect`, `ReportsAreUsed`, `FailingIsExcluded`,
`FailingIsNeverChosen`, `SharesAreFair`, `RankingsAreFair`, `BetterIsRankedFirst`,
`RankingsAreInOrder`). `ReadOK` says that a ranking has, for each backend, a report with
no earlier instant than any committed when it began: committed reports neither change nor
go, so that this stays true while others arrive. `FailingIsExcluded` follows: a failing
backend gets health factor 0, and so a score that is left out. The rest is about the
operators of Scoring, for any candidates (`Rankable`). Nothing needs an induction: the
least number for which a fact would be wrong gives the contradiction (`LeastNatural`).
So an order by `Precedes` exists and `Ranked` is one (`AnOrderExists`, `RankedFacts`);
the walk of `Pick` stops at the eligible position whose running sum is the first to
reach the fraction (`PickIsEligible`), which is why an excluded one is never chosen and
the fractions of each are exactly its share (`RankingIsFair`: `Total` and `Running` are
cardinalities of sets of parts, so that no sum is taken apart). `ScoreMonotone` is the
argument for the order: powers, roots and the rounding half to even are monotone
(`PowerMonotone`, `RootMonotone`, `RoundMonotone`), and so is each factor, so that who is
no worse in anything has no smaller score, and `BetterIsBefore` compares ids when the
scores are equal. `RankingsAreFair` and `RankingsAreInOrder` say the same of the rankings
that requests get, with any number of candidates, where the run has two.

**DeliveryProofs** (`TypeCorrect`, `FailureHeard`, `NothingLeftOut`, `OnlyForwards`).
`InTurn` says that builds run one after the other and that heads do not go back.
`NothingForgotten` compares the image with the end of `main` through any number of
pushes, skips and builds: `Traced` says that from every place where `main` once ended
(`Tip`) there is one further on with the same code, but for files that moved out of it (`ByMoves`),
which is the end of `main` or where a
push began that is still open: in a webhook, in the queue, lost, or in a build that
did not skip it (`Open`). A skipped build closes its push only because the guard listed nothing between
its two ends (`MovesUnlisted`, `PushesStay`), so that each step lengthens the trace by one
link (`MovesTrans`) and the history need not be looked back on. When all is quiet, only lost
webhooks and builds are left to be open, and by `BuildOK` the image is no older than the
head of any build that found its code deployed or wrote it.

**Only model-checked**: the liveness properties `EveryRequestEnds` and `EveryReadEnds`,
since these provers treat neither fairness nor ENABLED. Every other property of a run
that passes is proved. The three violations are counterexamples, found by TLC.

## 5. What is not modelled

- The connection pool: a request that waits for a connection holds no lock, so that
  it adds no order of steps to the models; how long it waits is a matter of numbers.
- Start and stop of the application, `/healthz`, and what happens between a new
  manifest and the pods (ArgoCD): `Ready` says what the probe of an image finds.
- The listings of backends, models, keys and health reports: they page through the
  same `PageParams` as the log, and those tables never lose a row.
- In Delivery: forced pushes, branches other than `main`, a second Jenkins, and the
  image registry, whose failures are failures of the stage `image`.
- Attributes of models, and values that decide nothing. The `rate_limit` of keys
  is stored and never enforced by the code.
- The schema is not in this repository; constraints are those that the code
  names or relies on. The unique index on the name is one, the one on the URL is
  a parameter. Foreign keys are modelled by their effects: `CASCADE` of decisions,
  pairs that need their rows, records whose key or backend does not exist.
- Several statements of one transaction that see each other's effects are
  modelled (`Visible`); savepoints, prepared transactions and two-phase commit
  do not occur in the code.
- The error of binary floats in scores. `pick_by_weight` ends with the last eligible
  candidate if the sums of floats differ; with exact sums its walk always arrives.
- Failing transports: a client that repeats a request is another request.

## 6. Plan

What is left would be more model:

1. The replies of PATCH and of state changes, which show an object that the request has
   read before (`autoflush` and `expire_on_commit` are off).
2. The listings of the other tables, if one of them is ever purged.
