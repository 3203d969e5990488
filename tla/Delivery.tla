------------------------------ MODULE Delivery ------------------------------
(***************************************************************************)
(* How a push becomes the image that runs: webhook, Jenkins pipeline       *)
(* (ci/Jenkinsfile), migration of the database (ci/migrate.py), image tag  *)
(* in the GitOps repository, alert (ci/notify_alertmanager.py), and what   *)
(* the readiness probe of the image says (api/routes/health.py).           *)
(*                                                                         *)
(* A commit is its number on the branch main and the code (all paths that  *)
(* the guard looks at) that its tree holds, so that a commit that touches  *)
(* documentation only has the code of the one before.  main is never       *)
(* rewritten.  Jenkins, Gitea, git and PostgreSQL are external: they fail, *)
(* lose and reorder what the pipeline does not order.                      *)
(***************************************************************************)
EXTENDS Integers, Sequences

CONSTANTS
    Codes,          \* the code a commit may hold
    MovedAway,      \* <<c, d>>: d is c but for files that moved out of those paths
    Expects,        \* the schema version each code expects
    InitVersion,    \* the version that migrations/001_init.sql makes
    MaxCommits,     \* bound: commits on main
    MaxPush,        \* bound: commits of one push
    MaxBuilds,      \* bound: builds that start
    MaxTries,       \* attempts to push to the GitOps repository
    NoVersion       \* there is no table schema_migration

Commits == 1..MaxCommits
Builds  == 1..MaxBuilds

ASSUME VersionAssumption == Expects \in [Codes -> Nat] /\ InitVersion \in Nat /\ NoVersion \notin Nat
ASSUME MovedAssumption   == MovedAway \subseteq Codes \X Codes
ASSUME BoundAssumption ==
    /\ {MaxCommits, MaxPush, MaxBuilds, MaxTries} \subseteq Nat \ {0}

VARIABLES
    main,       \* the code of each commit
    hooks,      \* webhooks Gitea has not delivered: the pushes <<before, after>>
    lost,       \* and those it never will
    queue,      \* builds Jenkins has to start: the GIT_BEFORE of each, 0 if none
    builds,     \* the builds, by number
    schema,     \* schema version of the delivery database
    image,      \* commit whose image the GitOps manifest names, 0: no manifest
    byHand,     \* history: that image was put there by a person
    alert       \* build whose failure Alertmanager shows, 0 if none

vars == <<main, hooks, lost, queue, builds, schema, image, byHand, alert>>

Running == {"guard", "test", "migrate", "image", "write", "post"}
Green   == {"skipped", "absent", "unchanged", "written"}

Build == [stage  : {"none", "ended"} \cup Running,
          before : 0..MaxCommits,   \* GIT_BEFORE
          head   : 0..MaxCommits,   \* the commit that was checked out
          seen   : 0..MaxCommits,   \* image in its clone of the GitOps repository
          behind : {"no", "elsewhere", "image"},    \* what was pushed there since
          tries  : 0..MaxTries,
          result : {"none", "red", "aborted"} \cup Green,
          notice : {"none", "delivered", "gone"}]   \* of its failure: lost, or expired

TypeOK ==
    /\ main \in Seq(Codes) /\ Len(main) \in Commits
    /\ hooks \subseteq Commits \X Commits /\ lost \subseteq Commits \X Commits
    /\ queue \in Seq(0..MaxCommits)
    /\ builds \in [Builds -> Build]
    /\ schema \in Nat \cup {NoVersion}
    /\ image \in 0..Len(main) /\ byHand \in BOOLEAN
    /\ alert \in {0} \cup Builds

Init ==
    /\ \E code \in Codes : Expects[code] = InitVersion /\ main = <<code>>
    /\ hooks = {} /\ lost = {} /\ queue = <<>>
    /\ builds = [b \in Builds |->
          [stage |-> "none", before |-> 0, head |-> 0, seen |-> 0, behind |-> "no",
           tries |-> 0, result |-> "none", notice |-> "none"]]
    /\ schema \in {NoVersion, InitVersion}
    /\ image \in {0, 1} /\ byHand = FALSE
    /\ alert = 0

-----------------------------------------------------------------------------
(* People, Gitea and the other writers of the GitOps repository.            *)
Push ==
    /\ \E n \in 1..MaxPush : \E codes \in [1..n -> Codes] :
          /\ Len(main) + n <= MaxCommits
          /\ main' = main \o codes
          /\ hooks' = hooks \cup {<<Len(main), Len(main) + n>>}
    /\ UNCHANGED <<lost, queue, builds, schema, image, byHand, alert>>

Deliver(h) ==
    /\ hooks' = hooks \ {h}
    /\ queue' = Append(queue, h[1])
    /\ UNCHANGED <<main, lost, builds, schema, image, byHand, alert>>

Lose(h) ==
    /\ hooks' = hooks \ {h}
    /\ lost' = lost \cup {h}
    /\ UNCHANGED <<main, queue, builds, schema, image, byHand, alert>>

(* A build that a person starts; Jenkins queues it once.                    *)
Manual ==
    /\ \A i \in 1..Len(queue) : queue[i] # 0
    /\ queue' = Append(queue, 0)
    /\ UNCHANGED <<main, hooks, lost, builds, schema, image, byHand, alert>>

Pushed(what) ==
    builds' = [b \in Builds |->
        IF builds[b].stage = "write" /\ builds[b].behind # "image"
        THEN [builds[b] EXCEPT !.behind = what] ELSE builds[b]]

PushElsewhere ==
    /\ Pushed("elsewhere")
    /\ UNCHANGED <<main, hooks, lost, queue, schema, image, byHand, alert>>

(* The manifest is put there, or the image is rolled back.                  *)
HandEdit ==
    /\ \E i \in Commits :
          /\ i < image \/ image = 0
          /\ \E b \in Builds : builds[b].head = i /\ builds[b].result \in Green \ {"skipped"}
          /\ image' = i
    /\ byHand' = TRUE
    /\ Pushed("image")
    /\ UNCHANGED <<main, hooks, lost, queue, schema, alert>>

-----------------------------------------------------------------------------
GoTo(b, stage) == builds' = [builds EXCEPT ![b].stage = stage]

End(b, result) ==
    builds' = [builds EXCEPT ![b].stage = "post", ![b].result = result, ![b].seen = 0,
                             ![b].behind = "no", ![b].tries = 0]

Checkout(b) ==
    /\ queue # <<>> /\ builds[b].stage = "none"
    /\ \A c \in 1..b - 1 : builds[c].stage # "none"
    /\ builds' = [builds EXCEPT ![b].stage = "guard", ![b].before = Head(queue),
                                ![b].head = Len(main)]
    /\ queue' = Tail(queue)
    /\ UNCHANGED <<main, hooks, lost, schema, image, byHand, alert>>

(* Mutant: without disableConcurrentBuilds.                                 *)
StartConcurrent(b) == Checkout(b)

Start(b) ==
    /\ \A c \in Builds : builds[c].stage \notin Running
    /\ Checkout(b)

(* The guard reads git diff --name-only, which detects renames: of a file   *)
(* that moved it prints only where it is now.                               *)
Listed(c, d) == c # d /\ <<c, d>> \notin MovedAway

(* Mutant: only the last commit is looked at.                               *)
RelevantLast(b) ==
    LET head == builds[b].head
    IN  head > 1 => Listed(main[head - 1], main[head])

(* Whether a path is listed between where the push started or, if that is   *)
(* not known, the commit before, and the tree; a first commit has none.     *)
Relevant(b) ==
    LET head == builds[b].head
        base == IF builds[b].before # 0 THEN builds[b].before ELSE head - 1
    IN  base # 0 => Listed(main[base], main[head])

Guard(b) ==
    /\ builds[b].stage = "guard"
    /\ \/ Relevant(b) /\ GoTo(b, "test")
       \/ ~ Relevant(b) /\ End(b, "skipped")
    /\ UNCHANGED <<main, hooks, lost, queue, schema, image, byHand, alert>>

(* Resolve Tag, Fetch Schema, Test.  The tests make a database of their own *)
(* from 001_init.sql, and one of them asks the readiness probe.             *)
Test(b) ==
    /\ builds[b].stage = "test"
    /\ Expects[main[builds[b].head]] = InitVersion
    /\ GoTo(b, "migrate")
    /\ UNCHANGED <<main, hooks, lost, queue, schema, image, byHand, alert>>

(* All tests that need PostgreSQL are skipped when it cannot be reached.    *)
TestSkipped(b) ==
    /\ builds[b].stage = "test"
    /\ GoTo(b, "migrate")
    /\ UNCHANGED <<main, hooks, lost, queue, schema, image, byHand, alert>>

(* The job waits for PostgreSQL, up to 20 attempts; afterwards it looks for *)
(* a table, not for a version.                                              *)
Migrate(b) ==
    /\ builds[b].stage = "migrate"
    /\ schema' = IF schema = NoVersion THEN InitVersion ELSE schema
    /\ GoTo(b, "image")
    /\ UNCHANGED <<main, hooks, lost, queue, image, byHand, alert>>

(* Build, Push, Verify In Registry, and Update GitOps up to its commit.     *)
Image(b) ==
    /\ builds[b].stage = "image"
    /\ \/ image = 0 /\ End(b, "absent")
       \/ image = builds[b].head /\ End(b, "unchanged")
       \/ /\ image \notin {0, builds[b].head}
          /\ builds' = [builds EXCEPT ![b].stage = "write", ![b].seen = image]
    /\ UNCHANGED <<main, hooks, lost, queue, schema, image, byHand, alert>>

(* Mutant: git push --force.                                                *)
WriteForced(b) ==
    /\ builds[b].stage = "write"
    /\ image' = builds[b].head /\ byHand' = FALSE
    /\ End(b, "written")
    /\ UNCHANGED <<main, hooks, lost, queue, schema, alert>>

(* Mutant: tried for ever.                                                 *)
WriteEndless(b) ==
    LET build == builds[b]
    IN  /\ build.stage = "write" /\ build.behind = "elsewhere"
        /\ builds' = [builds EXCEPT ![b].behind = "no", ![b].tries = @ + 1]
        /\ UNCHANGED <<main, hooks, lost, queue, schema, image, byHand, alert>>

(* A push that is rejected is tried again on top of what was pushed         *)
(* meanwhile; a rebase over another change of the image conflicts.          *)
Write(b) ==
    LET build == builds[b]
    IN  /\ build.stage = "write"
        /\ \/ /\ build.behind = "no"
              /\ image' = build.head /\ byHand' = FALSE
              /\ End(b, "written")
           \/ /\ build.behind = "elsewhere" /\ build.tries + 1 < MaxTries
              /\ builds' = [builds EXCEPT ![b].behind = "no", ![b].tries = @ + 1]
              /\ UNCHANGED <<image, byHand>>
           \/ /\ build.behind = "elsewhere" => build.tries + 1 = MaxTries
              /\ build.behind # "no"
              /\ End(b, "red")
              /\ UNCHANGED <<image, byHand>>
        /\ UNCHANGED <<main, hooks, lost, queue, schema, alert>>

(* Any stage may fail.                                                      *)
Fail(b) ==
    /\ builds[b].stage \in Running \ {"post"}
    /\ End(b, "red")
    /\ UNCHANGED <<main, hooks, lost, queue, schema, image, byHand, alert>>

(* An aborted build has neither of the two post conditions.                 *)
Abort(b) ==
    /\ builds[b].stage \in Running \ {"post"}
    /\ builds' = [builds EXCEPT ![b].stage = "ended", ![b].result = "aborted"]
    /\ UNCHANGED <<main, hooks, lost, queue, schema, image, byHand, alert>>

(* fire or resolve, with the same labels; "|| true" if it is not delivered. *)
Notify(b) ==
    LET red == builds[b].result = "red"
    IN  /\ builds[b].stage = "post"
        /\ \/ /\ builds' = [builds EXCEPT ![b].stage = "ended",
                                   ![b].notice = IF red THEN "delivered" ELSE @]
              /\ alert' = IF red THEN b ELSE 0
           \/ /\ builds' = [builds EXCEPT ![b].stage = "ended",
                                   ![b].notice = IF red THEN "gone" ELSE @]
              /\ alert' = alert
        /\ UNCHANGED <<main, hooks, lost, queue, schema, image, byHand>>

(* The alert ends HOLD_OPEN_FOR after it was fired.                         *)
Expire ==
    /\ alert # 0
    /\ builds' = [builds EXCEPT ![alert].notice = "gone"]
    /\ alert' = 0
    /\ UNCHANGED <<main, hooks, lost, queue, schema, image, byHand>>

Step(b) ==
    \/ Start(b) \/ Guard(b) \/ Test(b) \/ TestSkipped(b) \/ Migrate(b) \/ Image(b) \/ Write(b)
    \/ Fail(b) \/ Abort(b) \/ Notify(b)

Next ==
    \/ Push \/ Manual \/ PushElsewhere \/ HandEdit \/ Expire
    \/ \E h \in hooks : Deliver(h) \/ Lose(h)
    \/ \E b \in Builds : Step(b)

Spec == Init /\ [][Next]_vars

-----------------------------------------------------------------------------
(* Whether c becomes d when only files move out, once or several times: no  *)
(* move of these leaves a trace in the lists of the guard.                  *)
ByMoves(c, d) ==
    \A S \in SUBSET Codes :
        c \in S /\ (\A move \in MovedAway : move[1] \in S => move[2] \in S) => d \in S

(* When everything is quiet, the manifest names an image with the code of   *)
(* main, or with that code before files moved out of the paths the guard    *)
(* looks at, unless a push beyond that image was never announced or its     *)
(* build failed: the guard skips no other change that is not deployed,      *)
(* whatever order the webhooks come in and however many commits a build     *)
(* finds (Jenkinsfile, Trigger Guard).                                      *)
NothingForgotten ==
    /\ hooks = {} /\ queue = <<>>
    /\ \A b \in Builds : builds[b].stage \notin Running
    /\ image # 0 /\ ~ byHand
    => \/ ByMoves(main[image], main[Len(main)])
       \/ \E h \in lost : h[2] > image
       \/ \E b \in Builds : builds[b].head > image /\ builds[b].result \in {"red", "aborted"}

(* A build replaces the image it has seen in its clone, so that it undoes   *)
(* no roll-back made meanwhile, and never by an older one than a build has  *)
(* put there (Jenkinsfile, disableConcurrentBuilds and Update GitOps).      *)
NeverBackwards ==
    [][\A b \in Builds :
          builds'[b].result = "written" /\ builds[b].result # "written" =>
              /\ image = builds[b].seen
              /\ \A c \in Builds : builds[c].result = "written"
                                      => builds[c].head <= builds[b].head]_vars

(* The failure of the latest build is not resolved by the success of an     *)
(* earlier one: if it could be told, the alert shows it until it expires    *)
(* (notify_alertmanager.py, whose alerts all have the same labels).         *)
RedIsHeard ==
    \A b \in Builds :
        /\ builds[b].result = "red" /\ builds[b].notice = "delivered"
        /\ \A c \in Builds : c > b => builds[c].stage \in {"none"} \cup Running
        => alert = b

(* What the readiness probe of an image says once it reaches PostgreSQL.    *)
Ready(b) == schema = Expects[main[builds[b].head]]

(* A pipeline that is green means that code and tables agree                *)
(* (ci/README.md), so that the image it has made is ready.                  *)
GreenMeansConsistent ==
    \A b \in Builds :
        builds[b].stage = "ended" /\ builds[b].result \in Green \ {"skipped"} => Ready(b)
=============================================================================
