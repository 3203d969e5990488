--------------------------- MODULE DeliveryProofs ---------------------------
(* The safety of delivery, for any history of main, any number of builds   *)
(* and any order in which webhooks, people and builds come.                *)
EXTENDS Delivery, SequenceTheorems, TLAPS

(* The inductive invariant of the specification.                            *)

(* A push that began at commit y may still bring it to the manifest, or has *)
(* been seen to end otherwise than by being skipped.                        *)
Open(y) ==
    \/ \E h \in hooks \cup lost : h[1] = y
    \/ \E i \in 1..Len(queue) : queue[i] = y
    \/ \E b \in Builds : builds[b].before = y /\ builds[b].result # "skipped"

(* main has ended at commit y, or ends there.                               *)
Tip(y) == y = Len(main) \/ Open(y) \/ \E b \in Builds : builds[b].before = y

(* From where main ended once, to where it ends or a push is open, the code *)
(* is the same but for files that moved out of it.                          *)
Traced(x) ==
    \E y \in Commits : x <= y /\ ByMoves(main[x], main[y]) /\ (y = Len(main) \/ Open(y))

MainOK ==
    /\ \A h \in hooks \cup lost : h[1] < h[2] /\ h[2] <= Len(main)
    /\ \A i \in 1..Len(queue) : queue[i] < Len(main)
    /\ image # 0 => Tip(image)
    /\ alert # 0 => builds[alert].stage = "ended"
    /\ \A x \in Commits : Tip(x) => Traced(x)

BuildOK(b) ==
    LET build == builds[b]
    IN  /\ build.stage = "none" => build.head = 0 /\ build.before = 0
        /\ build.stage # "none" => /\ build.head \in 1..Len(main) /\ Tip(build.head)
                                   /\ build.before < build.head
        /\ build.result = "none" <=> build.stage \notin {"post", "ended"}
        /\ build.notice # "none" => build.stage = "ended"
        /\ build.stage = "write" /\ build.behind # "image" => build.seen = image
        /\ build.result \in {"absent", "unchanged", "written"} /\ image # 0 /\ ~ byHand
              => build.head <= image

(* Builds start one after the other.                                        *)
InTurn(b, c) ==
    b < c /\ builds[c].stage # "none"
        => builds[b].stage = "ended" /\ builds[b].head <= builds[c].head

IInv ==
    /\ TypeOK /\ MainOK
    /\ \A b \in Builds : BuildOK(b)
    /\ \A b, c \in Builds : InTurn(b, c)
    /\ RedIsHeard

-----------------------------------------------------------------------------
USE BoundAssumption

LEMMA TypeFacts ==
    ASSUME TypeOK
    PROVE  /\ Len(main) \in Nat /\ Len(main) >= 1 /\ Len(main) <= MaxCommits
           /\ \A i \in 1..Len(main) : main[i] \in Codes
           /\ \A h \in hooks \cup lost : h[1] \in Commits /\ h[2] \in Commits
           /\ Len(queue) \in Nat /\ \A i \in 1..Len(queue) : queue[i] \in 0..MaxCommits
           /\ \A b \in Builds : builds[b] \in Build
           /\ image \in Nat /\ image <= Len(main)
<1>1. /\ Len(main) \in Commits /\ main \in Seq(Codes) /\ queue \in Seq(0..MaxCommits)
      /\ image \in 0..Len(main)
  BY DEF TypeOK
<1>2. Len(queue) \in Nat /\ \A i \in 1..Len(queue) : queue[i] \in 0..MaxCommits
  BY <1>1, LenProperties, ElementOfSeq
<1>3. \A i \in 1..Len(main) : main[i] \in Codes
  BY <1>1, ElementOfSeq
<1> QED
  BY <1>1, <1>2, <1>3 DEF TypeOK, Commits

LEMMA BuildFacts ==
    ASSUME NEW build \in Build
    PROVE  /\ build.stage \in {"none", "ended"} \cup Running
           /\ build.before \in 0..MaxCommits /\ build.head \in 0..MaxCommits
           /\ build.seen \in 0..MaxCommits /\ build.behind \in {"no", "elsewhere", "image"}
           /\ build.tries \in 0..MaxTries
           /\ build.result \in {"none", "red", "aborted"} \cup Green
           /\ build.notice \in {"none", "delivered", "gone"}
  BY DEF Build

(* A push that is open began below where main ends.                         *)
LEMMA OpenBelow ==
    ASSUME IInv, NEW y \in Commits, Tip(y)
    PROVE  y <= Len(main) /\ (Open(y) => y < Len(main))
<1> USE TypeFacts DEF IInv, MainOK, Commits
<1>1. ASSUME NEW h \in hooks \cup lost, h[1] = y PROVE y < Len(main)
  BY <1>1
<1>2. ASSUME NEW i \in 1..Len(queue), queue[i] = y PROVE y < Len(main)
  BY <1>2
<1>3. ASSUME NEW b \in Builds, builds[b].before = y PROVE y < Len(main)
  BY <1>3, BuildFacts DEF BuildOK
<1> QED
  BY <1>1, <1>2, <1>3 DEF Tip, Open

-----------------------------------------------------------------------------
LEMMA MovesRefl ==
    ASSUME NEW c
    PROVE  ByMoves(c, c)
  BY DEF ByMoves

LEMMA MovesTrans ==
    ASSUME NEW c, NEW d, NEW e, ByMoves(c, d), ByMoves(d, e)
    PROVE  ByMoves(c, e)
  BY DEF ByMoves

(* What the guard does not see.                                             *)
LEMMA MovesUnlisted ==
    ASSUME NEW c, NEW d, ~ Listed(c, d)
    PROVE  ByMoves(c, d)
<1>1. CASE c = d
  BY <1>1, MovesRefl
<1>2. CASE <<c, d>> \in MovedAway
  BY <1>2 DEF ByMoves
<1> QED
  BY <1>1, <1>2 DEF Listed

(* A step that neither changes main nor closes a push, and after which main *)
(* has ended nowhere else.                                                  *)
LEMMA TracesStay ==
    ASSUME IInv, main' = main,
           \A y \in Commits : Open(y) => Open(y)',
           \A y \in Commits : Tip(y)' => Tip(y)
    PROVE  \A x \in Commits : Tip(x)' => Traced(x)'
<1> SUFFICES ASSUME NEW x \in Commits PROVE Tip(x)' => Traced(x)'
  OBVIOUS
<1>1. Tip(x)' => Traced(x)
  BY DEF IInv, MainOK
<1> QED
  BY <1>1 DEF Traced

(* What a step of build b leaves alone.                                     *)
Frame(b) ==
    /\ UNCHANGED <<main, hooks, lost, queue>>
    /\ \A c \in Builds \ {b} : builds'[c] = builds[c]
    /\ builds'[b].head = builds[b].head /\ builds'[b].before = builds[b].before

(* A build that is skipped has the code of the commit its push began at,    *)
(* less what moved out.                                                     *)
LEMMA PushesStay ==
    ASSUME IInv, NEW b \in Builds, Frame(b),
           builds[b].stage # "none",
           builds'[b].result = "skipped" =>
              builds[b].result = "skipped" \/ builds[b].before = 0
                \/ ByMoves(main[builds[b].before], main[builds[b].head])
    PROVE  \A x \in Commits : /\ Tip(x) <=> Tip(x)'
                              /\ Tip(x)' => Traced(x)'
<1> DEFINE p == builds[b].before
           q == builds[b].head
<1>1. \A y \in Commits : Open(y) /\ y # p => Open(y)'
  BY DEF Open, Frame
<1>2. \A c \in Builds : builds'[c].before = builds[c].before
  BY DEF Frame
<1>3. \A y \in Commits : Open(y)' => Open(y) \/ \E c \in Builds : builds[c].before = y
  BY <1>2 DEF Open, Frame
<1>4. \A y \in Commits : Tip(y) <=> Tip(y)'
  BY <1>1, <1>2, <1>3 DEF Tip, Frame
<1>5. CASE builds'[b].result # "skipped" \/ builds[b].result = "skipped" \/ p = 0
  <2>1. \A y \in Commits : Open(y) => Open(y)'
    BY <1>1, <1>2, <1>5 DEF Open, Frame, Commits
  <2> QED
    BY <1>4, <2>1, TracesStay DEF Frame
<1>6. CASE ByMoves(main[p], main[q])
  <2>1. q \in Commits /\ p < q /\ Tip(q) /\ p \in Int
    BY TypeFacts, BuildFacts DEF IInv, BuildOK, Commits
  <2>2. ASSUME NEW x \in Commits, Tip(x) PROVE Traced(x)'
    <3>1. PICK y \in Commits : x <= y /\ ByMoves(main[x], main[y]) /\ (y = Len(main) \/ Open(y))
      BY <2>2 DEF IInv, MainOK, Traced
    <3>2. CASE y # p \/ y = Len(main)
      BY <1>1, <3>1, <3>2 DEF Traced, Frame
    <3>3. CASE y = p
      <4>1. PICK z \in Commits : q <= z /\ ByMoves(main[q], main[z]) /\ (z = Len(main) \/ Open(z))
        BY <2>1 DEF IInv, MainOK, Traced
      <4>2. z # p /\ x <= z
        BY <2>1, <3>1, <3>3, <4>1 DEF Commits
      <4> QED
        BY <1>1, <1>6, <3>1, <3>3, <4>1, <4>2, MovesTrans DEF Traced, Frame
    <3> QED
      BY <3>2, <3>3
  <2> QED
    BY <1>4, <2>2
<1> QED
  BY <1>5, <1>6

(* The alert stays what it is while no failure is told.                     *)
LEMMA RedStays ==
    ASSUME IInv, NEW b \in Builds, Frame(b), alert' = alert,
           builds[b].stage \in Running, builds'[b].stage \in Running \cup {"ended"},
           builds'[b].notice # "delivered"
    PROVE  RedIsHeard'
<1> SUFFICES ASSUME NEW d \in Builds,
                    builds'[d].result = "red" /\ builds'[d].notice = "delivered",
                    \A c \in Builds : c > d => builds'[c].stage \in {"none"} \cup Running
             PROVE  alert' = d
  BY DEF RedIsHeard
<1>1. d # b /\ builds'[d] = builds[d]
  BY DEF Frame
<1>2. \A c \in Builds : c > d => builds[c].stage \in {"none"} \cup Running
  BY DEF Frame
<1> QED
  BY <1>1, <1>2 DEF IInv, RedIsHeard

(* A step of a build that runs.                                             *)
LEMMA BuildStep ==
    ASSUME IInv, TypeOK', NEW b \in Builds, Frame(b),
           builds[b].stage \in Running, builds'[b].stage \in Running \cup {"ended"},
           builds'[b].result = "none" <=> builds'[b].stage \notin {"post", "ended"},
           builds'[b].notice # "none" => builds'[b].stage = "ended",
           builds'[b].stage = "write" /\ builds'[b].behind # "image" => builds'[b].seen = image',
           (image' = image /\ byHand' = byHand) \/ image' = builds[b].head,
           builds'[b].result = "skipped" =>
              builds[b].result = "skipped" \/ builds[b].before = 0
                \/ ByMoves(main[builds[b].before], main[builds[b].head]),
           builds'[b].result \in {"absent", "unchanged", "written"} /\ image' # 0 /\ ~ byHand'
              => builds[b].head <= image',
           alert' \in {0, alert} \/ (alert' = b /\ builds'[b].stage = "ended"),
           RedIsHeard'
    PROVE  IInv'
<1> USE DEF IInv
<1>1. \A c \in Builds : builds[c].head \in Nat /\ builds[c].stage \in {"none", "ended"} \cup Running
  BY TypeFacts, BuildFacts
<1>2. \A x \in Commits : (Tip(x) <=> Tip(x)') /\ (Tip(x)' => Traced(x)')
  BY PushesStay DEF Running
<1>3. \A c \in Builds : /\ builds'[c].head = builds[c].head /\ builds'[c].before = builds[c].before
                        /\ builds'[c].stage = "none" <=> builds[c].stage = "none"
                        /\ builds[c].stage = "ended" => builds'[c].stage = "ended"
  BY DEF Frame, Running
<1>4. \A c, d \in Builds : InTurn(c, d)'
  BY <1>3 DEF InTurn
<1>5. ASSUME NEW c \in Builds PROVE BuildOK(c)'
  <2>1. builds[c].stage # "none" => builds[c].head \in Commits /\ builds[c].head \in 1..Len(main)
    BY TypeFacts DEF BuildOK, Commits
  <2>2. builds'[c].stage # "none" => Tip(builds[c].head)' /\ builds'[c].before < builds'[c].head
    BY <1>2, <1>3, <2>1 DEF BuildOK
  <2>3. CASE c = b
    BY <1>3, <2>1, <2>2, <2>3 DEF BuildOK, Frame, Running
  <2>4. CASE c # b
    <3>1. builds'[c] = builds[c] /\ BuildOK(c)
      BY <2>4 DEF Frame
    <3>2. builds[c].stage \in {"none", "ended"} /\ (builds[c].stage = "ended" => c < b)
      BY <1>1, <2>4 DEF InTurn, Builds, Running
    <3>3. builds[c].stage = "ended" => builds[c].head <= builds[b].head
      BY <3>2 DEF InTurn, Running
    <3>4. builds[c].result # "none" => builds[c].stage = "ended"
      BY <3>1, <3>2 DEF BuildOK
    <3>5. builds[c].result \in {"absent", "unchanged", "written"} /\ image' # 0 /\ ~ byHand'
             => builds[c].head <= image'
      BY <3>1, <3>3, <3>4 DEF BuildOK
    <3> QED
      BY <1>3, <2>1, <2>2, <3>1, <3>2, <3>5 DEF BuildOK, Frame
  <2> QED
    BY <2>3, <2>4
<1>6. MainOK'
  <2>1. image' # 0 => image' \in Commits /\ Tip(image)'
    <3>1. image # 0 => image \in Commits /\ Tip(image)
      BY TypeFacts DEF MainOK, Commits
    <3>2. builds[b].head \in Commits /\ Tip(builds[b].head)
      BY TypeFacts DEF BuildOK, Commits, Running
    <3>3. ASSUME NEW x \in Commits, Tip(x), image' = x PROVE Tip(image)'
      BY <1>2, <3>3 DEF Tip
    <3> QED
      BY <3>1, <3>2, <3>3
  <2>2. alert' # 0 => builds'[alert'].stage = "ended"
    BY <1>3 DEF MainOK, TypeOK
  <2> QED
    BY <1>2, <2>1, <2>2 DEF MainOK, Frame
<1> QED
  BY <1>4, <1>5, <1>6

-----------------------------------------------------------------------------
(* The actions.                                                             *)

LEMMA InitInv == Init => IInv
<1> SUFFICES ASSUME Init PROVE IInv
  OBVIOUS
<1> USE DEF Init
<1>1. PICK code \in Codes : Expects[code] = InitVersion /\ main = <<code>>
  OBVIOUS
<1>2. /\ main \in Seq(Codes) /\ Len(main) = 1 /\ 1 \in Commits
      /\ queue \in Seq(0..MaxCommits) /\ Len(queue) = 0
  BY <1>1 DEF Commits
<1>3. TypeOK
  <2>1. builds \in [Builds -> Build]
    BY DEF Build, Commits
  <2>2. image \in 0..Len(main) /\ Len(main) \in Commits
    BY <1>2 DEF Commits
  <2> QED
    BY <1>2, <2>1, <2>2, VersionAssumption DEF TypeOK
<1>4. ASSUME NEW x \in Commits, Tip(x) PROVE x = 1
  BY <1>2, <1>4 DEF Tip, Open, Commits
<1>5. MainOK
  BY <1>2, <1>4, MovesRefl DEF MainOK, Traced, Tip
<1>6. \A b \in Builds : BuildOK(b)
  BY DEF BuildOK
<1>7. (\A b, c \in Builds : InTurn(b, c)) /\ RedIsHeard
  BY DEF InTurn, RedIsHeard
<1> QED
  BY <1>3, <1>5, <1>6, <1>7 DEF IInv

LEMMA Moves ==
    ASSUME TypeOK, NEW b \in Builds, NEW stage \in {"none", "ended"} \cup Running, GoTo(b, stage)
    PROVE  /\ builds' \in [Builds -> Build]
           /\ \A c \in Builds \ {b} : builds'[c] = builds[c]
           /\ builds'[b].stage = stage /\ builds'[b].head = builds[b].head
           /\ builds'[b].before = builds[b].before /\ builds'[b].seen = builds[b].seen
           /\ builds'[b].behind = builds[b].behind /\ builds'[b].result = builds[b].result
           /\ builds'[b].notice = builds[b].notice
  BY DEF TypeOK, GoTo, Build

LEMMA Ends ==
    ASSUME TypeOK, NEW b \in Builds, NEW result \in {"red", "aborted"} \cup Green, End(b, result)
    PROVE  /\ builds' \in [Builds -> Build]
           /\ \A c \in Builds \ {b} : builds'[c] = builds[c]
           /\ builds'[b].stage = "post" /\ builds'[b].result = result
           /\ builds'[b].head = builds[b].head /\ builds'[b].before = builds[b].before
           /\ builds'[b].notice = builds[b].notice
<1>1. builds \in [Builds -> Build] /\ builds[b] \in Build
  BY DEF TypeOK
<1>2. \A c \in Builds \ {b} : builds'[c] = builds[c]
  BY <1>1 DEF End
<1>3. builds'[b] = [builds[b] EXCEPT !.stage = "post", !.result = result, !.seen = 0,
                                     !.behind = "no", !.tries = 0]
  BY <1>1 DEF End
<1>4. 0 \in 0..MaxCommits /\ 0 \in 0..MaxTries
  OBVIOUS
<1> DEFINE build == builds[b]
<1>6. build \in Build
  BY <1>1
<1> HIDE DEF build
<1>7. ASSUME NEW new, new = [build EXCEPT !.stage = "post", !.result = result, !.seen = 0,
                                          !.behind = "no", !.tries = 0]
      PROVE  /\ new \in Build
             /\ new.stage = "post" /\ new.result = result
             /\ new.head = build.head /\ new.before = build.before /\ new.notice = build.notice
  BY <1>4, <1>6, <1>7 DEF Build, Running
<1>5. builds' = [c \in Builds |-> builds'[c]]
  BY <1>1 DEF End
<1>8. builds'[b] = [build EXCEPT !.stage = "post", !.result = result, !.seen = 0,
                                 !.behind = "no", !.tries = 0]
  BY <1>3 DEF build
<1>9. /\ builds'[b] \in Build
      /\ builds'[b].stage = "post" /\ builds'[b].result = result
      /\ builds'[b].head = builds[b].head /\ builds'[b].before = builds[b].before
      /\ builds'[b].notice = builds[b].notice
  BY <1>7, <1>8 DEF build
<1>10. builds' \in [Builds -> Build]
  BY <1>1, <1>2, <1>5, <1>9
<1> QED
  BY <1>2, <1>9, <1>10

(* What holds of a build that runs.                                         *)
LEMMA RunningFacts ==
    ASSUME IInv, NEW b \in Builds, builds[b].stage \in Running
    PROVE  /\ builds[b].head \in 1..Len(main) /\ builds[b].head \in Commits
           /\ builds[b].before < builds[b].head
           /\ builds[b].notice = "none"
           /\ builds[b].result = "none" <=> builds[b].stage # "post"
           /\ \A c \in Builds : b < c => builds[c].stage = "none" /\ builds[c].result = "none"
           /\ \A c \in Builds : builds[c].result # "none" => builds[c].head <= builds[b].head
<1>1. BuildOK(b) /\ \A c \in Builds : InTurn(b, c) /\ InTurn(c, b) /\ BuildOK(c)
  BY DEF IInv
<1>2. \A c \in Builds : b < c => builds[c].stage = "none" /\ builds[c].result = "none"
  BY <1>1 DEF InTurn, BuildOK, Running
<1>3. ASSUME NEW c \in Builds, builds[c].result # "none" PROVE builds[c].head <= builds[b].head
  <2>1. CASE c = b
    BY <2>1, TypeFacts, BuildFacts DEF IInv
  <2>2. CASE c < b
    BY <1>1, <2>2 DEF InTurn, Running
  <2> QED
    BY <1>2, <1>3, <2>1, <2>2 DEF Builds
<1> QED
  BY <1>1, <1>2, <1>3, TypeFacts DEF IInv, BuildOK, Running, Commits

(* It goes on to another stage than the writing of the image.               *)
LEMMA MoveInv ==
    ASSUME IInv, NEW b \in Builds, builds[b].stage \in Running \ {"post"},
           NEW stage \in Running \ {"post", "write"}, GoTo(b, stage),
           UNCHANGED <<main, hooks, lost, queue, image, byHand, alert>>,
           schema' \in Nat \cup {NoVersion}
    PROVE  IInv'
<1>1. /\ builds' \in [Builds -> Build]
      /\ \A c \in Builds \ {b} : builds'[c] = builds[c]
      /\ builds'[b].stage = stage /\ builds'[b].head = builds[b].head
      /\ builds'[b].before = builds[b].before /\ builds'[b].result = builds[b].result
      /\ builds'[b].notice = builds[b].notice
  BY Moves DEF IInv
<1>2. TypeOK' /\ Frame(b)
  BY <1>1 DEF IInv, TypeOK, Frame
<1>3. builds[b].result = "none" /\ builds[b].notice = "none"
  BY RunningFacts
<1>4. RedIsHeard'
  BY <1>1, <1>2, <1>3, RedStays
<1>5. builds'[b].stage \notin {"post", "ended", "write"} /\ builds'[b].stage \in Running
  BY <1>1 DEF Running
<1> QED
  BY <1>1, <1>2, <1>3, <1>4, <1>5, BuildStep

(* It ends, except by writing the image.                                    *)
LEMMA EndInv ==
    ASSUME IInv, NEW b \in Builds, builds[b].stage \in Running \ {"post"},
           NEW result \in {"red"} \cup Green, End(b, result),
           result = "skipped" /\ builds[b].before # 0
              => ByMoves(main[builds[b].before], main[builds[b].head]),
           result \in {"absent", "unchanged", "written"} /\ image' # 0 => builds[b].head <= image',
           \/ image' = image /\ byHand' = byHand
           \/ image' = builds[b].head /\ byHand' \in BOOLEAN,
           UNCHANGED <<main, hooks, lost, queue, schema, alert>>
    PROVE  IInv'
<1>1. /\ builds' \in [Builds -> Build]
      /\ \A c \in Builds \ {b} : builds'[c] = builds[c]
      /\ builds'[b].stage = "post" /\ builds'[b].result = result
      /\ builds'[b].head = builds[b].head /\ builds'[b].before = builds[b].before
      /\ builds'[b].notice = builds[b].notice
  BY Ends DEF IInv
<1>2. builds[b].notice = "none" /\ builds[b].head \in 1..Len(main)
  BY RunningFacts
<1>3. TypeOK' /\ Frame(b)
  BY <1>1, <1>2, TypeFacts DEF IInv, TypeOK, Frame
<1>4. RedIsHeard'
  BY <1>1, <1>2, <1>3, RedStays DEF Running
<1> QED
  BY <1>1, <1>2, <1>3, <1>4, BuildStep DEF Running, Green

LEMMA GuardInv ==
    ASSUME IInv, NEW b \in Builds, Guard(b)
    PROVE  IInv'
<1>1. /\ builds[b].stage = "guard" /\ builds[b].stage \in Running
      /\ UNCHANGED <<main, hooks, lost, queue, schema, image, byHand, alert>>
  BY DEF Guard, Running
<1>2. CASE GoTo(b, "test")
  <2>1. "test" \in Running \ {"post", "write"} /\ schema' \in Nat \cup {NoVersion}
    BY <1>1 DEF Running, IInv, TypeOK
  <2> QED
    BY <1>1, <1>2, <2>1, MoveInv
<1>3. CASE ~ Relevant(b) /\ End(b, "skipped")
  <2>1. builds[b].before # 0 => ByMoves(main[builds[b].before], main[builds[b].head])
    BY <1>3, MovesUnlisted DEF Relevant
  <2>2. "skipped" \in {"red"} \cup Green
    BY DEF Green
  <2> QED
    BY <1>1, <1>3, <2>1, <2>2, EndInv
<1> QED
  BY <1>2, <1>3 DEF Guard

LEMMA StagesInv ==
    ASSUME IInv, NEW b \in Builds, Test(b) \/ TestSkipped(b) \/ Migrate(b)
    PROVE  IInv'
<1>1. PICK stage \in {"migrate", "image"} : GoTo(b, stage)
  BY DEF Test, TestSkipped, Migrate
<1>2. builds[b].stage \in Running \ {"post"} /\ stage \in Running \ {"post", "write"}
  BY DEF Test, TestSkipped, Migrate, Running
<1>3. schema' \in Nat \cup {NoVersion}
  BY VersionAssumption DEF Test, TestSkipped, Migrate, IInv, TypeOK
<1>4. UNCHANGED <<main, hooks, lost, queue, image, byHand, alert>>
  BY DEF Test, TestSkipped, Migrate
<1> QED
  BY <1>1, <1>2, <1>3, <1>4, MoveInv

(* The image is read before it is replaced.                                 *)
LEMMA ImageInv ==
    ASSUME IInv, NEW b \in Builds, Image(b)
    PROVE  IInv'
<1>1. /\ builds[b].stage = "image" /\ builds[b].stage \in Running
      /\ UNCHANGED <<main, hooks, lost, queue, schema, image, byHand, alert>>
  BY DEF Image, Running
<1>2. /\ builds[b].result = "none" /\ builds[b].notice = "none"
      /\ builds[b].head \in Commits /\ image \in Nat /\ image <= Len(main)
  BY <1>1, RunningFacts, TypeFacts DEF IInv
<1>3. CASE image = 0 /\ End(b, "absent")
  <2>1. "absent" \in {"red"} \cup Green
    BY DEF Green
  <2> QED
    BY <1>1, <1>3, <2>1, EndInv
<1>4. CASE image = builds[b].head /\ End(b, "unchanged")
  <2>1. "unchanged" \in {"red"} \cup Green /\ builds[b].head <= image
    BY <1>2, <1>4 DEF Green, Commits
  <2> QED
    BY <1>1, <1>4, <2>1, EndInv
<1>5. CASE builds' = [builds EXCEPT ![b].stage = "write", ![b].seen = image]
  <2>1. image \in 0..MaxCommits /\ builds[b] \in Build
    BY <1>2, TypeFacts DEF IInv
  <2>2. /\ builds' \in [Builds -> Build]
        /\ \A c \in Builds \ {b} : builds'[c] = builds[c]
        /\ builds'[b].stage = "write" /\ builds'[b].seen = image
        /\ builds'[b].head = builds[b].head /\ builds'[b].before = builds[b].before
        /\ builds'[b].result = builds[b].result /\ builds'[b].notice = builds[b].notice
    BY <1>5, <2>1 DEF IInv, TypeOK, Build, Running
  <2>3. TypeOK' /\ Frame(b)
    BY <1>1, <2>2 DEF IInv, TypeOK, Frame
  <2>4. "write" \in Running
    BY DEF Running
  <2>5. RedIsHeard'
    BY <1>1, <1>2, <2>2, <2>3, <2>4, RedStays
  <2> QED
    BY <1>1, <1>2, <2>2, <2>3, <2>4, <2>5, BuildStep
<1> QED
  BY <1>3, <1>4, <1>5 DEF Image

LEMMA WriteInv ==
    ASSUME IInv, NEW b \in Builds, Write(b)
    PROVE  IInv'
<1>1. /\ builds[b].stage = "write" /\ builds[b].stage \in Running
      /\ UNCHANGED <<main, hooks, lost, queue, schema, alert>>
  BY DEF Write, Running
<1>2. /\ builds[b].result = "none" /\ builds[b].notice = "none" /\ builds[b].head \in Commits
      /\ builds[b] \in Build /\ BuildOK(b)
  BY <1>1, RunningFacts, TypeFacts DEF IInv
<1>3. CASE image' = builds[b].head /\ byHand' = FALSE /\ End(b, "written")
  <2>1. "written" \in {"red"} \cup Green /\ builds[b].head <= image'
    BY <1>2, <1>3 DEF Green, Commits
  <2> QED
    BY <1>1, <1>3, <2>1, EndInv
<1>4. CASE End(b, "red") /\ UNCHANGED <<image, byHand>>
  BY <1>1, <1>4, EndInv
<1>5. CASE /\ builds[b].behind = "elsewhere" /\ builds[b].tries + 1 < MaxTries
           /\ builds' = [builds EXCEPT ![b].behind = "no", ![b].tries = @ + 1]
           /\ UNCHANGED <<image, byHand>>
  <2>1. builds[b].tries + 1 \in 0..MaxTries
    BY <1>2, <1>5, BuildFacts
  <2>2. /\ builds' \in [Builds -> Build]
        /\ \A c \in Builds \ {b} : builds'[c] = builds[c]
        /\ builds'[b].stage = builds[b].stage /\ builds'[b].seen = builds[b].seen
        /\ builds'[b].head = builds[b].head /\ builds'[b].before = builds[b].before
        /\ builds'[b].result = builds[b].result /\ builds'[b].notice = builds[b].notice
    BY <1>2, <1>5, <2>1 DEF IInv, TypeOK, Build
  <2>3. TypeOK' /\ Frame(b)
    BY <1>1, <1>5, <2>2 DEF IInv, TypeOK, Frame
  <2>4. RedIsHeard'
    BY <1>1, <1>2, <2>2, <2>3, RedStays
  <2>5. builds[b].seen = image
    BY <1>1, <1>2, <1>5 DEF BuildOK
  <2> QED
    BY <1>1, <1>2, <1>5, <2>2, <2>3, <2>4, <2>5, BuildStep
<1> QED
  BY <1>3, <1>4, <1>5 DEF Write

LEMMA FailInv ==
    ASSUME IInv, NEW b \in Builds, Fail(b)
    PROVE  IInv'
  BY EndInv DEF Fail

LEMMA AbortInv ==
    ASSUME IInv, NEW b \in Builds, Abort(b)
    PROVE  IInv'
<1>1. /\ builds[b].stage \in Running /\ builds[b].stage # "post"
      /\ builds' = [builds EXCEPT ![b].stage = "ended", ![b].result = "aborted"]
      /\ UNCHANGED <<main, hooks, lost, queue, schema, image, byHand, alert>>
  BY DEF Abort
<1>2. builds[b].notice = "none" /\ builds[b] \in Build
  BY <1>1, RunningFacts, TypeFacts DEF IInv
<1>3. /\ builds' \in [Builds -> Build]
      /\ \A c \in Builds \ {b} : builds'[c] = builds[c]
      /\ builds'[b].stage = "ended" /\ builds'[b].result = "aborted"
      /\ builds'[b].head = builds[b].head /\ builds'[b].before = builds[b].before
      /\ builds'[b].notice = builds[b].notice
  BY <1>1, <1>2 DEF IInv, TypeOK, Build
<1>4. TypeOK' /\ Frame(b)
  BY <1>1, <1>3 DEF IInv, TypeOK, Frame
<1>5. RedIsHeard'
  BY <1>1, <1>2, <1>3, <1>4, RedStays
<1> QED
  BY <1>1, <1>2, <1>3, <1>4, <1>5, BuildStep

(* The build that tells its failure is the last one that has ended.         *)
LEMMA NotifyInv ==
    ASSUME IInv, NEW b \in Builds, Notify(b)
    PROVE  IInv'
<1> DEFINE red == builds[b].result = "red"
<1>1. /\ builds[b].stage = "post" /\ builds[b].stage \in Running
      /\ UNCHANGED <<main, hooks, lost, queue, schema, image, byHand>>
  BY DEF Notify, Running
<1>2. /\ builds[b].notice = "none" /\ builds[b].result # "none" /\ builds[b] \in Build /\ BuildOK(b)
      /\ \A c \in Builds : b < c => builds[c].result = "none"
  BY <1>1, RunningFacts, TypeFacts DEF IInv
<1>3. PICK notice \in {"none", "delivered", "gone"} :
         /\ builds' = [builds EXCEPT ![b].stage = "ended", ![b].notice = notice]
         /\ \/ notice \in {"none", "gone"} /\ alert' \in {0, alert}
            \/ notice = "delivered" /\ alert' = b
  BY <1>2 DEF Notify
<1>4. /\ builds' \in [Builds -> Build]
      /\ \A c \in Builds \ {b} : builds'[c] = builds[c]
      /\ builds'[b].stage = "ended" /\ builds'[b].notice = notice
      /\ builds'[b].head = builds[b].head /\ builds'[b].before = builds[b].before
      /\ builds'[b].result = builds[b].result
  BY <1>2, <1>3 DEF IInv, TypeOK, Build
<1>5. TypeOK' /\ Frame(b)
  BY <1>1, <1>3, <1>4 DEF IInv, TypeOK, Frame
<1>6. RedIsHeard'
  <2> SUFFICES ASSUME NEW d \in Builds,
                      builds'[d].result = "red" /\ builds'[d].notice = "delivered",
                      \A c \in Builds : c > d => builds'[c].stage \in {"none"} \cup Running
               PROVE  alert' = d
    BY DEF RedIsHeard
  <2>1. ~ d < b
    BY <1>4 DEF Running, Builds
  <2>2. ~ b < d
    BY <1>2, <1>4 DEF Builds
  <2>3. d = b
    BY <2>1, <2>2 DEF Builds
  <2> QED
    BY <1>3, <1>4, <2>3
<1>7. builds[b].result \in {"absent", "unchanged", "written"} /\ image # 0 /\ ~ byHand
         => builds[b].head <= image
  BY <1>2 DEF BuildOK
<1> QED
  BY <1>1, <1>2, <1>3, <1>4, <1>5, <1>6, <1>7, BuildStep

(* A build takes the push that has waited longest, and all of main.         *)
LEMMA StartInv ==
    ASSUME IInv, NEW b \in Builds, Start(b)
    PROVE  IInv'
<1> USE DEF IInv
<1>1. /\ queue # <<>> /\ queue' = Tail(queue)
      /\ builds' = [builds EXCEPT ![b].stage = "guard", ![b].before = Head(queue),
                                  ![b].head = Len(main)]
      /\ UNCHANGED <<main, hooks, lost, schema, image, byHand, alert>>
      /\ builds[b].stage = "none" /\ \A c \in Builds : builds[c].stage \notin Running
      /\ \A c \in Builds : c < b => builds[c].stage # "none"
  BY DEF Start, Checkout, Builds
<1>2. /\ Len(queue) \in Nat \ {0} /\ Head(queue) = queue[1] /\ queue[1] \in 0..MaxCommits
      /\ queue' \in Seq(0..MaxCommits) /\ Len(queue') = Len(queue) - 1
      /\ \A i \in 1..Len(queue') : queue'[i] = queue[i + 1]
  <2>1. queue \in Seq(0..MaxCommits)
    BY DEF TypeOK
  <2>2. Len(queue) \in Nat \ {0}
    BY <1>1, <2>1, EmptySeq
  <2>3. Head(queue) = queue[1] /\ queue[1] \in 0..MaxCommits
    BY <2>1, <2>2, ElementOfSeq
  <2> QED
    BY <1>1, <2>1, <2>2, <2>3, HeadTailProperties
<1>3. Len(main) \in 1..MaxCommits /\ builds[b] \in Build /\ BuildOK(b)
  BY TypeFacts
<1>4. /\ builds' \in [Builds -> Build]
      /\ \A c \in Builds \ {b} : builds'[c] = builds[c]
      /\ builds'[b].stage = "guard" /\ builds'[b].before = queue[1] /\ builds'[b].head = Len(main)
      /\ builds'[b].result = builds[b].result /\ builds'[b].notice = builds[b].notice
  <2>1. PICK p \in 0..MaxCommits, n \in 0..MaxCommits :
           /\ p = queue[1] /\ n = Len(main)
           /\ builds' = [builds EXCEPT ![b].stage = "guard", ![b].before = p, ![b].head = n]
    <3>1. queue[1] \in 0..MaxCommits /\ Len(main) \in 0..MaxCommits
      BY <1>2, <1>3
    <3>2. builds' = [builds EXCEPT ![b].stage = "guard", ![b].before = queue[1],
                                   ![b].head = Len(main)]
      BY <1>1, <1>2
    <3> QED
      BY <3>1, <3>2, Zenon
  <2>2. builds \in [Builds -> Build]
    BY DEF TypeOK
  <2>3. /\ builds'[b] \in Build /\ builds'[b].stage = "guard"
        /\ builds'[b].before = p /\ builds'[b].head = n
        /\ builds'[b].result = builds[b].result /\ builds'[b].notice = builds[b].notice
    BY <1>3, <2>1, <2>2 DEF Build, Running
  <2>4. /\ builds' = [c \in Builds |-> builds'[c]]
        /\ \A c \in Builds \ {b} : builds'[c] = builds[c]
    BY <2>1, <2>2
  <2>5. builds' \in [Builds -> Build]
    BY <2>2, <2>3, <2>4
  <2> QED
    BY <2>1, <2>3, <2>4, <2>5
<1>5. TypeOK'
  BY <1>1, <1>2, <1>4 DEF TypeOK
<1>6. builds[b].before = 0 /\ builds[b].result = "none" /\ builds[b].notice = "none"
  BY <1>1, <1>3 DEF BuildOK
<1>7. ASSUME NEW y \in Commits PROVE (Open(y) => Open(y)') /\ (Tip(y) <=> Tip(y)')
  <2>1. (\E i \in 1..Len(queue) : queue[i] = y)
          <=> queue[1] = y \/ \E i \in 1..Len(queue') : queue'[i] = y
    <3>1. ASSUME NEW i \in 1..Len(queue), queue[i] = y
          PROVE  queue[1] = y \/ \E j \in 1..Len(queue') : queue'[j] = y
      <4>1. CASE i = 1
        BY <3>1, <4>1
      <4>2. CASE i # 1
        <5>1. i - 1 \in 1..Len(queue') /\ (i - 1) + 1 = i
          BY <1>2, <4>2
        <5>2. queue'[i - 1] = queue[i]
          BY <1>2, <5>1
        <5> QED
          BY <3>1, <5>1, <5>2
      <4> QED
        BY <4>1, <4>2
    <3>2. ASSUME NEW i \in 1..Len(queue'), queue'[i] = y
          PROVE  \E j \in 1..Len(queue) : queue[j] = y
      <4> HIDE DEF IInv
      <4>1. i + 1 \in 1..Len(queue) /\ queue'[i] = queue[i + 1]
        BY <1>2
      <4> QED
        BY <3>2, <4>1
    <3>3. 1 \in 1..Len(queue)
      BY <1>2
    <3> QED
      BY <3>1, <3>2, <3>3
  <2>2. (\E c \in Builds : builds'[c].before = y /\ builds'[c].result # "skipped")
           <=> queue[1] = y \/ \E c \in Builds : builds[c].before = y /\ builds[c].result # "skipped"
    BY <1>4, <1>6 DEF Commits
  <2>3. (\E c \in Builds : builds'[c].before = y)
           <=> queue[1] = y \/ \E c \in Builds : builds[c].before = y
    BY <1>4, <1>6 DEF Commits
  <2>4. Open(y) <=> Open(y)'
    BY <1>1, <2>1, <2>2 DEF Open
  <2>5. queue[1] = y => Open(y)
    <3>1. 1 \in 1..Len(queue)
      BY <1>2
    <3> QED
      BY <3>1 DEF Open
  <2> QED
    BY <1>1, <2>3, <2>4, <2>5 DEF Tip
<1>8. \A x \in Commits : Tip(x)' => Traced(x)'
  BY <1>1, <1>7, TracesStay
<1>9. MainOK'
  <2>1. ASSUME NEW i \in 1..Len(queue') PROVE queue'[i] < Len(main)
    <3>1. \A j \in 1..Len(queue) : queue[j] < Len(main)
      BY DEF MainOK
    <3> HIDE DEF IInv
    <3>2. i + 1 \in 1..Len(queue) /\ queue'[i] = queue[i + 1]
      BY <1>2
    <3> QED
      BY <3>1, <3>2
  <2>2. image # 0 => Tip(image)'
    <3>1. image # 0 => image \in Commits
      BY TypeFacts DEF Commits
    <3>2. ASSUME NEW x \in Commits, Tip(x), image = x PROVE Tip(image)'
      BY <1>1, <1>7, <3>2 DEF Tip
    <3> QED
      BY <3>1, <3>2 DEF MainOK
  <2>3. alert # 0 => builds'[alert].stage = "ended"
    BY <1>1, <1>4 DEF MainOK, TypeOK
  <2> QED
    BY <1>1, <1>8, <2>1, <2>2, <2>3 DEF MainOK
<1>10. ASSUME NEW c \in Builds PROVE BuildOK(c)'
  <2>1. CASE c = b
    <3>1. queue[1] < Len(main)
      BY <1>2 DEF MainOK
    <3>2. Tip(Len(main))'
      BY <1>1 DEF Tip
    <3> QED
      BY <1>1, <1>3, <1>4, <1>6, <2>1, <3>1, <3>2 DEF BuildOK, Tip
  <2>2. CASE c # b
    <3>1. builds'[c] = builds[c] /\ BuildOK(c) /\ builds[c].stage \in {"none", "ended"}
      BY <1>1, <1>4, <2>2, TypeFacts, BuildFacts
    <3>2. builds[c].stage # "none" => builds[c].head \in Commits
      BY <3>1, TypeFacts DEF BuildOK, Commits
    <3>3. builds[c].stage # "none" => Tip(builds[c].head)'
      BY <1>7, <3>1, <3>2 DEF BuildOK
    <3> QED
      BY <1>1, <3>1, <3>3 DEF BuildOK, Tip
  <2> QED
    BY <2>1, <2>2
<1>11. ASSUME NEW c \in Builds, NEW d \in Builds PROVE InTurn(c, d)'
  <2>1. InTurn(c, d) /\ (c # b => builds[c].stage \in {"none", "ended"})
    BY <1>1, TypeFacts, BuildFacts
  <2>2. CASE c = b
    BY <1>1, <1>4, <2>1, <2>2 DEF InTurn, Builds
  <2>3. CASE d = b /\ c < b
    <3>1. builds[c].stage = "ended"
      BY <1>1, <2>1, <2>3 DEF Builds
    <3>2. builds[c].head <= Len(main)
      BY <1>3, <3>1, TypeFacts DEF BuildOK
    <3> QED
      BY <1>4, <2>3, <3>1, <3>2 DEF InTurn, Builds
  <2>4. CASE c # b /\ d # b
    BY <1>4, <2>1, <2>4 DEF InTurn
  <2> QED
    BY <2>2, <2>3, <2>4 DEF InTurn
<1>12. RedIsHeard'
  <2> SUFFICES ASSUME NEW d \in Builds,
                      builds'[d].result = "red" /\ builds'[d].notice = "delivered",
                      \A c \in Builds : c > d => builds'[c].stage \in {"none"} \cup Running
               PROVE  alert = d
    BY <1>1 DEF RedIsHeard
  <2>1. builds'[d] = builds[d]
    BY <1>4, <1>6
  <2>2. \A c \in Builds : c > d => builds[c].stage \in {"none"} \cup Running
    BY <1>1, <1>4
  <2> QED
    BY <2>1, <2>2 DEF RedIsHeard
<1> QED
  BY <1>5, <1>9, <1>10, <1>11, <1>12

(* A step of people, Gitea or Alertmanager that leaves the builds where     *)
(* they are, and after which main has ended nowhere else.                   *)
LEMMA OutsideStep ==
    ASSUME IInv, TypeOK', main' = main,
           \A b \in Builds : /\ builds'[b].stage = builds[b].stage /\ builds'[b].head = builds[b].head
                             /\ builds'[b].before = builds[b].before
                             /\ builds'[b].result = builds[b].result
                             /\ builds'[b].notice \in {builds[b].notice, "gone"}
                             /\ builds'[b].notice # "none"
                                  => builds[b].notice # "none" \/ builds[b].stage = "ended"
                             /\ builds[b].stage = "write" /\ builds'[b].behind # "image"
                                  => builds'[b].seen = image',
           \A h \in hooks' \cup lost' : h \in hooks \cup lost,
           \A i \in 1..Len(queue') : queue'[i] < Len(main),
           \A y \in Commits : (Open(y) => Open(y)') /\ (Tip(y)' => Tip(y)),
           image' # 0 => image' \in Commits /\ Tip(image)',
           alert' \in {0, alert},
           \/ image' = image /\ byHand' = byHand
           \/ byHand',
           RedIsHeard'
    PROVE  IInv'
<1> USE DEF IInv
<1>1. \A y \in Commits : Tip(y) => Tip(y)'
  BY DEF Tip
<1>2. \A x \in Commits : Tip(x)' => Traced(x)'
  BY TracesStay
<1>3. MainOK'
  BY <1>2 DEF MainOK, TypeOK
<1>4. ASSUME NEW b \in Builds PROVE BuildOK(b)'
  <2>1. BuildOK(b) /\ (builds[b].stage # "none" => builds[b].head \in Commits)
    BY TypeFacts DEF BuildOK, Commits
  <2>2. builds[b].stage # "none" => Tip(builds[b].head)'
    BY <1>1, <2>1 DEF BuildOK
  <2> QED
    BY <2>1, <2>2 DEF BuildOK, Tip
<1>5. \A b, c \in Builds : InTurn(b, c)'
  BY DEF InTurn
<1> QED
  BY <1>3, <1>4, <1>5

LEMMA DeliverInv ==
    ASSUME IInv, NEW h \in hooks, Deliver(h)
    PROVE  IInv'
<1> USE DEF IInv
<1>1. /\ hooks' = hooks \ {h} /\ queue' = Append(queue, h[1])
      /\ UNCHANGED <<main, lost, builds, schema, image, byHand, alert>>
  BY DEF Deliver
<1>2. h[1] \in Commits /\ h[1] < h[2] /\ h[2] \in Commits /\ h[2] <= Len(main) /\ Len(main) \in Nat
  BY TypeFacts DEF MainOK
<1>3. /\ queue' \in Seq(0..MaxCommits) /\ Len(queue') = Len(queue) + 1 /\ Len(queue) \in Nat
      /\ queue'[Len(queue) + 1] = h[1]
      /\ \A i \in 1..Len(queue) : queue'[i] = queue[i]
  <2>1. queue \in Seq(0..MaxCommits) /\ h[1] \in 0..MaxCommits
    BY <1>2 DEF TypeOK, Commits
  <2> QED
    BY <1>1, <2>1, AppendProperties, LenProperties
<1>4. TypeOK'
  BY <1>1, <1>3 DEF TypeOK
<1>5. ASSUME NEW y PROVE (Open(y) <=> Open(y)') /\ (Tip(y) <=> Tip(y)')
  <2>1. (\E i \in 1..Len(queue') : queue'[i] = y) <=> h[1] = y \/ \E i \in 1..Len(queue) : queue[i] = y
    <3>1. ASSUME NEW i \in 1..Len(queue'), queue'[i] = y
          PROVE  h[1] = y \/ \E j \in 1..Len(queue) : queue[j] = y
      <4>1. i \in 1..Len(queue) \/ i = Len(queue) + 1
        BY <1>3
      <4> QED
        BY <1>3, <3>1, <4>1
    <3>2. (\A i \in 1..Len(queue) : i \in 1..Len(queue')) /\ Len(queue) + 1 \in 1..Len(queue')
      BY <1>3
    <3> QED
      BY <1>3, <3>1, <3>2
  <2>2. (\E g \in hooks \cup lost : g[1] = y) \/ h[1] = y
           <=> (\E g \in hooks' \cup lost' : g[1] = y) \/ h[1] = y
    BY <1>1
  <2>3. Open(y) <=> Open(y)'
    BY <1>1, <2>1, <2>2 DEF Open
  <2> QED
    BY <1>1, <2>3 DEF Tip
<1>6. \A i \in 1..Len(queue') : queue'[i] < Len(main)
  <2> TAKE i \in 1..Len(queue')
  <2>1. i \in 1..Len(queue) \/ i = Len(queue) + 1
    BY <1>3
  <2>2. h[1] < Len(main) /\ \A j \in 1..Len(queue) : queue[j] < Len(main)
    BY <1>2 DEF MainOK, Commits
  <2> QED
    BY <1>3, <2>1, <2>2
<1>7. image # 0 => image \in Commits /\ Tip(image)'
  BY <1>1, <1>5, TypeFacts DEF MainOK, Commits, Tip
<1>8. \A b \in Builds : builds[b].stage = "write" /\ builds[b].behind # "image" => builds[b].seen = image
  BY DEF BuildOK
<1>9. RedIsHeard'
  BY <1>1 DEF RedIsHeard
<1> QED
  BY <1>1, <1>4, <1>5, <1>6, <1>7, <1>8, <1>9, OutsideStep

LEMMA LoseInv ==
    ASSUME IInv, NEW h \in hooks, Lose(h)
    PROVE  IInv'
<1> USE DEF IInv
<1>1. /\ hooks' = hooks \ {h} /\ lost' = lost \cup {h} /\ hooks' \cup lost' = hooks \cup lost
      /\ UNCHANGED <<main, queue, builds, schema, image, byHand, alert>>
  BY DEF Lose
<1>2. TypeOK'
  BY <1>1 DEF TypeOK
<1>3. ASSUME NEW y PROVE (Open(y) <=> Open(y)') /\ (Tip(y) <=> Tip(y)')
  BY <1>1 DEF Open, Tip
<1>4. image # 0 => image \in Commits /\ Tip(image)'
  BY <1>1, <1>3, TypeFacts DEF MainOK, Commits, Tip
<1>5. \A b \in Builds : builds[b].stage = "write" /\ builds[b].behind # "image" => builds[b].seen = image
  BY DEF BuildOK
<1>6. RedIsHeard' /\ \A i \in 1..Len(queue') : queue'[i] < Len(main)
  BY <1>1 DEF RedIsHeard, MainOK
<1> QED
  BY <1>1, <1>2, <1>3, <1>4, <1>5, <1>6, OutsideStep

LEMMA ManualInv ==
    ASSUME IInv, Manual
    PROVE  IInv'
<1> USE DEF IInv
<1>1. queue' = Append(queue, 0) /\ UNCHANGED <<main, hooks, lost, builds, schema, image, byHand, alert>>
  BY DEF Manual
<1>2. /\ queue' \in Seq(0..MaxCommits) /\ Len(queue') = Len(queue) + 1 /\ Len(queue) \in Nat
      /\ queue'[Len(queue) + 1] = 0
      /\ \A i \in 1..Len(queue) : queue'[i] = queue[i]
  <2>1. queue \in Seq(0..MaxCommits) /\ 0 \in 0..MaxCommits
    BY DEF TypeOK
  <2> QED
    BY <1>1, <2>1, AppendProperties, LenProperties
<1>3. TypeOK'
  BY <1>1, <1>2 DEF TypeOK
<1>4. ASSUME NEW i \in 1..Len(queue') PROVE i \in 1..Len(queue) \/ queue'[i] = 0
  <2>1. i \in 1..Len(queue) \/ i = Len(queue) + 1
    BY <1>2
  <2> QED
    BY <1>2, <2>1
<1>5. ASSUME NEW y \in Commits PROVE (Open(y) <=> Open(y)') /\ (Tip(y) <=> Tip(y)')
  <2>1. y # 0 /\ \A i \in 1..Len(queue) : i \in 1..Len(queue')
    BY <1>2 DEF Commits
  <2>2. (\E i \in 1..Len(queue') : queue'[i] = y) <=> \E i \in 1..Len(queue) : queue[i] = y
    BY <1>2, <1>4, <2>1
  <2>3. Open(y) <=> Open(y)'
    BY <1>1, <2>2 DEF Open
  <2> QED
    BY <1>1, <2>3 DEF Tip
<1>6. \A i \in 1..Len(queue') : queue'[i] < Len(main)
  <2>1. 0 < Len(main) /\ \A i \in 1..Len(queue) : queue[i] < Len(main)
    BY TypeFacts DEF MainOK
  <2> QED
    BY <1>2, <1>4, <2>1
<1>7. image # 0 => image \in Commits /\ Tip(image)'
  BY <1>1, <1>5, TypeFacts DEF MainOK, Commits, Tip
<1>8. \A b \in Builds : builds[b].stage = "write" /\ builds[b].behind # "image" => builds[b].seen = image
  BY DEF BuildOK
<1>9. RedIsHeard'
  BY <1>1 DEF RedIsHeard
<1> QED
  BY <1>1, <1>3, <1>5, <1>6, <1>7, <1>8, <1>9, OutsideStep

(* Somebody writes to the GitOps repository while a build does.             *)
LEMMA PushedFacts ==
    ASSUME TypeOK, NEW what \in {"elsewhere", "image"}, Pushed(what), NEW b \in Builds
    PROVE  /\ builds' \in [Builds -> Build]
           /\ builds'[b].stage = builds[b].stage /\ builds'[b].head = builds[b].head
           /\ builds'[b].before = builds[b].before /\ builds'[b].result = builds[b].result
           /\ builds'[b].notice = builds[b].notice /\ builds'[b].seen = builds[b].seen
           /\ builds[b].stage = "write" => builds'[b].behind \in {what, "image"}
           /\ builds[b].behind = "image" => builds'[b].behind = "image"
<1>1. ASSUME NEW c \in Builds
      PROVE  /\ builds'[c] \in Build
             /\ builds'[c].stage = builds[c].stage /\ builds'[c].head = builds[c].head
             /\ builds'[c].before = builds[c].before /\ builds'[c].result = builds[c].result
             /\ builds'[c].notice = builds[c].notice /\ builds'[c].seen = builds[c].seen
             /\ builds[c].stage = "write" => builds'[c].behind \in {what, "image"}
             /\ builds[c].behind = "image" => builds'[c].behind = "image"
  BY DEF Pushed, TypeOK, Build
<1>2. builds' = [c \in Builds |-> builds'[c]]
  BY DEF Pushed
<1> QED
  BY <1>1, <1>2

(* When no build changes but in what happens to its clone.                  *)
LEMMA SamePushes ==
    ASSUME UNCHANGED <<main, hooks, lost, queue>>,
           \A b \in Builds : /\ builds'[b].before = builds[b].before
                             /\ builds'[b].result = builds[b].result,
           NEW y
    PROVE  (Open(y) <=> Open(y)') /\ (Tip(y) <=> Tip(y)')
<1>1. Open(y) <=> Open(y)'
  BY DEF Open
<1> QED
  BY <1>1 DEF Tip

LEMMA PushElsewhereInv ==
    ASSUME IInv, PushElsewhere
    PROVE  IInv'
<1> USE DEF IInv
<1>1. UNCHANGED <<main, hooks, lost, queue, schema, image, byHand, alert>>
  BY DEF PushElsewhere
<1>2. \A b \in Builds :
         /\ builds' \in [Builds -> Build]
         /\ builds'[b].stage = builds[b].stage /\ builds'[b].head = builds[b].head
         /\ builds'[b].before = builds[b].before /\ builds'[b].result = builds[b].result
         /\ builds'[b].notice = builds[b].notice /\ builds'[b].seen = builds[b].seen
         /\ builds[b].behind = "image" => builds'[b].behind = "image"
  BY PushedFacts DEF PushElsewhere
<1>3. 1 \in Builds
  BY DEF Builds
<1>4. TypeOK'
  BY <1>1, <1>2, <1>3 DEF TypeOK
<1>5. \A y \in Commits : (Open(y) <=> Open(y)') /\ (Tip(y) <=> Tip(y)')
  BY <1>1, <1>2, SamePushes
<1>6. image # 0 => image \in Commits /\ Tip(image)'
  BY <1>1, <1>2, SamePushes, TypeFacts DEF MainOK, Commits, Tip
<1>7. \A b \in Builds : builds[b].stage = "write" /\ builds'[b].behind # "image" => builds'[b].seen = image
  BY <1>2 DEF BuildOK
<1>8. RedIsHeard' /\ \A i \in 1..Len(queue') : queue'[i] < Len(main)
  BY <1>1, <1>2 DEF RedIsHeard, MainOK
<1> QED
  BY <1>1, <1>2, <1>4, <1>5, <1>6, <1>7, <1>8, OutsideStep

LEMMA HandEditInv ==
    ASSUME IInv, HandEdit
    PROVE  IInv'
<1> USE DEF IInv
<1>1. /\ byHand' = TRUE /\ Pushed("image")
      /\ UNCHANGED <<main, hooks, lost, queue, schema, alert>>
  BY DEF HandEdit
<1>2. PICK b \in Builds : image' = builds[b].head /\ builds[b].result \in Green /\ image' \in Commits
  BY DEF HandEdit
<1>3. \A c \in Builds :
         /\ builds' \in [Builds -> Build]
         /\ builds'[c].stage = builds[c].stage /\ builds'[c].head = builds[c].head
         /\ builds'[c].before = builds[c].before /\ builds'[c].result = builds[c].result
         /\ builds'[c].notice = builds[c].notice
         /\ builds[c].stage = "write" => builds'[c].behind = "image"
  BY <1>1, PushedFacts
<1>4. builds[b].stage # "none"
  BY <1>2 DEF BuildOK, Green
<1>5. image' \in 0..Len(main) /\ Tip(builds[b].head)
  BY <1>2, <1>4, TypeFacts DEF BuildOK
<1>6. TypeOK'
  BY <1>1, <1>3, <1>5 DEF TypeOK
<1>7. \A y \in Commits : (Open(y) <=> Open(y)') /\ (Tip(y) <=> Tip(y)')
  BY <1>1, <1>3, SamePushes
<1>8. Tip(image)'
  BY <1>2, <1>5, <1>7 DEF Tip
<1>9. RedIsHeard' /\ \A i \in 1..Len(queue') : queue'[i] < Len(main)
  BY <1>1, <1>3 DEF RedIsHeard, MainOK
<1> QED
  BY <1>1, <1>2, <1>3, <1>6, <1>7, <1>8, <1>9, OutsideStep

LEMMA ExpireInv ==
    ASSUME IInv, Expire
    PROVE  IInv'
<1> USE DEF IInv
<1>1. /\ alert' = 0 /\ alert \in Builds /\ builds' = [builds EXCEPT ![alert].notice = "gone"]
      /\ UNCHANGED <<main, hooks, lost, queue, schema, image, byHand>>
  BY DEF Expire, TypeOK
<1>2. PICK d \in Builds : d = alert
  BY <1>1
<1>3. /\ builds' \in [Builds -> Build]
      /\ \A c \in Builds :
         /\ builds'[c].stage = builds[c].stage /\ builds'[c].head = builds[c].head
         /\ builds'[c].before = builds[c].before /\ builds'[c].result = builds[c].result
         /\ builds'[c].seen = builds[c].seen /\ builds'[c].behind = builds[c].behind
         /\ builds'[c].notice = IF c = d THEN "gone" ELSE builds[c].notice
  <2>1. builds \in [Builds -> Build] /\ builds[d] \in Build
    BY DEF TypeOK
  <2>2. builds' = [builds EXCEPT ![d] = [builds[d] EXCEPT !.notice = "gone"]]
    BY <1>1, <1>2
  <2> HIDE DEF IInv
  <2>3. [builds[d] EXCEPT !.notice = "gone"] \in Build
    BY <2>1 DEF Build
  <2>4. builds' \in [Builds -> Build] /\ \A c \in Builds \ {d} : builds'[c] = builds[c]
    BY <2>1, <2>2, <2>3
  <2>5. builds'[d] = [builds[d] EXCEPT !.notice = "gone"]
    BY <2>1, <2>2
  <2>6. /\ builds'[d].stage = builds[d].stage /\ builds'[d].head = builds[d].head
        /\ builds'[d].before = builds[d].before /\ builds'[d].result = builds[d].result
        /\ builds'[d].seen = builds[d].seen /\ builds'[d].behind = builds[d].behind
        /\ builds'[d].notice = "gone"
    BY <2>1, <2>5 DEF Build
  <2> QED
    BY <2>4, <2>6
<1>4. TypeOK'
  BY <1>1, <1>3 DEF TypeOK
<1>5. \A y \in Commits : (Open(y) <=> Open(y)') /\ (Tip(y) <=> Tip(y)')
  BY <1>1, <1>3, SamePushes
<1>6. image # 0 => image \in Commits /\ Tip(image)'
  BY <1>1, <1>3, SamePushes, TypeFacts DEF MainOK, Commits, Tip
<1>7. \A b \in Builds : builds[b].stage = "write" /\ builds'[b].behind # "image" => builds'[b].seen = image
  BY <1>3 DEF BuildOK
<1>8. RedIsHeard'
  BY <1>2, <1>3 DEF RedIsHeard
<1>9. builds[d].stage = "ended" /\ \A i \in 1..Len(queue') : queue'[i] < Len(main)
  BY <1>1, <1>2 DEF MainOK, Builds
<1>10. \A b \in Builds : /\ builds'[b].notice \in {builds[b].notice, "gone"}
                          /\ builds'[b].notice # "none"
                               => builds[b].notice # "none" \/ builds[b].stage = "ended"
  BY <1>3, <1>9
<1> QED
  BY <1>1, <1>3, <1>4, <1>5, <1>6, <1>7, <1>8, <1>9, <1>10, OutsideStep

(* A push makes main end elsewhere, and is open where main ended before.    *)
LEMMA PushInv ==
    ASSUME IInv, Push
    PROVE  IInv'
<1> USE DEF IInv
<1>0. PICK n \in 1..MaxPush : \E codes \in [1..n -> Codes] :
         /\ Len(main) + n <= MaxCommits /\ main' = main \o codes
         /\ hooks' = hooks \cup {<<Len(main), Len(main) + n>>}
  BY DEF Push
<1>1. PICK codes \in [1..n -> Codes] :
         /\ Len(main) + n <= MaxCommits /\ main' = main \o codes
         /\ hooks' = hooks \cup {<<Len(main), Len(main) + n>>}
         /\ UNCHANGED <<lost, queue, builds, schema, image, byHand, alert>>
  BY <1>0 DEF Push
<1>2. n \in Nat /\ n >= 1 /\ codes \in Seq(Codes) /\ Len(codes) = n
  <2>1. n \in Nat /\ n >= 1
    OBVIOUS
  <2>2. codes \in Seq(Codes)
    BY <2>1, SeqDef
  <2> QED
    BY <2>1, <2>2, LenProperties
<1>3. /\ main' \in Seq(Codes) /\ Len(main') = Len(main) + n
      /\ \A x \in 1..Len(main) : main'[x] = main[x]
  <2>1. main \in Seq(Codes) /\ Len(main) \in Nat
    BY TypeFacts DEF TypeOK
  <2>2. /\ main' \in Seq(Codes) /\ Len(main') = Len(main) + n
        /\ \A x \in 1..Len(main) + n : main'[x] = IF x <= Len(main) THEN main[x] ELSE codes[x - Len(main)]
    <3> HIDE DEF IInv
    <3>1. /\ main \o codes \in Seq(Codes) /\ Len(main \o codes) = Len(main) + Len(codes)
          /\ \A x \in 1..Len(main) + Len(codes) :
                (main \o codes)[x] = IF x <= Len(main) THEN main[x] ELSE codes[x - Len(main)]
      BY <1>2, <2>1, ConcatProperties
    <3> QED
      BY <1>1, <1>2, <3>1
  <2>3. \A x \in 1..Len(main) : x \in 1..Len(main) + n /\ x <= Len(main)
    BY <1>2, <2>1
  <2> QED
    BY <2>2, <2>3
<1>4. Len(main) \in Commits /\ Len(main') \in Commits /\ Len(main) < Len(main') /\ Len(main) <= Len(main')
  BY <1>1, <1>2, <1>3, TypeFacts DEF Commits
<1>5. TypeOK'
  <2>1. <<Len(main), Len(main) + n>> \in Commits \X Commits
    BY <1>3, <1>4
  <2>2. image \in 0..Len(main')
    BY <1>4, TypeFacts DEF Commits
  <2> QED
    BY <1>1, <1>3, <1>4, <2>1, <2>2 DEF TypeOK
<1>6. ASSUME NEW y \in Commits
      PROVE  (Open(y)' <=> Open(y) \/ y = Len(main)) /\ (Tip(y)' <=> Tip(y) \/ y = Len(main'))
  <2>1. (\E h \in hooks' \cup lost' : h[1] = y) <=> (\E h \in hooks \cup lost : h[1] = y) \/ y = Len(main)
    <3>1. hooks' \cup lost' = (hooks \cup lost) \cup {<<Len(main), Len(main) + n>>}
      BY <1>1
    <3>2. \A h : h \in hooks' \cup lost' <=> h \in hooks \cup lost \/ h = <<Len(main), Len(main) + n>>
      BY <3>1
    <3>3. <<Len(main), Len(main) + n>>[1] = Len(main)
      OBVIOUS
    <3> QED
      BY <3>2, <3>3
  <2>2. Open(y)' <=> Open(y) \/ y = Len(main)
    BY <1>1, <2>1 DEF Open
  <2> QED
    BY <1>1, <2>2 DEF Tip
<1>7. ASSUME NEW x \in Commits, Tip(x)' PROVE Traced(x)'
  <2>1. CASE x = Len(main')
    BY <1>4, <2>1, MovesRefl DEF Traced, Commits
  <2>2. CASE Tip(x)
    <3>1. PICK y \in Commits : x <= y /\ ByMoves(main[x], main[y]) /\ (y = Len(main) \/ Open(y))
      BY <2>2 DEF MainOK, Traced
    <3>2. y <= Len(main)
      BY <3>1, OpenBelow DEF Tip
    <3>3. x \in 1..Len(main) /\ y \in 1..Len(main)
      BY <3>1, <3>2, TypeFacts DEF Commits
    <3> QED
      BY <1>3, <1>6, <3>1, <3>3 DEF Traced
  <2> QED
    BY <1>6, <1>7, <2>1, <2>2
<1>8. MainOK'
  <2>1. \A h \in hooks' \cup lost' : h[1] < h[2] /\ h[2] <= Len(main')
    <3>1. \A h \in hooks \cup lost : h[1] < h[2] /\ h[2] <= Len(main) /\ h[2] \in Commits
      BY TypeFacts DEF MainOK
    <3> QED
      BY <1>1, <1>3, <1>4, <3>1 DEF Commits
  <2>2. \A i \in 1..Len(queue) : queue[i] < Len(main')
    <3>1. \A i \in 1..Len(queue) : queue[i] < Len(main) /\ queue[i] \in 0..MaxCommits
      BY TypeFacts DEF MainOK
    <3> QED
      BY <1>4, <3>1 DEF Commits
  <2>3. image # 0 => Tip(image)'
    <3>1. image # 0 => image \in Commits /\ Tip(image)
      BY TypeFacts DEF MainOK, Commits
    <3>2. image # 0 => \E y \in Commits : y = image /\ Tip(y)'
      BY <1>6, <3>1
    <3> QED
      BY <1>1, <3>2 DEF Tip
  <2> QED
    BY <1>1, <1>7, <2>1, <2>2, <2>3 DEF MainOK
<1>9. ASSUME NEW b \in Builds PROVE BuildOK(b)'
  <2>1. BuildOK(b) /\ builds[b] \in Build
    BY DEF TypeOK
  <2>2. builds[b].stage # "none" => builds[b].head \in 1..Len(main') /\ Tip(builds[b].head)'
    <3>1. builds[b].stage # "none" => builds[b].head \in 1..Len(main) /\ Tip(builds[b].head)
      BY <2>1 DEF BuildOK
    <3>2. builds[b].stage # "none" => builds[b].head \in 1..Len(main') /\ builds[b].head \in Commits
      BY <1>4, <3>1 DEF Commits
    <3>3. \A y \in Commits : Tip(y) => Tip(y)'
      BY <1>6
    <3>4. builds' = builds
      BY <1>1
    <3> QED
      BY <3>1, <3>2, <3>3, <3>4 DEF Tip
  <2> QED
    BY <1>1, <2>1, <2>2 DEF BuildOK, Tip
<1>10. (\A b, c \in Builds : InTurn(b, c)') /\ RedIsHeard'
  BY <1>1 DEF InTurn, RedIsHeard
<1> QED
  BY <1>5, <1>8, <1>9, <1>10

LEMMA StepInv ==
    ASSUME IInv, NEW b \in Builds, Step(b)
    PROVE  IInv'
  BY StartInv, GuardInv, StagesInv, ImageInv, WriteInv, FailInv, AbortInv, NotifyInv DEF Step

LEMMA NextInv ==
    ASSUME IInv, [Next]_vars
    PROVE  IInv'
<1>1. CASE UNCHANGED vars
  <2>1. TypeOK' /\ RedIsHeard' /\ \A b, c \in Builds : InTurn(b, c)'
    BY <1>1 DEF vars, IInv, TypeOK, RedIsHeard, InTurn
  <2>2. MainOK'
    BY <1>1 DEF vars, IInv, MainOK, Open, Tip, Traced
  <2>3. \A b \in Builds : BuildOK(b)'
    BY <1>1 DEF vars, IInv, BuildOK, Open, Tip
  <2> QED
    BY <2>1, <2>2, <2>3 DEF IInv
<1>2. ASSUME NEW h \in hooks, Deliver(h) \/ Lose(h) PROVE IInv'
  BY <1>2, DeliverInv, LoseInv
<1>3. ASSUME NEW b \in Builds, Step(b) PROVE IInv'
  BY <1>3, StepInv
<1> QED
  BY <1>1, <1>2, <1>3, PushInv, ManualInv, PushElsewhereInv, HandEditInv, ExpireInv DEF Next

LEMMA SpecInv == Spec => []IInv
<1>1. Init => IInv
  BY InitInv
<1>2. IInv /\ [Next]_vars => IInv'
  BY NextInv
<1> QED
  BY <1>1, <1>2, PTL DEF Spec

-----------------------------------------------------------------------------
THEOREM TypeCorrect == Spec => []TypeOK
<1>1. IInv => TypeOK
  BY DEF IInv
<1> QED
  BY <1>1, SpecInv, PTL

(* A failure that was told stays on the alert until it expires or a later   *)
(* build ends (notify_alertmanager.py).                                     *)
THEOREM FailureHeard == Spec => []RedIsHeard
<1>1. IInv => RedIsHeard
  BY DEF IInv
<1> QED
  BY <1>1, SpecInv, PTL

(* Whatever is pushed, delivered late, out of order or by hand: when        *)
(* nothing moves, the image that runs has the code of main, but for files   *)
(* that moved out of it, or a push beyond it was lost or failed             *)
(* (Jenkinsfile, Trigger Guard).                                            *)
THEOREM NothingLeftOut == Spec => []NothingForgotten
<1>1. ASSUME IInv, hooks = {}, queue = <<>>,
             \A b \in Builds : builds[b].stage \notin Running,
             image # 0, ~ byHand
      PROVE  \/ ByMoves(main[image], main[Len(main)])
             \/ \E h \in lost : h[2] > image
             \/ \E b \in Builds : builds[b].head > image /\ builds[b].result \in {"red", "aborted"}
  <2>1. image \in Commits
    BY <1>1, TypeFacts DEF IInv, Commits
  <2>2. PICK y \in Commits : image <= y /\ ByMoves(main[image], main[y]) /\ (y = Len(main) \/ Open(y))
    BY <1>1, <2>1 DEF IInv, MainOK, Traced
  <2>3. ASSUME NEW h \in lost, h[1] = y PROVE h[2] > image
    BY <1>1, <2>1, <2>2, <2>3, TypeFacts DEF IInv, MainOK, Commits
  <2>4. ASSUME NEW b \in Builds, builds[b].before = y, builds[b].result # "skipped"
        PROVE  builds[b].head > image /\ builds[b].result \in {"red", "aborted"}
    <3>1. BuildOK(b) /\ builds[b] \in Build /\ y # 0 /\ y \in Nat /\ image \in Nat
      BY <1>1, <2>1 DEF IInv, TypeOK, Commits
    <3>2. builds[b].stage = "ended" /\ builds[b].result # "none"
      BY <1>1, <2>4, <3>1, BuildFacts DEF BuildOK
    <3>3. builds[b].head > image
      BY <2>2, <2>4, <3>1, <3>2, BuildFacts DEF BuildOK
    <3>4. builds[b].result \notin {"absent", "unchanged", "written"}
      BY <1>1, <3>1, <3>3, BuildFacts DEF BuildOK
    <3> QED
      BY <2>4, <3>1, <3>2, <3>3, <3>4, BuildFacts DEF Green
  <2>5. y = Len(main) \/ (\E h \in lost : h[1] = y)
           \/ \E b \in Builds : builds[b].before = y /\ builds[b].result # "skipped"
    BY <1>1, <2>2 DEF Open
  <2> QED
    BY <2>2, <2>3, <2>4, <2>5
<1>2. IInv => NothingForgotten
  BY <1>1 DEF NothingForgotten
<1> QED
  BY <1>2, SpecInv, PTL

(* Only a push that is not rejected makes a build one that has written.     *)
LEMMA WrittenBy ==
    ASSUME IInv, NEW b \in Builds, builds[b].result # "written", builds'[b].result = "written",
           NEW c \in Builds, Step(c)
    PROVE  b = c /\ builds[b].stage = "write" /\ builds[b].behind = "no"
<1> USE DEF IInv
<1>1. ASSUME NEW stage \in Running, GoTo(c, stage) PROVE FALSE
  BY <1>1, Moves
<1>2. ASSUME NEW result \in {"red"} \cup Green, End(c, result) PROVE b = c /\ result = "written"
  BY <1>2, Ends
<1>3. CASE Start(c)
  <2>1. builds' = [builds EXCEPT ![c].stage = "guard", ![c].before = Head(queue),
                                 ![c].head = Len(main)]
    BY <1>3 DEF Start, Checkout
  <2>2. builds'[b].result = builds[b].result
    BY <2>1 DEF TypeOK, Build
  <2> QED
    BY <2>2
<1>4. CASE Guard(c)
  BY <1>1, <1>2, <1>4 DEF Guard, Running, Green
<1>5. CASE Test(c) \/ TestSkipped(c) \/ Migrate(c)
  BY <1>1, <1>5 DEF Test, TestSkipped, Migrate, Running
<1>6. CASE Image(c)
  <2>1. CASE End(c, "absent") \/ End(c, "unchanged")
    BY <1>2, <2>1 DEF Green
  <2>2. CASE builds' = [builds EXCEPT ![c].stage = "write", ![c].seen = image]
    BY <2>2 DEF TypeOK, Build
  <2> QED
    BY <1>6, <2>1, <2>2 DEF Image
<1>7. CASE Write(c)
  <2>1. CASE End(c, "red")
    BY <1>2, <2>1
  <2>2. CASE builds' = [builds EXCEPT ![c].behind = "no", ![c].tries = @ + 1]
    BY <2>2 DEF TypeOK, Build
  <2>3. CASE builds[c].behind = "no" /\ End(c, "written")
    BY <1>2, <1>7, <2>3 DEF Green, Write
  <2> QED
    BY <1>7, <2>1, <2>2, <2>3 DEF Write
<1>8. CASE Fail(c)
  BY <1>2, <1>8 DEF Fail
<1>9. CASE Abort(c)
  BY <1>9 DEF Abort, TypeOK, Build
<1>10. CASE Notify(c)
  BY <1>10 DEF Notify, TypeOK, Build
<1> QED
  BY <1>3, <1>4, <1>5, <1>6, <1>7, <1>8, <1>9, <1>10 DEF Step

(* What a build writes replaces the image it has seen, and no newer image   *)
(* of a build (Jenkinsfile, Update GitOps).                                 *)
THEOREM OnlyForwards == Spec => NeverBackwards
<1>1. ASSUME IInv, [Next]_vars, NEW b \in Builds,
             builds'[b].result = "written", builds[b].result # "written"
      PROVE  /\ image = builds[b].seen
             /\ \A c \in Builds : builds[c].result = "written" => builds[c].head <= builds[b].head
  <2>1. CASE \E c \in Builds : Step(c)
    <3>1. builds[b].stage = "write" /\ builds[b].behind = "no"
      BY <1>1, <2>1, WrittenBy
    <3>2. builds[b].stage \in Running /\ BuildOK(b)
      BY <1>1, <3>1 DEF Running, IInv
    <3>3. image = builds[b].seen
      BY <3>1, <3>2 DEF BuildOK
    <3>4. \A c \in Builds : builds[c].result # "none" => builds[c].head <= builds[b].head
      BY <1>1, <3>2, RunningFacts
    <3> QED
      BY <3>3, <3>4
  <2>2. CASE PushElsewhere \/ HandEdit
    <3>1. Pushed("elsewhere") \/ Pushed("image")
      BY <2>2 DEF PushElsewhere, HandEdit
    <3>2. builds'[b].result = builds[b].result
      BY <1>1, <3>1, PushedFacts DEF IInv
    <3> QED
      BY <1>1, <3>2
  <2>3. CASE Expire
    BY <1>1, <2>3 DEF Expire, IInv, TypeOK, Build
  <2>4. CASE builds' = builds
    BY <1>1, <2>4
  <2> QED
    BY <1>1, <2>1, <2>2, <2>3, <2>4 DEF Next, Push, Manual, Deliver, Lose, vars
<1>2. IInv /\ [Next]_vars =>
         [\A b \in Builds :
             builds'[b].result = "written" /\ builds[b].result # "written" =>
                 /\ image = builds[b].seen
                 /\ \A c \in Builds : builds[c].result = "written"
                                         => builds[c].head <= builds[b].head]_vars
  BY <1>1
<1> QED
  BY <1>2, SpecInv, PTL DEF Spec, NeverBackwards
=============================================================================
