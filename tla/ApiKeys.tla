------------------------------ MODULE ApiKeys ------------------------------
(***************************************************************************)
(* API keys: service/api_key_service.py, the authentication that runs in   *)
(* front of every route (api/deps.py require_scope) and in the transaction *)
(* of its request, and ci/bootstrap_admin.py, which makes the first key.   *)
(*                                                                         *)
(* A key is known by its token: the table holds its hash, and two tokens   *)
(* never have the same one.                                                *)
(***************************************************************************)
EXTENDS ReadCommitted, Integers, FiniteSets

CONSTANTS
    Requests,       \* HTTP requests and bootstrap jobs, each served once
    Tokens,         \* keys that exist or that generate_key may draw
    Presented,      \* what the header X-API-Key may hold, NoKey if it is missing
    PrefixOf,       \* the prefix of a token: not always distinct
    Existing,       \* the tokens in the table at the start ..
    InitialRow,     \* .. and their rows
    Ops,            \* what requests ask for
    Grants,         \* sets of scopes that a creation may ask for
    Expiries,       \* instants that a creation may ask the key to expire at
    Names,          \* kinds of names that a creation may give its key
    AuthRequired,   \* Settings.auth_required
    JobsOverlap,    \* bootstrap jobs may run at the same time
    MaxTime,        \* bound: the clock stops there
    Throttle,       \* LAST_USED_THROTTLE
    MaxWait,        \* how long an UPDATE may wait (statement_timeout)
    MaxAttempts,    \* tokens that one creation draws
    ListLimit,      \* keys that the bootstrap job looks through
    NoRow, NoCall, NoKey, Never

Scopes == {"infer", "admin"}
Times  == 0..MaxTime

(* Names as far as the bootstrap job tells them apart: its own, those that  *)
(* contain it, and the rest.                                                *)
BootstrapName == "bootstrap-admin"
NameKinds     == {BootstrapName, "similar", "other"}

Row == [scopes : SUBSET Scopes, expires : Nat \cup {Never}, revoked : Times \cup {Never},
        used : Times \cup {Never}, name : NameKinds, by : Requests \cup {NoTxn}]

ASSUME TimeAssumption  ==
    /\ MaxTime \in Nat /\ Throttle \in Nat /\ MaxWait \in Nat /\ MaxAttempts \in Nat
    /\ Expiries \subseteq Nat \cup {Never} /\ Grants \subseteq SUBSET Scopes
ASSUME NameAssumption ==
    Names \subseteq NameKinds /\ ListLimit \in Nat /\ IsFiniteSet(Tokens)
ASSUME StartAssumption ==
    /\ Existing \subseteq Tokens /\ InitialRow \in [Existing -> Row]
    /\ \A t \in Existing : InitialRow[t].used \in {0, Never} /\ InitialRow[t].by = NoTxn
    /\ Presented \subseteq Tokens \cup {NoKey}
ASSUME FreshAssumption ==
    NoTxn \notin Requests /\ NoRow \notin Row /\ Never \notin Nat /\ NoKey \notin Tokens

Calls ==
    {c \in      [op : {"infer"}, auth : Presented]
           \cup [op : {"create"}, auth : Presented, scopes : Grants, expires : Expiries, name : Names]
           \cup [op : {"revoke"}, auth : Presented, key : Tokens]
           \cup [op : {"verify"}, auth : Presented, key : Tokens, scope : Scopes]
           \cup [op : {"bootstrap"}] : c.op \in Ops}

VARIABLES
    keys,       \* table api_key, by token
    now,        \* the clock
    pc, call,
    seen,       \* the row that a verification has read
    when,       \* the instant of the UPDATE that the request is about to make
    drawn,      \* the token a creation has drawn
    attempts,   \* how many it has drawn
    tooLate,    \* history: whether, when the request came, its key was revoked
    accepted,   \* history: when the request was let in, Never before
    reply       \* HTTP status, 0 before there is one

vars == <<keys, now, pc, call, seen, when, drawn, attempts, tooLate, accepted, reply>>

InFlight == {"authRead", "authCheck", "authTouch", "verRead", "verCheck", "verTouch",
             "work", "draw", "prefix", "insert", "revRead", "revUpdate", "bootList", "commit"}
Ended    == {"committed", "rolledBack"}

TypeOK ==
    /\ keys \in Table(Tokens, Row \cup {NoRow}, Requests)
    /\ now \in Times
    /\ pc \in [Requests -> {"idle"} \cup InFlight \cup Ended]
    /\ call \in [Requests -> Calls \cup {NoCall}]
    /\ seen \in [Requests -> Row \cup {NoRow}]
    /\ when \in [Requests -> Times \cup {Never}]
    /\ drawn \in [Requests -> Tokens \cup {NoKey}]
    /\ attempts \in [Requests -> 0..MaxAttempts]
    /\ tooLate \in [Requests -> {"no", "answered", "committed"}]
    /\ accepted \in [Requests -> Times \cup {Never}]
    /\ reply \in [Requests -> {0, 200, 201, 401, 404, 409, 422, 500}]

Init ==
    /\ keys = [t \in Tokens |-> Settled(IF t \in Existing THEN InitialRow[t] ELSE NoRow)]
    /\ now = 0
    /\ pc = [r \in Requests |-> "idle"]
    /\ call = [r \in Requests |-> NoCall]
    /\ seen = [r \in Requests |-> NoRow]
    /\ when = [r \in Requests |-> Never]
    /\ drawn = [r \in Requests |-> NoKey]
    /\ attempts = [r \in Requests |-> 0]
    /\ tooLate = [r \in Requests |-> "no"]
    /\ accepted = [r \in Requests |-> Never]
    /\ reply = [r \in Requests |-> 0]

-----------------------------------------------------------------------------
GoTo(r, label) == pc' = [pc EXCEPT ![r] = label]

(* Mutant: what was written before the exception is committed.              *)
FailCommits(r, code) ==
    /\ keys' = Committed(keys, r)
    /\ reply' = [reply EXCEPT ![r] = code]
    /\ GoTo(r, "rolledBack")

Fail(r, code) ==
    /\ keys' = RolledBack(keys, r)
    /\ reply' = [reply EXCEPT ![r] = code]
    /\ GoTo(r, "rolledBack")

Answer(r, code) ==
    /\ reply' = [reply EXCEPT ![r] = code]
    /\ GoTo(r, "commit")

Stay == UNCHANGED <<keys, reply>>

RequiredScope(op) == IF op = "infer" THEN "infer" ELSE "admin"

FirstStatement(op) == CASE op = "infer"     -> "work"
                        [] op = "create"    -> "draw"
                        [] op = "revoke"    -> "revRead"
                        [] op = "verify"    -> "verRead"

(* The row that the next UPDATE of the request locks.                       *)
Target(r) == CASE pc[r] = "authTouch"               -> call[r].auth
               [] pc[r] \in {"verTouch", "revUpdate"} -> call[r].key
               [] pc[r] = "insert"                  -> drawn[r]

Waiting == {"authTouch", "verTouch", "revUpdate", "insert"}

Blocked(r) == pc[r] \in Waiting /\ ~ Lockable(keys, r, Target(r))

-----------------------------------------------------------------------------
(* A key may be known to be revoked before it is: get_session commits after *)
(* the answer has gone to the client.                                       *)
Revocation(key) ==
    IF keys[key].row # NoRow /\ keys[key].row.revoked # Never THEN "committed"
    ELSE IF \E s \in Requests : call[s] # NoCall /\ call[s].op = "revoke"
                                    /\ call[s].key = key /\ reply[s] = 200
    THEN "answered" ELSE "no"

Begin(r, c) ==
    /\ pc[r] = "idle"
    /\ c.op = "bootstrap" /\ ~ JobsOverlap =>
          \A s \in Requests : pc[s] \in InFlight => call[s].op # "bootstrap"
    /\ call' = [call EXCEPT ![r] = c]
    /\ tooLate' = [tooLate EXCEPT ![r] =
          IF c.op # "bootstrap" /\ c.auth \in Tokens THEN Revocation(c.auth) ELSE "no"]
    /\ GoTo(r, IF c.op = "bootstrap" THEN "bootList"
               ELSE IF AuthRequired THEN "authRead" ELSE FirstStatement(c.op))
    /\ UNCHANGED <<keys, now, seen, when, drawn, attempts, accepted, reply>>

(* Mutant: reads what others have not committed.                            *)
LoadedDirty(r, token) == IF token \notin Tokens THEN NoRow ELSE keys[token].draft

(* What a SELECT of the key gives to the service.  The session (autoflush   *)
(* is off) still holds the object of a key whose use the request has noted, *)
(* and a SELECT does not refresh it: it was read before the row was locked, *)
(* and the key was not revoked then.                                        *)
Loaded(r, token) ==
    IF token \notin Tokens THEN NoRow
    ELSE IF keys[token].owner = r THEN [keys[token].draft EXCEPT !.revoked = Never]
    ELSE keys[token].row

(* verify reads the row, and looks at the clock once it has it.             *)
Lookup(r, token, label) ==
    /\ seen' = [seen EXCEPT ![r] = Loaded(r, token)]
    /\ GoTo(r, label)
    /\ UNCHANGED <<keys, now, call, when, drawn, attempts, tooLate, accepted, reply>>

AuthRead(r) == pc[r] = "authRead" /\ Lookup(r, call[r].auth, "authCheck")
VerRead(r)  == pc[r] = "verRead"  /\ Lookup(r, call[r].key, "verCheck")

Past(instant) == IF instant = Never THEN FALSE ELSE instant <= now

(* Mutant: revocation is not looked at.                                     *)
ValidThoughRevoked(row, scope) == row # NoRow /\ ~ Past(row.expires) /\ scope \in row.scopes

Valid(row, scope) ==
    /\ row # NoRow
    /\ row.revoked = Never
    /\ ~ Past(row.expires)
    /\ scope \in row.scopes

(* Mutant: only the first use is noted.                                     *)
NeverTouched(row) == row.used = Never

NeedsTouch(row) == IF row.used = Never THEN TRUE ELSE now - row.used > Throttle

(* The request is let in, and the use of its key is noted now and then.     *)
AuthCheck(r) ==
    LET op == call[r].op
    IN  /\ pc[r] = "authCheck"
        /\ \/ /\ Valid(seen[r], RequiredScope(op))
              /\ accepted' = [accepted EXCEPT ![r] = now]
              /\ when' = [when EXCEPT ![r] = IF NeedsTouch(seen[r]) THEN now ELSE Never]
              /\ GoTo(r, IF NeedsTouch(seen[r]) THEN "authTouch" ELSE FirstStatement(op))
              /\ Stay
           \/ /\ ~ Valid(seen[r], RequiredScope(op))
              /\ Fail(r, 401)
              /\ UNCHANGED <<accepted, when>>
        /\ UNCHANGED <<now, call, seen, drawn, attempts, tooLate>>

(* POST /keys/verify answers that a key is not valid: no error.             *)
VerCheck(r) ==
    /\ pc[r] = "verCheck"
    /\ \/ /\ Valid(seen[r], call[r].scope) /\ NeedsTouch(seen[r])
          /\ when' = [when EXCEPT ![r] = now]
          /\ GoTo(r, "verTouch")
          /\ Stay
       \/ /\ ~ (Valid(seen[r], call[r].scope) /\ NeedsTouch(seen[r]))
          /\ Answer(r, 200)
          /\ UNCHANGED <<keys, when>>
    /\ UNCHANGED <<now, call, seen, drawn, attempts, tooLate, accepted>>

(* Mutant: the row is written back as it was read.                          *)
TouchWholeRow(r) ==
    /\ pc[r] = "authTouch"
    /\ ~ Blocked(r)
    /\ keys' = Write(keys, r, Target(r), [seen[r] EXCEPT !.used = when[r]])
    /\ when' = [when EXCEPT ![r] = Never]
    /\ GoTo(r, FirstStatement(call[r].op))
    /\ UNCHANGED <<now, call, seen, drawn, attempts, tooLate, accepted, reply>>

(* touch_last_used: an UPDATE of this one column, whatever became of the    *)
(* row since it was read.                                                   *)
Touch(r) ==
    /\ pc[r] \in {"authTouch", "verTouch"}
    /\ ~ Blocked(r)
    /\ keys' = Write(keys, r, Target(r), [keys[Target(r)].draft EXCEPT !.used = when[r]])
    /\ when' = [when EXCEPT ![r] = Never]
    /\ \/ pc[r] = "authTouch" /\ GoTo(r, FirstStatement(call[r].op)) /\ UNCHANGED reply
       \/ pc[r] = "verTouch" /\ Answer(r, 200)
    /\ UNCHANGED <<now, call, seen, drawn, attempts, tooLate, accepted>>

(* Any other operation of the service, in the transaction of its key.       *)
Work(r) ==
    /\ pc[r] = "work"
    /\ Answer(r, 200)
    /\ UNCHANGED <<keys, now, call, seen, when, drawn, attempts, tooLate, accepted>>

-----------------------------------------------------------------------------
(* Mutant: draws without end.                                               *)
DrawEndless(r) ==
    /\ pc[r] = "draw"
    /\ attempts' = [attempts EXCEPT ![r] = @ + 1]
    /\ \E t \in Tokens :
          /\ drawn' = [drawn EXCEPT ![r] = t]
          /\ GoTo(r, IF Visible(keys, r, t) = NoRow THEN "prefix" ELSE "draw")
    /\ UNCHANGED <<keys, now, call, seen, when, tooLate, accepted, reply>>

(* create draws tokens until it finds hash and prefix free.                 *)
Draw(r) ==
    LET c == call[r]
    IN  /\ pc[r] = "draw"
        /\ \/ /\ attempts[r] = 0 /\ c.op = "create"
              /\ Past(c.expires)
              /\ Fail(r, 422)
              /\ UNCHANGED <<drawn, attempts>>
           \/ /\ ~ (attempts[r] = 0 /\ c.op = "create" /\ Past(c.expires))
              /\ attempts[r] < MaxAttempts
              /\ attempts' = [attempts EXCEPT ![r] = @ + 1]
              /\ \E t \in Tokens :
                    /\ drawn' = [drawn EXCEPT ![r] = t]
                    /\ GoTo(r, IF Visible(keys, r, t) = NoRow THEN "prefix" ELSE "draw")
              /\ Stay
           \/ /\ attempts[r] = MaxAttempts
              /\ Fail(r, 409)
              /\ UNCHANGED <<drawn, attempts>>
        /\ UNCHANGED <<now, call, seen, when, tooLate, accepted>>

PrefixTaken(r) ==
    /\ pc[r] = "prefix"
    /\ GoTo(r, IF \E t \in Tokens : Visible(keys, r, t) # NoRow /\ PrefixOf[t] = PrefixOf[drawn[r]]
               THEN "draw" ELSE "insert")
    /\ UNCHANGED <<keys, now, call, seen, when, drawn, attempts, tooLate, accepted, reply>>

NewRow(r) ==
    LET c == call[r]
    IN  [scopes |-> IF c.op = "bootstrap" THEN Scopes ELSE c.scopes,
         expires |-> IF c.op = "bootstrap" THEN Never ELSE c.expires,
         revoked |-> Never, used |-> Never,
         name |-> IF c.op = "bootstrap" THEN BootstrapName ELSE c.name, by |-> r]

(* Mutant: a row with the same hash is overwritten.                         *)
InsertOverwrites(r) ==
    /\ pc[r] = "insert"
    /\ ~ Blocked(r)
    /\ keys' = Write(keys, r, drawn[r], NewRow(r))
    /\ Answer(r, 201)
    /\ UNCHANGED <<now, call, seen, when, drawn, attempts, tooLate, accepted>>

Insert(r) ==
    /\ pc[r] = "insert"
    /\ ~ Blocked(r)
    /\ \/ /\ Visible(keys, r, drawn[r]) = NoRow
          /\ keys' = Write(keys, r, drawn[r], NewRow(r))
          /\ Answer(r, 201)
       \/ /\ Visible(keys, r, drawn[r]) # NoRow
          /\ Fail(r, 409)
    /\ UNCHANGED <<now, call, seen, when, drawn, attempts, tooLate, accepted>>

(* A page of the keys whose name contains the one of the job: which keys    *)
(* come first, in the order of the ids, is left open.                       *)
PagesOf(matching) ==
    {page \in SUBSET matching :
        \/ page = matching /\ Cardinality(matching) <= ListLimit
        \/ Cardinality(page) = ListLimit}

Matching(r) ==
    {t \in Tokens : Visible(keys, r, t) # NoRow /\ Visible(keys, r, t).name # "other"}

HasName(r, t) == Visible(keys, r, t).name = BootstrapName

(* Mutant: only active keys are listed.                                     *)
BootstrapListActive(r) ==
    LET active == {t \in Matching(r) : Visible(keys, r, t).revoked = Never}
    IN  /\ pc[r] = "bootList"
        /\ \E page \in PagesOf(active) :
              \/ (\E t \in page : HasName(r, t)) /\ Answer(r, 200) /\ UNCHANGED keys
              \/ ~ (\E t \in page : HasName(r, t)) /\ GoTo(r, "draw") /\ Stay
        /\ UNCHANGED <<now, call, seen, when, drawn, attempts, tooLate, accepted>>

(* The bootstrap job searches the page for a key of its name, revoked or    *)
(* not.                                                                     *)
BootstrapList(r) ==
    /\ pc[r] = "bootList"
    /\ \E page \in PagesOf(Matching(r)) :
          \/ (\E t \in page : HasName(r, t)) /\ Answer(r, 200) /\ UNCHANGED keys
          \/ ~ (\E t \in page : HasName(r, t)) /\ GoTo(r, "draw") /\ Stay
    /\ UNCHANGED <<now, call, seen, when, drawn, attempts, tooLate, accepted>>

-----------------------------------------------------------------------------
RevokeRead(r) ==
    LET row == Loaded(r, call[r].key)
    IN  /\ pc[r] = "revRead"
        /\ \/ row = NoRow /\ Fail(r, 404) /\ UNCHANGED when
           \/ row # NoRow /\ row.revoked # Never /\ Answer(r, 200) /\ UNCHANGED <<keys, when>>
           \/ /\ row # NoRow /\ row.revoked = Never
              /\ when' = [when EXCEPT ![r] = now]
              /\ GoTo(r, "revUpdate")
              /\ Stay
        /\ UNCHANGED <<now, call, seen, drawn, attempts, tooLate, accepted>>

(* UPDATE .. WHERE revoked_at IS NULL looks again when it has the lock.     *)
RevokeUpdate(r) ==
    LET row == keys[call[r].key].draft
    IN  /\ pc[r] = "revUpdate"
        /\ ~ Blocked(r)
        /\ \/ /\ row.revoked = Never
              /\ keys' = Write(keys, r, call[r].key, [row EXCEPT !.revoked = when[r]])
              /\ Answer(r, 200)
           \/ /\ row.revoked # Never
              /\ Fail(r, 409)
        /\ when' = [when EXCEPT ![r] = Never]
        /\ UNCHANGED <<now, call, seen, drawn, attempts, tooLate, accepted>>

-----------------------------------------------------------------------------
Commit(r) ==
    /\ pc[r] = "commit"
    /\ keys' = Committed(keys, r)
    /\ GoTo(r, "committed")
    /\ UNCHANGED <<now, call, seen, when, drawn, attempts, tooLate, accepted, reply>>

LockWaitAborted(r) ==
    /\ Blocked(r)
    /\ Fail(r, 500)
    /\ when' = [when EXCEPT ![r] = Never]
    /\ UNCHANGED <<now, call, seen, drawn, attempts, tooLate, accepted>>

Aborted(r) ==
    /\ pc[r] \in InFlight
    /\ Fail(r, IF pc[r] = "commit" THEN reply[r] ELSE 500)
    /\ when' = [when EXCEPT ![r] = Never]
    /\ UNCHANGED <<now, call, seen, drawn, attempts, tooLate, accepted>>

(* No UPDATE waits longer than its timeout.                                 *)
Tick ==
    /\ now < MaxTime
    /\ \A r \in Requests : when[r] # Never => now - when[r] < MaxWait
    /\ now' = now + 1
    /\ UNCHANGED <<keys, pc, call, seen, when, drawn, attempts, tooLate, accepted, reply>>

Step(r) ==
    \/ AuthRead(r) \/ AuthCheck(r) \/ VerRead(r) \/ VerCheck(r) \/ Touch(r)
    \/ Work(r)
    \/ Draw(r) \/ PrefixTaken(r) \/ Insert(r) \/ BootstrapList(r)
    \/ RevokeRead(r) \/ RevokeUpdate(r)
    \/ Commit(r) \/ LockWaitAborted(r)

Arrive(r) == \E c \in Calls : Begin(r, c)

Done == /\ \A r \in Requests : pc[r] \in Ended
        /\ UNCHANGED vars

Next == \/ \E r \in Requests : Arrive(r) \/ Step(r) \/ Aborted(r)
        \/ Tick
        \/ Done

Spec == Init /\ [][Next]_vars

-----------------------------------------------------------------------------
(* Correctness. *)

(* A request that comes after the revocation of its key has committed is    *)
(* never let in, although a request reads the row of its key, checks it and *)
(* notes its use in three steps (ApiKeyService.verify).                     *)
RevokedKeyRefused ==
    \A r \in Requests : tooLate[r] = "committed" => accepted[r] = Never

(* A key is refused as soon as a client has been told that it is revoked    *)
(* (ApiKeyService.revoke answers through get_session).                      *)
RevokedOnceAnswered ==
    \A r \in Requests : tooLate[r] # "no" => accepted[r] = Never

(* Whoever has had the answer that a key is revoked can rely on it          *)
(* (ApiKeyService.revoke, when two requests revoke the same key).           *)
RevokeEffective ==
    \A r \in Requests :
        pc[r] = "committed" /\ call[r].op = "revoke"
            => keys[call[r].key].row # NoRow /\ keys[call[r].key].row.revoked # Never

(* last_used_at lags behind the last use of a key by no more than the       *)
(* throttle and the time that a statement may take: it may go back, since   *)
(* its value is older than the lock that writes it (touch_last_used).       *)
LastUsedLag ==
    \A r \in Requests :
        pc[r] = "committed" /\ accepted[r] # Never =>
            /\ keys[call[r].auth].row.used # Never
            /\ keys[call[r].auth].row.used >= accepted[r] - Throttle - MaxWait

(* A key is revoked only by a request that has succeeded: one that fails    *)
(* after its UPDATE leaves the key in use (Database.transaction).           *)
RevokedOnPurpose ==
    \A t \in Tokens :
        keys[t].row # NoRow /\ keys[t].row.revoked # Never =>
            \/ t \in Existing /\ InitialRow[t].revoked # Never
            \/ \E r \in Requests :
                  pc[r] = "committed" /\ call[r].op = "revoke" /\ call[r].key = t

(* A creation that succeeds has made one key and one that does not none,    *)
(* whatever tokens the others draw between its look at the table and its    *)
(* INSERT (ApiKeyService.create).                                           *)
OneKeyEach ==
    \A r \in Requests :
        Cardinality({t \in Tokens : keys[t].row # NoRow /\ keys[t].row.by = r})
            = IF pc[r] = "committed" /\ reply[r] = 201 THEN 1 ELSE 0

(* A key of the name of the bootstrap job that nobody has asked for over    *)
(* HTTP, where every name is allowed.                                       *)
BootstrapKey(row) ==
    /\ row # NoRow /\ row.name = BootstrapName
    /\ row.by \in Requests => call[row.by].op = "bootstrap"

OtherMatches ==
    {t \in Tokens : /\ keys[t].row # NoRow /\ keys[t].row.name # "other"
                    /\ ~ BootstrapKey(keys[t].row)}

(* However often the bootstrap job runs, and whatever becomes of its key or *)
(* is created between its runs, it does not make a second one, unless so    *)
(* many other names contain its own that they can fill the page in which it *)
(* looks (ci/bootstrap_admin.py).                                           *)
BootstrapOnce ==
    Cardinality(OtherMatches) < ListLimit =>
        Cardinality({t \in Tokens : BootstrapKey(keys[t].row)}) <= 1

(* What a row of the table grants, and what it stands for, whenever it was  *)
(* used last.                                                               *)
RightsOf(row) == [scopes |-> row.scopes, expires |-> row.expires, name |-> row.name]

Rights ==
    [scopes : Grants \cup {Scopes}, expires : Expiries \cup {Never}, name : NameKinds]
        \cup {RightsOf(InitialRow[t]) : t \in Existing}

KeyLife(t) ==
    IF keys[t].row = NoRow THEN NoRow
    ELSE [rights |-> RightsOf(keys[t].row), revoked |-> keys[t].row.revoked, by |-> keys[t].row.by]

Lifecycle == INSTANCE KeyLifecycle
               WITH life <- [t \in Tokens |-> KeyLife(t)],
                    Instants <- Times,
                    Makers <- Requests \cup {NoTxn}

ASSUME LifeAssumption == NoRow \notin Lifecycle!Lives

(* To whoever holds a key the table is KeyLifecycle: no interleaving of     *)
(* creations, revocations and notes of a use makes two keys for one         *)
(* request, gives a key other rights, or takes back or dates anew its       *)
(* revocation (ApiKeyService, ApiKeyRepository, touch_last_used).           *)
ImplementsLifecycle == Lifecycle!LifeSpec
=============================================================================
