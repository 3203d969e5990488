--------------------------- MODULE ApiKeysProofs ---------------------------
(* The safety of API keys, for any number of requests and keys, any clock, *)
(* throttle and statement timeout.                                         *)
EXTENDS ApiKeys, ReadCommittedProofs, FiniteSetTheorems

(* The inductive invariant of the specification.                            *)

Authenticated == {"infer", "create", "revoke", "verify"}

OpsAt == [authRead |-> Authenticated, authCheck |-> Authenticated, authTouch |-> Authenticated,
          verRead |-> {"verify"}, verCheck |-> {"verify"}, verTouch |-> {"verify"},
          work |-> {"infer"}, revRead |-> {"revoke"}, revUpdate |-> {"revoke"},
          draw |-> {"create", "bootstrap"}, prefix |-> {"create", "bootstrap"},
          insert |-> {"create", "bootstrap"}, bootList |-> {"bootstrap"}]

Exists(t)  == keys[t].row # NoRow
Revoked(t) == Exists(t) /\ keys[t].row.revoked # Never

(* used is not older than an instant, given the time a statement may wait.  *)
NotBefore(used, instant) == used # Never /\ used >= instant - MaxWait

(* A request is where its call leads; it is let in once, and has an instant *)
(* to write, not older than a wait, just before its UPDATE.                 *)
ControlOK(r) ==
    /\ pc[r] # "idle" => call[r] \in Calls
    /\ pc[r] \in DOMAIN OpsAt => call[r].op \in OpsAt[pc[r]]
    /\ when[r] # Never <=> pc[r] \in {"authTouch", "verTouch", "revUpdate"}
    /\ when[r] # Never => when[r] <= now /\ NotBefore(when[r], now)
    /\ pc[r] \in {"idle", "authRead", "authCheck"} => accepted[r] = Never
    /\ accepted[r] # Never => accepted[r] <= now /\ call[r].op \in Authenticated
    /\ pc[r] = "authTouch" => when[r] = accepted[r]
    /\ pc[r] \in {"prefix", "insert"} => drawn[r] \in Tokens

(* What a request has found in the table still holds.                       *)
KnownOK(r) ==
    /\ pc[r] = "authCheck" /\ seen[r] # NoRow =>
          /\ call[r].auth \in Tokens /\ Exists(call[r].auth)
          /\ seen[r].used # Never => /\ seen[r].used <= now
                                    /\ NotBefore(keys[call[r].auth].row.used, seen[r].used)
                                    /\ NotBefore(keys[call[r].auth].draft.used, seen[r].used)
    /\ accepted[r] # Never => call[r].auth \in Tokens /\ Exists(call[r].auth)
    /\ pc[r] = "verCheck" /\ seen[r] # NoRow => Exists(call[r].key)
    /\ pc[r] \in {"verTouch", "revUpdate"} => Exists(call[r].key)

(* The key of whoever was let in has been used, and will have been, however *)
(* the transactions that have noted other uses of it end.                   *)
NotedOK(r) ==
    accepted[r] # Never /\ pc[r] \in (InFlight \ {"authTouch"}) \cup {"committed"} =>
        LET slot == keys[call[r].auth]
        IN  /\ NotBefore(slot.draft.used, accepted[r] - Throttle)
            /\ \/ NotBefore(slot.row.used, accepted[r] - Throttle)
               \/ slot.owner = r /\ pc[r] # "committed"

(* A request that came too late has not been let in, nor will it be.        *)
LateOK(r) ==
    tooLate[r] = "committed" =>
        /\ pc[r] # "idle" /\ call[r].op \in Authenticated
        /\ call[r].auth \in Tokens /\ Revoked(call[r].auth)
        /\ accepted[r] = Never
        /\ pc[r] = "authCheck" => seen[r] # NoRow /\ seen[r].revoked # Never

(* A revocation that has been answered is in the table, or in the           *)
(* transaction that is about to commit it.                                  *)
RevokeOK(r) ==
    pc[r] \in {"commit", "committed"} /\ call[r].op = "revoke" =>
        \/ Revoked(call[r].key)
        \/ /\ pc[r] = "commit" /\ keys[call[r].key].owner = r
           /\ Exists(call[r].key) /\ keys[call[r].key].draft.revoked # Never

(* So is the key of a creation that has been answered.                      *)
CreateOK(r) ==
    reply[r] = 201 /\ pc[r] \in {"commit", "committed"} =>
        /\ drawn[r] \in Tokens
        /\ IF pc[r] = "commit"
           THEN keys[drawn[r]].owner = r /\ keys[drawn[r]].row = NoRow /\ keys[drawn[r]].draft # NoRow
           ELSE Exists(drawn[r]) /\ keys[drawn[r]].row.by = r

RequestOK(r) ==
    ControlOK(r) /\ KnownOK(r) /\ NotedOK(r) /\ LateOK(r) /\ RevokeOK(r) /\ CreateOK(r)

(* A draft is another version of the same key, or a new one.                *)
OldKeyOK(t) ==
    LET row == keys[t].row  draft == keys[t].draft  owner == keys[t].owner
    IN  Exists(t) =>
            /\ draft # NoRow
            /\ draft.by = row.by /\ draft.name = row.name
            /\ row.used # Never => NotBefore(draft.used, row.used)
            /\ row.revoked # Never => draft.revoked = row.revoked
            /\ row.revoked = Never /\ draft.revoked # Never =>
                  pc[owner] = "commit" /\ call[owner].op = "revoke" /\ call[owner].key = t
            /\ row.by \in Requests =>
                  pc[row.by] = "committed" /\ reply[row.by] = 201 /\ drawn[row.by] = t
            /\ row.used # Never => row.used <= now

NewKeyOK(t) ==
    LET draft == keys[t].draft  owner == keys[t].owner
    IN  /\ draft # NoRow /\ draft.used # Never => draft.used <= now
        /\ draft # NoRow /\ ~ Exists(t) =>
              /\ draft.by = owner /\ draft.revoked = Never
              /\ pc[owner] = "commit" /\ reply[owner] = 201 /\ drawn[owner] = t

Holding == InFlight \ {"authRead", "authCheck", "authTouch", "bootList"}

OwnerOK(t) ==
    /\ keys[t].owner \in Requests => pc[keys[t].owner] \in Holding /\ keys[t].draft # NoRow
    /\ keys[t].owner = NoTxn => keys[t].draft = keys[t].row

RevokedBySomebody(t) ==
    Revoked(t) =>
        \/ t \in Existing /\ InitialRow[t].revoked # Never
        \/ \E r \in Requests : pc[r] = "committed" /\ call[r].op = "revoke" /\ call[r].key = t

SlotOK(t) == OwnerOK(t) /\ OldKeyOK(t) /\ NewKeyOK(t) /\ RevokedBySomebody(t)

IInv == TypeOK /\ (\A r \in Requests : RequestOK(r)) /\ (\A t \in Tokens : SlotOK(t))

(* When bootstrap jobs do not overlap, no key of theirs is in the table or  *)
(* about to be once a job has not found any.                                *)
IsJob(r) == pc[r] \in InFlight /\ call[r].op = "bootstrap"

BootstrapInv ==
    /\ \A r, s \in Requests : IsJob(r) /\ IsJob(s) => r = s
    /\ \A t \in Tokens : BootstrapKey(keys[t].draft) /\ ~ Exists(t) => IsJob(keys[t].owner)
    /\ \A j, k \in Tokens : BootstrapKey(keys[j].draft) /\ BootstrapKey(keys[k].draft) => j = k
    /\ \A r \in Requests, t \in Tokens :
          IsJob(r) /\ pc[r] \in {"draw", "prefix", "insert"} => ~ BootstrapKey(keys[t].draft)

(* As long as the page in which they look has room for a key of theirs.     *)
Few == Cardinality(OtherMatches) < ListLimit

-----------------------------------------------------------------------------
USE TimeAssumption, FreshAssumption

(* What the routes let a request ask for.                                   *)
LEMMA CallFacts ==
    ASSUME NEW c \in Calls
    PROVE  /\ c.op \in Authenticated \cup {"bootstrap"}
           /\ c.op \in Authenticated => c.auth \in Presented /\ c.auth \in Tokens \cup {NoKey}
           /\ c.op \in {"revoke", "verify"} => c.key \in Tokens
           /\ c.op = "create" => c.scopes \in SUBSET Scopes /\ c.expires \in Nat \cup {Never}
  BY StartAssumption DEF Calls, Authenticated

LEMMA RowFacts ==
    ASSUME NEW row \in Row
    PROVE  /\ row # NoRow
           /\ row.used \in Times \cup {Never} /\ row.revoked \in Times \cup {Never}
           /\ row.by \in Requests \cup {NoTxn}
  BY DEF Row

(* A row stays one when a column of it is written.                          *)
LEMMA WithUsed ==
    ASSUME NEW row \in Row, NEW i \in Times \cup {Never}
    PROVE  \E new \in Row :
              /\ new = [row EXCEPT !.used = i]
              /\ new.used = i /\ new.revoked = row.revoked
              /\ new.by = row.by /\ new.name = row.name
<1> DEFINE new == [row EXCEPT !.used = i]
<1>1. /\ new \in Row
      /\ new.used = i /\ new.revoked = row.revoked
      /\ new.by = row.by /\ new.name = row.name
  BY DEF Row
<1> HIDE DEF new
<1>2. new = [row EXCEPT !.used = i]
  BY DEF new
<1> QED
  BY <1>1, <1>2

LEMMA WithRevoked ==
    ASSUME NEW row \in Row, NEW i \in Times \cup {Never}
    PROVE  \E new \in Row :
              /\ new = [row EXCEPT !.revoked = i]
              /\ new.revoked = i /\ new.used = row.used
              /\ new.by = row.by /\ new.name = row.name
<1> DEFINE new == [row EXCEPT !.revoked = i]
<1>1. /\ new \in Row
      /\ new.revoked = i /\ new.used = row.used
      /\ new.by = row.by /\ new.name = row.name
  BY DEF Row
<1> HIDE DEF new
<1>2. new = [row EXCEPT !.revoked = i]
  BY DEF new
<1> QED
  BY <1>1, <1>2

(* It then grants what it did.                                              *)
LEMMA SameRights ==
    ASSUME NEW row \in Row, NEW i \in Times \cup {Never}, NEW new,
           new = [row EXCEPT !.used = i] \/ new = [row EXCEPT !.revoked = i]
    PROVE  new # NoRow /\ RightsOf(new) = RightsOf(row)
<1>1. new \in Row
  BY DEF Row
<1>2. new.scopes = row.scopes /\ new.expires = row.expires /\ new.name = row.name
  BY DEF Row
<1> QED
  BY <1>1, <1>2, RowFacts DEF RightsOf

LEMMA TimesFacts ==
    /\ Never \notin Times
    /\ \A i \in Times : i \in Int /\ i >= 0 /\ i <= MaxTime
    /\ 0 \in Times
  BY DEF Times

-----------------------------------------------------------------------------
(* How a step of r may change a key: not at all, by ending the transaction  *)
(* that holds it, or by writing another version of it.                      *)
SlotStep(r, t) ==
    \/ keys'[t] = keys[t]
    \/ keys[t].owner = r /\ keys'[t] = Settled(keys[t].draft)
    \/ keys[t].owner = r /\ keys'[t] = Settled(keys[t].row)
    \/ /\ keys[t].owner \in {NoTxn, r}
       /\ keys'[t].row = keys[t].row /\ keys'[t].owner = r
       /\ Exists(t) => /\ keys'[t].draft # NoRow
                       /\ \/ keys'[t].draft.used = keys[t].draft.used
                          \/ NotBefore(keys'[t].draft.used, now)

(* A step of r leaves the other requests where they are.                    *)
Frame(r) ==
    /\ now' = now
    /\ \A s \in Requests \ {r} :
          /\ pc'[s] = pc[s] /\ call'[s] = call[s] /\ seen'[s] = seen[s] /\ when'[s] = when[s]
          /\ drawn'[s] = drawn[s] /\ tooLate'[s] = tooLate[s] /\ accepted'[s] = accepted[s]
          /\ reply'[s] = reply[s]

(* Then what they have found and written is still so.                       *)
LEMMA OthersStay ==
    ASSUME IInv, TypeOK', NEW r \in Requests, Frame(r),
           \A t \in Tokens : SlotStep(r, t),
           NEW s \in Requests, s # r
    PROVE  RequestOK(s)'
<1> USE DEF IInv, Frame
<1>1. now' = now /\ now \in Times /\ RequestOK(s)
  BY DEF TypeOK
<1>2. /\ pc'[s] = pc[s] /\ call'[s] = call[s] /\ seen'[s] = seen[s] /\ when'[s] = when[s]
      /\ drawn'[s] = drawn[s] /\ tooLate'[s] = tooLate[s] /\ accepted'[s] = accepted[s]
      /\ reply'[s] = reply[s]
  OBVIOUS
<1>3. ASSUME NEW t \in Tokens
      PROVE  /\ Exists(t) => Exists(t)'
             /\ Revoked(t) => Revoked(t)'
             /\ Exists(t) => keys'[t].row.by = keys[t].row.by
             /\ keys[t].owner = s => keys'[t] = keys[t]
             /\ keys[t].owner # s => keys'[t].owner # s
  <2>1. SlotStep(r, t) /\ OldKeyOK(t)
    BY DEF SlotOK
  <2>2. \/ keys'[t].row = keys[t].row
        \/ keys'[t].row = keys[t].draft
    BY <2>1 DEF SlotStep, Settled
  <2>3. keys[t].owner = s => keys'[t] = keys[t]
    BY <2>1 DEF SlotStep
  <2>4. keys'[t].owner \in {keys[t].owner, NoTxn, r}
    BY <2>1 DEF SlotStep, Settled
  <2>5. keys[t].owner # s => keys'[t].owner # s
    BY <2>4
  <2> QED
    BY <2>1, <2>2, <2>3, <2>5 DEF OldKeyOK, Exists, Revoked
<1>4. ASSUME NEW t \in Tokens, Exists(t), NEW i \in Int,
             i <= now,
             NotBefore(keys[t].draft.used, i),
             NotBefore(keys[t].row.used, i) \/ keys[t].owner = s
      PROVE  /\ NotBefore(keys'[t].draft.used, i)
             /\ NotBefore(keys'[t].row.used, i) \/ keys'[t].owner = s
  <2>1. keys[t].owner = r => NotBefore(keys[t].row.used, i)
    BY <1>4, <1>1
  <2>2. CASE keys'[t] = keys[t]
    BY <2>2, <1>4
  <2>3. CASE keys[t].owner = r /\ (keys'[t] = Settled(keys[t].draft) \/ keys'[t] = Settled(keys[t].row))
    BY <2>1, <2>3, <1>4 DEF Settled
  <2>4. CASE /\ keys[t].owner \in {NoTxn, r}
             /\ keys'[t].row = keys[t].row /\ keys'[t].owner = r
             /\ keys'[t].draft # NoRow
             /\ \/ keys'[t].draft.used = keys[t].draft.used
                \/ NotBefore(keys'[t].draft.used, now)
    <3>1. keys'[t].draft.used \in Times \cup {Never}
      BY <2>4, RowFacts DEF TypeOK, Table
    <3>2. NotBefore(keys'[t].draft.used, now) => NotBefore(keys'[t].draft.used, i)
      BY <3>1, <1>4, <1>1, TimesFacts DEF NotBefore
    <3>3. NotBefore(keys[t].row.used, i)
      BY <2>4, <1>4
    <3> QED
      BY <2>4, <3>2, <3>3, <1>4
  <2> QED
    BY <2>2, <2>3, <2>4, <1>4 DEF SlotStep
<1>5. ControlOK(s)'
  BY <1>1, <1>2 DEF RequestOK, ControlOK
<1>6. /\ seen[s] # NoRow => seen[s].used \in Times \cup {Never}
      /\ accepted[s] \in Times \cup {Never}
      /\ pc[s] # "idle" /\ call[s].op \in {"revoke", "verify"} => call[s].key \in Tokens
      /\ accepted[s] # Never => /\ accepted[s] - Throttle \in Int
                                /\ accepted[s] - Throttle <= now
  BY <1>1, CallFacts, RowFacts, TimesFacts DEF RequestOK, ControlOK, TypeOK
<1>7. KnownOK(s)'
  <2>1. pc[s] = "authCheck" /\ seen[s] # NoRow /\ seen[s].used # Never =>
           /\ call[s].auth \in Tokens /\ Exists(call[s].auth)
           /\ seen[s].used \in Int /\ seen[s].used <= now
           /\ NotBefore(keys[call[s].auth].row.used, seen[s].used)
           /\ NotBefore(keys[call[s].auth].draft.used, seen[s].used)
           /\ keys[call[s].auth].owner # s
    BY <1>1, <1>6, TimesFacts DEF RequestOK, KnownOK, SlotOK, OwnerOK, Holding
  <2>2. pc[s] = "authCheck" /\ seen[s] # NoRow /\ seen[s].used # Never =>
           /\ NotBefore(keys'[call[s].auth].row.used, seen[s].used)
           /\ NotBefore(keys'[call[s].auth].draft.used, seen[s].used)
    <3> HAVE pc[s] = "authCheck" /\ seen[s] # NoRow /\ seen[s].used # Never
    <3> DEFINE t == call[s].auth
    <3>1. /\ NotBefore(keys'[t].draft.used, seen[s].used)
          /\ NotBefore(keys'[t].row.used, seen[s].used) \/ keys'[t].owner = s
      BY <2>1, <1>4
    <3>2. keys'[t].owner # s
      BY <2>1, <1>3
    <3> QED
      BY <3>1, <3>2
  <2>3. pc[s] \in {"verCheck", "verTouch", "revUpdate"} =>
          pc[s] # "idle" /\ call[s].op \in {"revoke", "verify"}
    BY <1>1 DEF RequestOK, ControlOK, OpsAt
  <2> QED
    BY <1>1, <1>2, <1>3, <1>6, <2>2, <2>3 DEF RequestOK, KnownOK
<1>8. NotedOK(s)'
  <2> SUFFICES ASSUME accepted[s] # Never,
                      pc[s] \in (InFlight \ {"authTouch"}) \cup {"committed"}
               PROVE  LET slot == keys'[call[s].auth]
                      IN  /\ NotBefore(slot.draft.used, accepted[s] - Throttle)
                          /\ \/ NotBefore(slot.row.used, accepted[s] - Throttle)
                             \/ slot.owner = s /\ pc[s] # "committed"
    BY <1>2 DEF NotedOK
  <2> DEFINE t == call[s].auth
  <2>1. t \in Tokens /\ Exists(t)
    BY <1>1 DEF RequestOK, KnownOK
  <2>2. /\ NotBefore(keys[t].draft.used, accepted[s] - Throttle)
        /\ \/ NotBefore(keys[t].row.used, accepted[s] - Throttle)
           \/ keys[t].owner = s /\ pc[s] # "committed"
    BY <1>1 DEF RequestOK, NotedOK
  <2>3. /\ NotBefore(keys'[t].draft.used, accepted[s] - Throttle)
        /\ \/ NotBefore(keys'[t].row.used, accepted[s] - Throttle)
           \/ keys'[t].owner = s
    BY <2>1, <2>2, <1>6, <1>4
  <2>4. pc[s] = "committed" => keys'[t].owner # s
    <3>1. keys[t].owner # s \/ pc[s] # "committed"
      BY <2>1 DEF SlotOK, OwnerOK, Holding, InFlight
    <3> QED
      BY <3>1, <2>1, <1>3
  <2> QED
    BY <2>3, <2>4
<1>9. LateOK(s)'
  BY <1>1, <1>2, <1>3 DEF RequestOK, LateOK
<1>10. RevokeOK(s)'
  <2>1. pc[s] \in {"commit", "committed"} => pc[s] # "idle"
    OBVIOUS
  <2> QED
    BY <1>1, <1>2, <1>3, <1>6, <2>1 DEF RequestOK, RevokeOK
<1>11. CreateOK(s)'
  BY <1>1, <1>2, <1>3 DEF RequestOK, CreateOK, Exists
<1> QED
  BY <1>5, <1>7, <1>8, <1>9, <1>10, <1>11 DEF RequestOK

-----------------------------------------------------------------------------
(* The keys after a step of r, one lemma for each way a key changes.        *)
LEMMA OwnerFacts ==
    ASSUME TypeOK, NEW t \in Tokens
    PROVE  /\ keys[t].owner \in Requests \cup {NoTxn}
           /\ keys[t].row \in Row \cup {NoRow} /\ keys[t].draft \in Row \cup {NoRow}
           /\ keys[t] = [row |-> keys[t].row, draft |-> keys[t].draft, owner |-> keys[t].owner]
  BY DEF TypeOK, Table

LEMMA SlotStays ==
    ASSUME IInv, NEW r \in Requests, Frame(r), NEW t \in Tokens,
           keys'[t] = keys[t],
           pc[r] \notin Ended,
           keys[t].owner = r => pc[r] # "commit" /\ pc'[r] \in Holding
    PROVE  SlotOK(t)'
<1> USE DEF IInv, Frame
<1>1. SlotOK(t) /\ now' = now
  OBVIOUS
<1>2. /\ keys[t].owner \in Requests \cup {NoTxn}
      /\ Exists(t) => keys[t].row.by \in Requests \cup {NoTxn}
  BY OwnerFacts, RowFacts DEF Exists
<1>3. \A s \in Requests \ {r} : /\ pc'[s] = pc[s] /\ call'[s] = call[s]
                                /\ reply'[s] = reply[s] /\ drawn'[s] = drawn[s]
  OBVIOUS
<1>4. OwnerOK(t)'
  BY <1>1, <1>3 DEF SlotOK, OwnerOK
<1>5. OldKeyOK(t)'
  <2>1. Exists(t) /\ keys[t].row.by \in Requests => keys[t].row.by # r
    BY <1>1 DEF SlotOK, OldKeyOK, Ended
  <2>2. Exists(t) /\ keys[t].row.revoked = Never /\ keys[t].draft.revoked # Never
           => keys[t].owner \in Requests \ {r}
    BY <1>1, <1>2 DEF SlotOK, OldKeyOK, OwnerOK
  <2> QED
    BY <1>1, <1>3, <2>1, <2>2 DEF SlotOK, OldKeyOK, Exists
<1>6. NewKeyOK(t)'
  <2>1. keys[t].draft # NoRow /\ ~ Exists(t) => keys[t].owner \in Requests \ {r}
    BY <1>1, <1>2 DEF SlotOK, NewKeyOK, OwnerOK, Exists
  <2> QED
    BY <1>1, <1>3, <2>1 DEF SlotOK, NewKeyOK, Exists
<1>7. RevokedBySomebody(t)'
  BY <1>1, <1>3 DEF SlotOK, RevokedBySomebody, Revoked, Exists, Ended
<1> QED
  BY <1>4, <1>5, <1>6, <1>7 DEF SlotOK

LEMMA SlotRolledBack ==
    ASSUME IInv, NEW r \in Requests, Frame(r), NEW t \in Tokens,
           keys[t].owner = r, keys'[t] = Settled(keys[t].row),
           pc[r] \notin Ended
    PROVE  SlotOK(t)'
<1> USE DEF IInv, Frame
<1>1. SlotOK(t) /\ now' = now
  OBVIOUS
<1>2. Exists(t) => keys[t].row \in Row
  BY OwnerFacts DEF Exists
<1>3. \A s \in Requests \ {r} : /\ pc'[s] = pc[s] /\ call'[s] = call[s]
                                /\ reply'[s] = reply[s] /\ drawn'[s] = drawn[s]
  OBVIOUS
<1>4. keys'[t].row = keys[t].row /\ keys'[t].draft = keys[t].row /\ keys'[t].owner = NoTxn
  BY DEF Settled
<1>5. OwnerOK(t)'
  BY <1>4 DEF OwnerOK
<1>6. OldKeyOK(t)'
  <2>1. Exists(t) /\ keys[t].row.by \in Requests => keys[t].row.by # r
    BY <1>1 DEF SlotOK, OldKeyOK, Ended
  <2>2. Exists(t) /\ keys[t].row.used # Never => NotBefore(keys[t].row.used, keys[t].row.used)
    BY <1>2, RowFacts, TimesFacts DEF NotBefore
  <2> QED
    BY <1>1, <1>3, <1>4, <2>1, <2>2 DEF SlotOK, OldKeyOK, Exists
<1>7. NewKeyOK(t)'
  BY <1>1, <1>4 DEF SlotOK, OldKeyOK, NewKeyOK, Exists
<1>8. RevokedBySomebody(t)'
  BY <1>1, <1>3, <1>4 DEF SlotOK, RevokedBySomebody, Revoked, Exists, Ended
<1> QED
  BY <1>5, <1>6, <1>7, <1>8 DEF SlotOK

LEMMA SlotCommitted ==
    ASSUME IInv, NEW r \in Requests, Frame(r), NEW t \in Tokens,
           keys[t].owner = r, keys'[t] = Settled(keys[t].draft),
           pc[r] = "commit", pc'[r] = "committed",
           call'[r] = call[r], reply'[r] = reply[r], drawn'[r] = drawn[r]
    PROVE  SlotOK(t)'
<1> USE DEF IInv, Frame
<1>1. SlotOK(t) /\ now' = now
  OBVIOUS
<1>2. /\ keys[t].draft # NoRow => keys[t].draft \in Row
      /\ Exists(t) => keys[t].row \in Row
  BY OwnerFacts DEF Exists
<1>3. \A s \in Requests \ {r} : /\ pc'[s] = pc[s] /\ call'[s] = call[s]
                                /\ reply'[s] = reply[s] /\ drawn'[s] = drawn[s]
  OBVIOUS
<1>4. keys'[t].row = keys[t].draft /\ keys'[t].draft = keys[t].draft /\ keys'[t].owner = NoTxn
  BY DEF Settled
<1>5. OwnerOK(t)'
  BY <1>4 DEF OwnerOK
<1>6. OldKeyOK(t)'
  <2> SUFFICES ASSUME keys[t].draft # NoRow PROVE OldKeyOK(t)'
    BY <1>4 DEF OldKeyOK, Exists
  <2>1. keys[t].draft.by \in Requests =>
           /\ pc'[keys[t].draft.by] = "committed" /\ reply'[keys[t].draft.by] = 201
           /\ drawn'[keys[t].draft.by] = t
    BY <1>1, <1>3 DEF SlotOK, OldKeyOK, NewKeyOK
  <2>2. keys[t].draft.used # Never => NotBefore(keys[t].draft.used, keys[t].draft.used)
    BY <1>2, RowFacts, TimesFacts DEF NotBefore
  <2>3. keys[t].draft.used # Never => keys[t].draft.used <= now
    BY <1>1 DEF SlotOK, NewKeyOK
  <2> QED
    BY <1>1, <1>4, <2>1, <2>2, <2>3 DEF OldKeyOK, Exists
<1>7. NewKeyOK(t)'
  BY <1>1, <1>4 DEF SlotOK, NewKeyOK, Exists
<1>8. RevokedBySomebody(t)'
  <2>1. CASE Revoked(t)
    BY <1>1, <1>3, <2>1 DEF SlotOK, RevokedBySomebody
  <2>2. CASE keys[t].draft # NoRow /\ keys[t].draft.revoked # Never /\ ~ Revoked(t)
    BY <1>1, <2>2 DEF SlotOK, OldKeyOK, NewKeyOK, RevokedBySomebody, Revoked, Exists
  <2> QED
    BY <1>4, <2>1, <2>2 DEF RevokedBySomebody, Revoked, Exists
<1> QED
  BY <1>5, <1>6, <1>7, <1>8 DEF SlotOK

-----------------------------------------------------------------------------
(* A step of one request, by what it does to the table.                     *)

(* It moves on without writing.                                             *)
LEMMA MoveStep ==
    ASSUME IInv, TypeOK', NEW r \in Requests, Frame(r), keys' = keys,
           pc[r] \notin Ended \cup {"commit"},
           pc[r] \in Holding => pc'[r] \in Holding,
           RequestOK(r)'
    PROVE  IInv'
<1>1. \A t \in Tokens : SlotStep(r, t)
  BY DEF SlotStep
<1>2. \A s \in Requests : RequestOK(s)'
  BY <1>1, OthersStay
<1>3. ASSUME NEW t \in Tokens PROVE SlotOK(t)'
  <2>1. keys[t].owner = r => pc[r] \in Holding
    BY DEF IInv, SlotOK, OwnerOK
  <2> QED
    BY <2>1, SlotStays
<1> QED
  BY <1>2, <1>3 DEF IInv

(* It writes a version of one key.                                          *)
LEMMA WriteStep ==
    ASSUME IInv, TypeOK', NEW r \in Requests, Frame(r), NEW k \in Tokens, NEW row \in Row,
           keys' = Write(keys, r, k, row),
           keys[k].owner \in {NoTxn, r},
           pc[r] \notin Ended \cup {"commit"}, pc'[r] \in Holding,
           Exists(k) => row.used = keys[k].draft.used \/ NotBefore(row.used, now),
           OldKeyOK(k)', NewKeyOK(k)',
           RequestOK(r)'
    PROVE  IInv'
<1> USE DEF IInv
<1>1. /\ keys'[k].row = keys[k].row /\ keys'[k].draft = row /\ keys'[k].owner = r
      /\ \A t \in Tokens \ {k} : keys'[t] = keys[t]
  BY WriteEffect DEF TypeOK
<1>2. \A t \in Tokens : SlotStep(r, t)
  BY <1>1, RowFacts DEF SlotStep
<1>3. \A s \in Requests : RequestOK(s)'
  BY <1>2, OthersStay
<1>4. ASSUME NEW t \in Tokens, t # k PROVE SlotOK(t)'
  BY <1>1, <1>4, SlotStays
<1>5. SlotOK(k)'
  <2>1. OwnerOK(k)'
    BY <1>1 DEF OwnerOK
  <2>2. RevokedBySomebody(k)'
    BY <1>1 DEF SlotOK, RevokedBySomebody, Revoked, Exists, Frame, Ended
  <2> QED
    BY <2>1, <2>2 DEF SlotOK
<1> QED
  BY <1>3, <1>4, <1>5

(* Its transaction is rolled back.                                          *)
LEMMA FailStep ==
    ASSUME IInv, TypeOK', NEW r \in Requests, Frame(r),
           keys' = RolledBack(keys, r),
           pc[r] \in InFlight, pc'[r] = "rolledBack",
           call'[r] = call[r], when'[r] = Never,
           accepted'[r] = accepted[r], tooLate'[r] = tooLate[r]
    PROVE  IInv'
<1> USE DEF IInv
<1>1. \A t \in Tokens : \/ keys[t].owner = r /\ keys'[t] = Settled(keys[t].row)
                        \/ keys[t].owner # r /\ keys'[t] = keys[t]
  BY DEF RolledBack, TypeOK, Table
<1>2. \A t \in Tokens : SlotStep(r, t) /\ keys'[t].row = keys[t].row
  BY <1>1 DEF SlotStep, Settled
<1>3. pc[r] \notin Ended \cup {"idle"} /\ RequestOK(r) /\ now' = now
  BY DEF InFlight, Ended, Frame
<1>4. RequestOK(r)'
  <2>1. ControlOK(r)'
    BY <1>3 DEF RequestOK, ControlOK, OpsAt
  <2>2. KnownOK(r)' /\ LateOK(r)'
    BY <1>2, <1>3 DEF RequestOK, KnownOK, LateOK, Exists, Revoked
  <2>3. NotedOK(r)' /\ RevokeOK(r)' /\ CreateOK(r)'
    BY DEF NotedOK, RevokeOK, CreateOK, InFlight
  <2> QED
    BY <2>1, <2>2, <2>3 DEF RequestOK
<1>5. \A s \in Requests : RequestOK(s)'
  BY <1>2, <1>4, OthersStay
<1>6. ASSUME NEW t \in Tokens PROVE SlotOK(t)'
  BY <1>1, <1>3, SlotStays, SlotRolledBack
<1> QED
  BY <1>5, <1>6

(* It is committed.                                                         *)
LEMMA CommitStep ==
    ASSUME IInv, TypeOK', NEW r \in Requests, Commit(r)
    PROVE  IInv'
<1> USE DEF IInv
<1>1. \A t \in Tokens : \/ keys[t].owner = r /\ keys'[t] = Settled(keys[t].draft)
                        \/ keys[t].owner # r /\ keys'[t] = keys[t]
  BY DEF Commit, Committed, TypeOK, Table
<1>2. \A t \in Tokens : SlotStep(r, t)
  BY <1>1 DEF SlotStep
<1>3. /\ pc[r] = "commit" /\ pc'[r] = "committed" /\ Frame(r) /\ RequestOK(r)
      /\ now' = now /\ now \in Times
      /\ call'[r] = call[r] /\ when'[r] = when[r] /\ drawn'[r] = drawn[r]
      /\ accepted'[r] = accepted[r] /\ tooLate'[r] = tooLate[r] /\ reply'[r] = reply[r]
  BY DEF Commit, GoTo, Frame, TypeOK
<1>4. ASSUME NEW t \in Tokens
      PROVE  /\ Exists(t) => Exists(t)' /\ keys'[t].row.by = keys[t].row.by
             /\ Revoked(t) => Revoked(t)'
             /\ keys[t].owner = r => keys'[t].row = keys[t].draft
             /\ keys'[t].draft = keys[t].draft
             /\ keys'[t].row \in {keys[t].row, keys[t].draft}
  <2>1. OldKeyOK(t)
    BY DEF SlotOK
  <2>2. /\ keys[t].owner = r => keys'[t] = Settled(keys[t].draft)
        /\ keys[t].owner # r => keys'[t] = keys[t]
    BY <1>1
  <2>3. CASE keys[t].owner = r
    <3>1. keys'[t].row = keys[t].draft /\ keys'[t].draft = keys[t].draft
      BY <2>2, <2>3 DEF Settled
    <3> QED
      BY <3>1, <2>1, <2>2, <2>3 DEF OldKeyOK, Exists, Revoked
  <2>4. CASE keys[t].owner # r
    BY <2>2, <2>4 DEF Exists, Revoked
  <2> QED
    BY <2>3, <2>4
<1>5. RequestOK(r)'
  <2>1. ControlOK(r)'
    BY <1>3 DEF RequestOK, ControlOK, OpsAt
  <2>2. KnownOK(r)' /\ LateOK(r)'
    BY <1>3, <1>4 DEF RequestOK, KnownOK, LateOK
  <2>3. NotedOK(r)'
    <3> SUFFICES ASSUME accepted[r] # Never
                 PROVE  /\ NotBefore(keys'[call[r].auth].draft.used, accepted[r] - Throttle)
                        /\ NotBefore(keys'[call[r].auth].row.used, accepted[r] - Throttle)
      BY <1>3 DEF NotedOK
    <3>1. call[r].auth \in Tokens /\ NotBefore(keys[call[r].auth].draft.used, accepted[r] - Throttle)
      BY <1>3 DEF RequestOK, KnownOK, NotedOK, InFlight
    <3>2. \/ NotBefore(keys[call[r].auth].row.used, accepted[r] - Throttle)
          \/ keys[call[r].auth].owner = r
      BY <1>3 DEF RequestOK, NotedOK, InFlight
    <3> QED
      BY <1>4, <3>1, <3>2
  <2>4. RevokeOK(r)'
    <3>1. call[r].op = "revoke" => call[r].key \in Tokens
      BY <1>3, CallFacts DEF RequestOK, ControlOK
    <3>2. ASSUME NEW t \in Tokens, keys[t].owner = r, Exists(t), keys[t].draft.revoked # Never
          PROVE  Revoked(t)'
      BY <3>2, <1>4 DEF Exists, Revoked
    <3> SUFFICES ASSUME call[r].op = "revoke" PROVE Revoked(call[r].key)'
      BY <1>3 DEF RevokeOK
    <3>3. CASE Revoked(call[r].key)
      BY <3>1, <3>3, <1>3, <1>4 DEF Revoked, Exists
    <3>4. CASE /\ keys[call[r].key].owner = r
               /\ Exists(call[r].key) /\ keys[call[r].key].draft.revoked # Never
      BY <3>1, <3>2, <3>4, <1>3 DEF Revoked, Exists
    <3> QED
      BY <1>3, <3>3, <3>4 DEF RequestOK, RevokeOK
  <2>5. CreateOK(r)'
    <3> SUFFICES ASSUME reply[r] = 201
                 PROVE  drawn[r] \in Tokens /\ Exists(drawn[r])' /\ keys'[drawn[r]].row.by = r
      BY <1>3 DEF CreateOK
    <3>1. /\ drawn[r] \in Tokens /\ keys[drawn[r]].owner = r
          /\ ~ Exists(drawn[r]) /\ keys[drawn[r]].draft # NoRow
      BY <1>3 DEF RequestOK, CreateOK, Exists
    <3>2. keys[drawn[r]].draft.by = r
      BY <3>1 DEF SlotOK, NewKeyOK
    <3> QED
      BY <1>3, <1>4, <3>1, <3>2 DEF Exists
  <2> QED
    BY <2>1, <2>2, <2>3, <2>4, <2>5 DEF RequestOK
<1>6. \A s \in Requests : RequestOK(s)'
  BY <1>2, <1>3, <1>5, OthersStay
<1>7. ASSUME NEW t \in Tokens PROVE SlotOK(t)'
  BY <1>1, <1>3, SlotStays, SlotCommitted DEF Ended
<1> QED
  BY <1>6, <1>7

-----------------------------------------------------------------------------
(* The actions.                                                             *)

LEMMA InitInv == Init => IInv
<1> SUFFICES ASSUME Init PROVE IInv
  OBVIOUS
<1> USE StartAssumption DEF Init
<1>1. TypeOK
  <2>1. \A t \in Tokens : (IF t \in Existing THEN InitialRow[t] ELSE NoRow) \in Row \cup {NoRow}
    OBVIOUS
  <2>2. keys \in Table(Tokens, Row \cup {NoRow}, Requests)
    BY <2>1 DEF Table, Settled
  <2> QED
    BY <2>2, TimesFacts DEF TypeOK
<1>2. ASSUME NEW r \in Requests PROVE RequestOK(r)
  BY DEF RequestOK, ControlOK, KnownOK, NotedOK, LateOK, RevokeOK, CreateOK, OpsAt, InFlight
<1>3. ASSUME NEW t \in Tokens PROVE SlotOK(t)
  <2> DEFINE row == IF t \in Existing THEN InitialRow[t] ELSE NoRow
  <2>1. keys[t].row = row /\ keys[t].draft = row /\ keys[t].owner = NoTxn
    BY DEF Settled
  <2>2. Exists(t) => /\ t \in Existing /\ row = InitialRow[t] /\ row \in Row
                     /\ row.used \in {0, Never} /\ row.by = NoTxn
    BY <2>1 DEF Exists
  <2> HIDE DEF row
  <2>3. row.used \in {0, Never} /\ row.used # Never => row.used <= now /\ NotBefore(row.used, row.used)
    BY DEF NotBefore
  <2>4. OwnerOK(t) /\ NewKeyOK(t)
    BY <2>1, <2>2, <2>3 DEF OwnerOK, NewKeyOK, Exists
  <2>5. OldKeyOK(t)
    BY <2>1, <2>2, <2>3 DEF OldKeyOK, Exists
  <2>6. RevokedBySomebody(t)
    BY <2>1, <2>2 DEF RevokedBySomebody, Revoked
  <2> QED
    BY <2>4, <2>5, <2>6 DEF SlotOK
<1> QED
  BY <1>1, <1>2, <1>3 DEF IInv

(* What is known of a request that has arrived.                             *)
LEMMA CallKnown ==
    ASSUME IInv, NEW r \in Requests, pc[r] # "idle"
    PROVE  /\ call[r] \in Calls
           /\ call[r].op \in Authenticated \cup {"bootstrap"}
           /\ call[r].op \in Authenticated => call[r].auth \in Presented /\ call[r].auth \in Tokens \cup {NoKey}
           /\ call[r].op \in {"revoke", "verify"} => call[r].key \in Tokens
  BY CallFacts DEF IInv, RequestOK, ControlOK

(* A request that fails writes nothing any more and leaves the rest alone.   *)
GivesUp(r) ==
    /\ when' = when \/ when' = [when EXCEPT ![r] = Never]
    /\ when'[r] = Never
    /\ UNCHANGED <<now, call, seen, drawn, attempts, tooLate, accepted>>

LEMMA FailInv ==
    ASSUME IInv, NEW r \in Requests, pc[r] \in InFlight,
           NEW code \in {0, 200, 201, 401, 404, 409, 422, 500}, Fail(r, code), GivesUp(r)
    PROVE  IInv'
<1> USE DEF GivesUp
<1>1. TypeOK'
  <2>1. keys' \in Table(Tokens, Row \cup {NoRow}, Requests)
    BY RolledBackEffect DEF IInv, TypeOK, Fail
  <2> QED
    BY <2>1 DEF IInv, TypeOK, Fail, GoTo, Ended
<1>2. Frame(r) /\ pc'[r] = "rolledBack"
  BY DEF IInv, TypeOK, Fail, GoTo, Frame
<1> QED
  BY <1>1, <1>2, FailStep DEF Fail

LEMMA BeginInv ==
    ASSUME IInv, NEW r \in Requests, NEW c \in Calls, Begin(r, c)
    PROVE  IInv'
<1> USE DEF IInv, Begin
<1>1. c.op \in Authenticated => FirstStatement(c.op) \in {"work", "draw", "revRead", "verRead"}
  BY DEF Authenticated, FirstStatement
<1> DEFINE label == IF c.op = "bootstrap" THEN "bootList"
                    ELSE IF AuthRequired THEN "authRead" ELSE FirstStatement(c.op)
<1>2. label \in {"bootList", "authRead", "work", "draw", "revRead", "verRead"}
  BY <1>1, CallFacts
<1>3. c.op \in OpsAt[label] /\ label \in DOMAIN OpsAt
  BY <1>1, CallFacts DEF OpsAt, Authenticated, FirstStatement
<1> HIDE DEF label
<1>4. pc' = [pc EXCEPT ![r] = label]
  BY DEF GoTo, label
<1>5. TypeOK'
  BY <1>2, <1>4 DEF TypeOK, InFlight, Revocation
<1>6. /\ pc[r] = "idle" /\ pc'[r] = label /\ call'[r] = c /\ Frame(r) /\ RequestOK(r)
      /\ keys' = keys /\ accepted'[r] = Never /\ when'[r] = Never
      /\ tooLate'[r] = "committed" => c.op # "bootstrap" /\ c.auth \in Tokens /\ Revoked(c.auth)
  BY <1>4 DEF TypeOK, Frame, RequestOK, ControlOK, Revocation, Revoked, Exists
<1>7. RequestOK(r)'
  <2>1. ControlOK(r)'
    BY <1>2, <1>3, <1>6 DEF ControlOK
  <2>2. KnownOK(r)' /\ NotedOK(r)'
    BY <1>2, <1>6 DEF KnownOK, NotedOK
  <2>3. LateOK(r)'
    <3>1. tooLate'[r] = "committed" => c.op \in Authenticated
      BY <1>6, CallFacts
    <3> QED
      BY <1>2, <1>6, <3>1 DEF LateOK, Revoked, Exists
  <2>4. RevokeOK(r)' /\ CreateOK(r)'
    BY <1>2, <1>6 DEF RevokeOK, CreateOK
  <2> QED
    BY <2>1, <2>2, <2>3, <2>4 DEF RequestOK
<1> QED
  BY <1>2, <1>5, <1>6, <1>7, MoveStep DEF Ended, Holding, InFlight

LEMMA AuthReadInv ==
    ASSUME IInv, NEW r \in Requests, AuthRead(r)
    PROVE  IInv'
<1> USE DEF IInv, AuthRead, Lookup, GoTo
<1> DEFINE key == call[r].auth
<1>1. pc[r] = "authRead" /\ RequestOK(r) /\ call[r].op \in Authenticated
  BY DEF RequestOK, ControlOK, OpsAt
<1>2. key \in Tokens \cup {NoKey}
  BY <1>1, CallKnown
<1>3. key \in Tokens => keys[key].owner # r
  BY <1>1 DEF SlotOK, OwnerOK, Holding
<1>4. Loaded(r, key) = IF key \in Tokens THEN keys[key].row ELSE NoRow
  BY <1>2, <1>3 DEF Loaded
<1>5. Loaded(r, key) \in Row \cup {NoRow}
  BY <1>4, OwnerFacts
<1>6. TypeOK'
  BY <1>5 DEF TypeOK, InFlight
<1>7. /\ pc'[r] = "authCheck" /\ seen'[r] = Loaded(r, key) /\ Frame(r) /\ keys' = keys
      /\ call'[r] = call[r] /\ when'[r] = when[r] /\ accepted'[r] = accepted[r]
      /\ tooLate'[r] = tooLate[r] /\ now' = now
  BY DEF TypeOK, Frame
<1>8. RequestOK(r)'
  <2>1. ControlOK(r)' /\ accepted'[r] = Never
    BY <1>1, <1>7 DEF RequestOK, ControlOK, OpsAt
  <2>2. KnownOK(r)'
    <3> SUFFICES ASSUME seen'[r] # NoRow
                 PROVE /\ key \in Tokens /\ Exists(key)
                       /\ seen'[r].used # Never => /\ seen'[r].used <= now
                                                  /\ NotBefore(keys[key].row.used, seen'[r].used)
                                                  /\ NotBefore(keys[key].draft.used, seen'[r].used)
      BY <1>7, <2>1 DEF KnownOK, Exists
    <3>1. key \in Tokens /\ Exists(key) /\ seen'[r] = keys[key].row /\ keys[key].row \in Row
      BY <1>4, <1>5, <1>7 DEF Exists
    <3>2. OldKeyOK(key)
      BY <3>1 DEF SlotOK
    <3>3. keys[key].row.used # Never => NotBefore(keys[key].row.used, keys[key].row.used)
      BY <3>1, RowFacts, TimesFacts DEF NotBefore
    <3> QED
      BY <3>1, <3>2, <3>3 DEF OldKeyOK
  <2>3. NotedOK(r)' /\ RevokeOK(r)' /\ CreateOK(r)'
    BY <1>7, <2>1 DEF NotedOK, RevokeOK, CreateOK
  <2>4. LateOK(r)'
    BY <1>1, <1>4, <1>7 DEF RequestOK, LateOK, Revoked, Exists
  <2> QED
    BY <2>1, <2>2, <2>3, <2>4 DEF RequestOK
<1> QED
  BY <1>1, <1>6, <1>7, <1>8, MoveStep DEF Ended, Holding

(* A request that has been let in goes on, without writing.                 *)
LEMMA GoOnStep ==
    ASSUME IInv, TypeOK', NEW r \in Requests, Frame(r), keys' = keys,
           pc[r] \in (Holding \ {"commit"}) \cup {"bootList"}, pc'[r] \in Holding,
           call'[r] = call[r], accepted'[r] = accepted[r], tooLate'[r] = tooLate[r],
           ControlOK(r)',
           pc'[r] = "verCheck" /\ seen'[r] # NoRow => Exists(call[r].key),
           pc'[r] \in {"verTouch", "revUpdate"} => Exists(call[r].key),
           pc'[r] = "commit" => reply'[r] # 201,
           pc'[r] = "commit" /\ call[r].op = "revoke" => Revoked(call[r].key)
    PROVE  IInv'
<1>1. RequestOK(r) /\ now' = now
  BY DEF IInv, Frame
<1>2. KnownOK(r)'
  BY <1>1 DEF RequestOK, KnownOK, Holding, Exists
<1>3. NotedOK(r)'
  BY <1>1 DEF RequestOK, NotedOK, Holding, InFlight
<1>4. LateOK(r)'
  BY <1>1 DEF RequestOK, LateOK, Holding, InFlight, Revoked, Exists
<1>5. RevokeOK(r)' /\ CreateOK(r)'
  BY DEF RevokeOK, CreateOK, Revoked, Exists, Holding, InFlight
<1>6. RequestOK(r)'
  BY <1>2, <1>3, <1>4, <1>5 DEF RequestOK
<1> QED
  BY <1>6, MoveStep DEF Holding, InFlight, Ended

LEMMA VerReadInv ==
    ASSUME IInv, NEW r \in Requests, VerRead(r)
    PROVE  IInv'
<1> USE DEF IInv, VerRead, Lookup, GoTo
<1> DEFINE key == call[r].key
<1>1. pc[r] = "verRead" /\ RequestOK(r) /\ call[r].op = "verify"
  BY DEF RequestOK, ControlOK, OpsAt
<1>2. key \in Tokens
  BY <1>1, CallKnown
<1>3. keys[key].owner = r => Exists(key) /\ keys[key].draft \in Row
  <2>1. SlotOK(key)
    BY <1>2
  <2>2. keys[key].owner = r => keys[key].draft # NoRow /\ Exists(key)
    BY <1>1, <2>1 DEF SlotOK, OwnerOK, NewKeyOK
  <2> QED
    BY <1>2, <2>2, OwnerFacts
<1>4. Loaded(r, key) \in Row \cup {NoRow} /\ (Loaded(r, key) # NoRow => Exists(key))
  <2>1. CASE keys[key].owner = r
    BY <1>2, <1>3, <2>1, WithRevoked DEF Loaded
  <2>2. CASE keys[key].owner # r
    BY <1>2, <2>2, OwnerFacts DEF Loaded, Exists
  <2> QED
    BY <2>1, <2>2
<1>5. TypeOK'
  BY <1>4 DEF TypeOK, InFlight
<1>6. /\ pc'[r] = "verCheck" /\ seen'[r] = Loaded(r, key) /\ Frame(r) /\ keys' = keys
      /\ call'[r] = call[r] /\ when'[r] = when[r] /\ accepted'[r] = accepted[r]
      /\ tooLate'[r] = tooLate[r] /\ now' = now
  BY DEF TypeOK, Frame
<1>7. ControlOK(r)'
  BY <1>1, <1>6 DEF RequestOK, ControlOK, OpsAt
<1> QED
  BY <1>1, <1>4, <1>5, <1>6, <1>7, GoOnStep DEF Holding, InFlight

LEMMA AuthCheckInv ==
    ASSUME IInv, NEW r \in Requests, AuthCheck(r)
    PROVE  IInv'
<1> USE DEF IInv
<1> DEFINE op == call[r].op
           key == call[r].auth
           touch == NeedsTouch(seen[r])
<1>1. /\ pc[r] = "authCheck" /\ RequestOK(r) /\ op \in Authenticated
      /\ when[r] = Never /\ accepted[r] = Never
  BY DEF AuthCheck, RequestOK, ControlOK, OpsAt
<1>2. CASE Valid(seen[r], RequiredScope(op)) /\ accepted' = [accepted EXCEPT ![r] = now]
  <2>1. /\ when' = [when EXCEPT ![r] = IF touch THEN now ELSE Never]
        /\ pc' = [pc EXCEPT ![r] = IF touch THEN "authTouch" ELSE FirstStatement(op)]
        /\ UNCHANGED <<keys, reply, now, call, seen, drawn, attempts, tooLate>>
    BY <1>1, <1>2 DEF AuthCheck, Stay, GoTo, Fail
  <2>2. FirstStatement(op) \in {"work", "draw", "revRead", "verRead"} /\ op \in OpsAt[FirstStatement(op)]
    BY <1>1 DEF FirstStatement, OpsAt, Authenticated
  <2>3. TypeOK'
    BY <1>2, <2>1, <2>2 DEF TypeOK, InFlight
  <2>4. /\ Frame(r) /\ keys' = keys /\ now' = now /\ call'[r] = call[r] /\ tooLate'[r] = tooLate[r]
        /\ accepted'[r] = now /\ now \in Times
        /\ when'[r] = (IF touch THEN now ELSE Never)
        /\ pc'[r] = (IF touch THEN "authTouch" ELSE FirstStatement(op))
    BY <1>2, <2>1 DEF TypeOK, Frame
  <2>5. /\ seen[r] \in Row /\ seen[r].revoked = Never
        /\ key \in Tokens /\ Exists(key)
    BY <1>1, <1>2 DEF TypeOK, Valid, RequestOK, KnownOK
  <2>6. ControlOK(r)'
    <3>1. NotBefore(now, now) /\ now # Never /\ now <= now
      BY <2>4, TimesFacts DEF NotBefore
    <3> QED
      BY <1>1, <2>2, <2>4, <3>1 DEF RequestOK, ControlOK, OpsAt
  <2>7. KnownOK(r)'
    BY <2>2, <2>4, <2>5 DEF KnownOK, Exists
  <2>8. NotedOK(r)'
    <3> SUFFICES ASSUME ~ touch
                 PROVE  /\ NotBefore(keys[key].draft.used, now - Throttle)
                        /\ NotBefore(keys[key].row.used, now - Throttle)
      BY <2>4 DEF NotedOK
    <3>1. /\ seen[r].used # Never /\ seen[r].used \in Times
          /\ now - seen[r].used <= Throttle
      BY <2>4, <2>5, RowFacts, TimesFacts DEF NeedsTouch
    <3>2. /\ NotBefore(keys[key].row.used, seen[r].used)
          /\ NotBefore(keys[key].draft.used, seen[r].used)
      BY <1>1, <2>5, <3>1 DEF RequestOK, KnownOK
    <3>3. keys[key].row.used \in Times \cup {Never} /\ keys[key].draft.used \in Times \cup {Never}
      BY <2>5, OwnerFacts, RowFacts DEF Exists, SlotOK, OldKeyOK
    <3> QED
      BY <2>4, <3>1, <3>2, <3>3, TimesFacts DEF NotBefore
  <2>9. LateOK(r)'
    BY <1>1, <2>4, <2>5 DEF RequestOK, LateOK
  <2>10. RevokeOK(r)' /\ CreateOK(r)'
    BY <2>2, <2>4 DEF RevokeOK, CreateOK
  <2>11. RequestOK(r)'
    BY <2>6, <2>7, <2>8, <2>9, <2>10 DEF RequestOK
  <2> QED
    BY <1>1, <2>3, <2>4, <2>11, MoveStep DEF Holding, Ended
<1>3. CASE Fail(r, 401) /\ UNCHANGED <<accepted, when>>
  BY <1>1, <1>3, FailInv DEF AuthCheck, GivesUp, InFlight
<1> QED
  BY <1>2, <1>3 DEF AuthCheck

LEMMA VerCheckInv ==
    ASSUME IInv, NEW r \in Requests, VerCheck(r)
    PROVE  IInv'
<1> USE DEF IInv, GoTo
<1> DEFINE touch == Valid(seen[r], call[r].scope) /\ NeedsTouch(seen[r])
<1>1. pc[r] = "verCheck" /\ RequestOK(r) /\ call[r].op = "verify" /\ when[r] = Never
  BY DEF VerCheck, RequestOK, ControlOK, OpsAt
<1>2. TypeOK'
  BY DEF TypeOK, VerCheck, Stay, Answer, InFlight
<1>3. /\ Frame(r) /\ keys' = keys /\ now' = now /\ now \in Times /\ call'[r] = call[r]
      /\ tooLate'[r] = tooLate[r] /\ accepted'[r] = accepted[r]
      /\ \/ pc'[r] = "verTouch" /\ when'[r] = now /\ seen[r] # NoRow
         \/ pc'[r] = "commit" /\ when'[r] = Never /\ reply'[r] = 200
  BY <1>1 DEF TypeOK, Frame, VerCheck, Stay, Answer, Valid
<1>4. NotBefore(now, now) /\ now # Never /\ now <= now
  BY <1>3, TimesFacts DEF NotBefore
<1>5. ControlOK(r)'
  BY <1>1, <1>3, <1>4 DEF RequestOK, ControlOK, OpsAt
<1>6. pc'[r] = "verTouch" => Exists(call[r].key)
  BY <1>1, <1>3 DEF RequestOK, KnownOK
<1> QED
  BY <1>1, <1>2, <1>3, <1>5, <1>6, GoOnStep DEF Holding, InFlight

LEMMA WorkInv ==
    ASSUME IInv, NEW r \in Requests, Work(r)
    PROVE  IInv'
<1> USE DEF IInv, Work, Answer, GoTo
<1>1. pc[r] = "work" /\ RequestOK(r) /\ call[r].op = "infer"
  BY DEF RequestOK, ControlOK, OpsAt
<1>2. TypeOK'
  BY DEF TypeOK, InFlight
<1>3. /\ Frame(r) /\ keys' = keys /\ now' = now /\ call'[r] = call[r] /\ when'[r] = when[r]
      /\ tooLate'[r] = tooLate[r] /\ accepted'[r] = accepted[r]
      /\ pc'[r] = "commit" /\ reply'[r] = 200
  BY DEF TypeOK, Frame
<1>4. ControlOK(r)'
  BY <1>1, <1>3 DEF RequestOK, ControlOK, OpsAt
<1> QED
  BY <1>1, <1>2, <1>3, <1>4, GoOnStep DEF Holding, InFlight

(* The note of a use is not older than any other that is in the table.      *)
LEMMA TouchInv ==
    ASSUME IInv, NEW r \in Requests, Touch(r)
    PROVE  IInv'
<1> USE DEF IInv
<1> DEFINE key == call[r].auth
<1>1. /\ pc[r] \in {"authTouch", "verTouch"} /\ RequestOK(r)
      /\ call[r].op \in Authenticated /\ call[r] \in Calls
      /\ pc[r] = "verTouch" => call[r].op = "verify"
      /\ when[r] # Never /\ when[r] <= now /\ NotBefore(when[r], now)
      /\ now \in Times /\ when[r] \in Times
  BY CallKnown DEF Touch, RequestOK, ControlOK, OpsAt, Authenticated, TypeOK
<1>2. PICK k \in Tokens :
         /\ k = Target(r)
         /\ Exists(k) /\ keys[k].owner \in {NoTxn, r}
         /\ pc[r] = "authTouch" => k = key /\ accepted[r] = when[r]
  <2>1. CASE pc[r] = "authTouch"
    <3>1. accepted[r] = when[r] /\ accepted[r] # Never
      BY <1>1, <2>1 DEF RequestOK, ControlOK
    <3> QED
      BY <1>1, <2>1, <3>1 DEF Touch, Blocked, Waiting, Lockable, Target, RequestOK, KnownOK
  <2>2. CASE pc[r] = "verTouch"
    BY <1>1, <2>2, CallKnown DEF Touch, Blocked, Waiting, Lockable, Target, RequestOK, KnownOK
  <2> QED
    BY <1>1, <2>1, <2>2
<1>3. SlotOK(k) /\ keys[k].draft \in Row /\ keys[k].row \in Row
  BY <1>2, OwnerFacts DEF SlotOK, OldKeyOK, Exists
<1>4. PICK row \in Row :
         /\ row = [keys[k].draft EXCEPT !.used = when[r]]
         /\ row.used = when[r] /\ row.revoked = keys[k].draft.revoked
         /\ row.by = keys[k].draft.by /\ row.name = keys[k].draft.name
  <2>1. when[r] \in Times \cup {Never}
    BY <1>1
  <2> QED
    BY <1>3, <2>1, WithUsed
<1>5. /\ keys' = Write(keys, r, k, row) /\ when' = [when EXCEPT ![r] = Never]
      /\ UNCHANGED <<now, call, seen, drawn, attempts, tooLate, accepted>>
  BY <1>2, <1>4 DEF Touch
<1>6. /\ keys' \in Table(Tokens, Row \cup {NoRow}, Requests)
      /\ keys'[k].row = keys[k].row /\ keys'[k].draft = row /\ keys'[k].owner = r
      /\ \A t \in Tokens \ {k} : keys'[t] = keys[t]
  BY <1>2, <1>4, <1>5, WriteEffect DEF TypeOK
<1>7. /\ pc' = [pc EXCEPT ![r] = IF pc[r] = "authTouch" THEN FirstStatement(call[r].op) ELSE "commit"]
      /\ pc[r] = "authTouch" => reply' = reply
      /\ pc[r] = "verTouch" => reply' = [reply EXCEPT ![r] = 200]
  BY <1>1 DEF Touch, Answer, GoTo
<1>8. /\ FirstStatement(call[r].op) \in {"work", "draw", "revRead", "verRead"}
      /\ call[r].op \in OpsAt[FirstStatement(call[r].op)]
  BY <1>1 DEF FirstStatement, OpsAt, Authenticated
<1>9. TypeOK'
  BY <1>1, <1>5, <1>6, <1>7, <1>8 DEF TypeOK, InFlight
<1>10. /\ Frame(r) /\ now' = now /\ call'[r] = call[r] /\ when'[r] = Never /\ seen'[r] = seen[r]
       /\ accepted'[r] = accepted[r] /\ tooLate'[r] = tooLate[r]
       /\ pc'[r] = IF pc[r] = "authTouch" THEN FirstStatement(call[r].op) ELSE "commit"
       /\ pc[r] = "verTouch" => reply'[r] = 200
  BY <1>1, <1>5, <1>7 DEF TypeOK, Frame
<1>11. pc'[r] \in {"work", "draw", "revRead", "verRead"} \/ (pc'[r] = "commit" /\ pc[r] = "verTouch")
  BY <1>1, <1>8, <1>10
<1>12. OldKeyOK(k)'
  <2>1. keys[k].row.used # Never => NotBefore(row.used, keys[k].row.used)
    <3> HAVE keys[k].row.used # Never
    <3>1. keys[k].row.used <= now /\ keys[k].row.used \in Times
      BY <1>2, <1>3, RowFacts DEF SlotOK, OldKeyOK
    <3> QED
      BY <1>1, <1>4, <3>1, TimesFacts DEF NotBefore
  <2>2. ~ (keys[k].row.revoked = Never /\ keys[k].draft.revoked # Never)
    BY <1>1, <1>2, <1>3 DEF SlotOK, OwnerOK, OldKeyOK
  <2>3. keys[k].row.by \in Requests => keys[k].row.by # r
    BY <1>1, <1>2, <1>3 DEF SlotOK, OldKeyOK
  <2>4. keys[k].row.by \in Requests =>
           /\ pc'[keys[k].row.by] = "committed" /\ reply'[keys[k].row.by] = 201
           /\ drawn'[keys[k].row.by] = k
    BY <1>2, <1>3, <1>10, <2>3 DEF SlotOK, OldKeyOK, Frame
  <2>5. row # NoRow /\ now' = now
    BY <1>10, RowFacts
  <2>6. OldKeyOK(k)
    BY <1>3 DEF SlotOK
  <2> QED
    BY <1>2, <1>4, <1>6, <2>1, <2>2, <2>4, <2>5, <2>6 DEF OldKeyOK, Exists
<1>13. NewKeyOK(k)'
  BY <1>1, <1>2, <1>4, <1>6, <1>10 DEF NewKeyOK, Exists
<1>14. RequestOK(r)'
  <2>1. ControlOK(r)'
    BY <1>1, <1>8, <1>10, <1>11 DEF RequestOK, ControlOK, OpsAt
  <2>2. \A t \in Tokens : keys'[t].row = keys[t].row
    BY <1>6
  <2>3. accepted[r] # Never => key \in Tokens /\ Exists(key)
    BY <1>1 DEF RequestOK, KnownOK
  <2>4. KnownOK(r)'
    BY <1>10, <1>11, <2>2, <2>3 DEF KnownOK, Exists
  <2>5. NotedOK(r)'
    <3> SUFFICES ASSUME accepted[r] # Never
                 PROVE  /\ NotBefore(keys'[key].draft.used, accepted[r] - Throttle)
                        /\ \/ NotBefore(keys'[key].row.used, accepted[r] - Throttle)
                           \/ keys'[key].owner = r
      BY <1>10, <1>11 DEF NotedOK
    <3>1. accepted[r] <= now /\ accepted[r] \in Times
      BY <1>1 DEF RequestOK, ControlOK, TypeOK
    <3>2. CASE k = key
      <4>1. NotBefore(when[r], accepted[r] - Throttle)
        BY <1>1, <3>1, TimesFacts DEF NotBefore
      <4> QED
        BY <1>4, <1>6, <3>2, <4>1
    <3>3. CASE k # key
      BY <1>1, <1>2, <1>6, <2>3, <3>3 DEF RequestOK, NotedOK, InFlight
    <3> QED
      BY <3>2, <3>3
  <2>6. LateOK(r)'
    BY <1>1, <1>10, <1>11, <2>2 DEF RequestOK, LateOK, Revoked, Exists
  <2>7. RevokeOK(r)' /\ CreateOK(r)'
    BY <1>1, <1>10, <1>11 DEF RevokeOK, CreateOK
  <2> QED
    BY <2>1, <2>4, <2>5, <2>6, <2>7 DEF RequestOK
<1>15. row.used = keys[k].draft.used \/ NotBefore(row.used, now)
  BY <1>1, <1>4
<1>16. pc[r] \notin Ended \cup {"commit"} /\ pc'[r] \in Holding
  BY <1>1, <1>11 DEF Holding, InFlight, Ended
<1> QED
  BY <1>2, <1>4, <1>5, <1>9, <1>10, <1>12, <1>13, <1>14, <1>15, <1>16, WriteStep

LEMMA DrawInv ==
    ASSUME IInv, NEW r \in Requests, Draw(r)
    PROVE  IInv'
<1> USE DEF IInv
<1>1. /\ pc[r] = "draw" /\ RequestOK(r) /\ call[r].op \in {"create", "bootstrap"}
      /\ when[r] = Never /\ pc[r] \in InFlight
  BY DEF Draw, RequestOK, ControlOK, OpsAt, InFlight
<1>2. CASE /\ attempts[r] < MaxAttempts
           /\ attempts' = [attempts EXCEPT ![r] = @ + 1]
           /\ \E t \in Tokens :
                 /\ drawn' = [drawn EXCEPT ![r] = t]
                 /\ GoTo(r, IF Visible(keys, r, t) = NoRow THEN "prefix" ELSE "draw")
           /\ Stay
  <2>1. PICK t \in Tokens : /\ drawn' = [drawn EXCEPT ![r] = t]
                            /\ GoTo(r, IF Visible(keys, r, t) = NoRow THEN "prefix" ELSE "draw")
    BY <1>2
  <2>2. UNCHANGED <<keys, reply, now, call, seen, when, tooLate, accepted>>
    BY <1>2 DEF Draw, Stay
  <2>3. TypeOK'
    BY <1>1, <1>2, <2>1, <2>2 DEF TypeOK, GoTo, InFlight
  <2>4. /\ Frame(r) /\ keys' = keys /\ now' = now /\ call'[r] = call[r] /\ when'[r] = when[r]
        /\ tooLate'[r] = tooLate[r] /\ accepted'[r] = accepted[r]
        /\ drawn'[r] \in Tokens /\ pc'[r] \in {"prefix", "draw"}
    BY <2>1, <2>2 DEF TypeOK, Frame, GoTo
  <2>5. ControlOK(r)'
    BY <1>1, <2>4 DEF RequestOK, ControlOK, OpsAt
  <2> QED
    BY <1>1, <2>3, <2>4, <2>5, GoOnStep DEF Holding, InFlight
<1>3. CASE Fail(r, 422) /\ UNCHANGED <<drawn, attempts>>
  BY <1>1, <1>3, FailInv DEF Draw, GivesUp
<1>4. CASE Fail(r, 409) /\ UNCHANGED <<drawn, attempts>>
  BY <1>1, <1>4, FailInv DEF Draw, GivesUp
<1> QED
  BY <1>2, <1>3, <1>4 DEF Draw

LEMMA PrefixTakenInv ==
    ASSUME IInv, NEW r \in Requests, PrefixTaken(r)
    PROVE  IInv'
<1> USE DEF IInv
<1>1. /\ pc[r] = "prefix" /\ RequestOK(r) /\ call[r].op \in {"create", "bootstrap"}
      /\ when[r] = Never
  BY DEF PrefixTaken, RequestOK, ControlOK, OpsAt
<1>2. \E label \in {"draw", "insert"} : pc' = [pc EXCEPT ![r] = label]
  BY DEF PrefixTaken, GoTo
<1>3. UNCHANGED <<keys, now, call, seen, when, drawn, attempts, tooLate, accepted, reply>>
  BY DEF PrefixTaken
<1>4. TypeOK'
  BY <1>2, <1>3 DEF TypeOK, InFlight
<1>5. Frame(r) /\ pc'[r] \in {"draw", "insert"}
  BY <1>2, <1>3 DEF TypeOK, Frame
<1>6. ControlOK(r)'
  BY <1>1, <1>3, <1>5 DEF RequestOK, ControlOK, OpsAt
<1> QED
  BY <1>1, <1>3, <1>4, <1>5, <1>6, GoOnStep DEF Holding, InFlight

LEMMA NewRowFacts ==
    ASSUME IInv, NEW r \in Requests, pc[r] = "insert"
    PROVE  /\ NewRow(r) \in Row
           /\ NewRow(r).used = Never /\ NewRow(r).revoked = Never /\ NewRow(r).by = r
<1>1. call[r] \in Calls /\ call[r].op \in {"create", "bootstrap"}
  BY CallKnown DEF IInv, RequestOK, ControlOK, OpsAt
<1>2. call[r].op = "create" => /\ call[r].scopes \in SUBSET Scopes
                               /\ call[r].expires \in Nat \cup {Never}
  BY <1>1, CallFacts
<1>3. call[r].op = "create" => call[r].name \in NameKinds
  BY <1>1, NameAssumption DEF Calls
<1> QED
  BY <1>1, <1>2, <1>3 DEF NewRow, Row, NameKinds

LEMMA InsertInv ==
    ASSUME IInv, NEW r \in Requests, Insert(r)
    PROVE  IInv'
<1> USE DEF IInv
<1>1. /\ pc[r] = "insert" /\ RequestOK(r) /\ call[r].op \in {"create", "bootstrap"}
      /\ when[r] = Never /\ pc[r] \in InFlight /\ call[r] \in Calls
  BY CallKnown DEF Insert, RequestOK, ControlOK, OpsAt, InFlight
<1>2. CASE Fail(r, 409)
  BY <1>1, <1>2, FailInv DEF Insert, GivesUp
<1>3. CASE /\ Visible(keys, r, drawn[r]) = NoRow
           /\ keys' = Write(keys, r, drawn[r], NewRow(r))
           /\ Answer(r, 201)
  <2>1. PICK k \in Tokens : k = drawn[r]
    BY <1>1 DEF RequestOK, ControlOK
  <2>2. PICK row \in Row : /\ row = NewRow(r)
                           /\ row.used = Never /\ row.revoked = Never /\ row.by = r
    BY <1>1, NewRowFacts
  <2>3. keys[k].owner \in {NoTxn, r}
    BY <1>1, <2>1 DEF Insert, Blocked, Waiting, Lockable, Target
  <2>4. keys[k].owner = NoTxn /\ ~ Exists(k) /\ keys[k].draft = NoRow
    BY <1>3, <2>1, <2>3 DEF Visible, SlotOK, OwnerOK, Exists
  <2>5. /\ keys' = Write(keys, r, k, row)
        /\ pc' = [pc EXCEPT ![r] = "commit"] /\ reply' = [reply EXCEPT ![r] = 201]
        /\ UNCHANGED <<now, call, seen, when, drawn, attempts, tooLate, accepted>>
    BY <1>3, <2>1, <2>2 DEF Insert, Answer, GoTo
  <2>6. /\ keys' \in Table(Tokens, Row \cup {NoRow}, Requests)
        /\ keys'[k].row = keys[k].row /\ keys'[k].draft = row /\ keys'[k].owner = r
        /\ \A t \in Tokens \ {k} : keys'[t] = keys[t]
    BY <2>2, <2>5, WriteEffect DEF TypeOK
  <2>7. TypeOK'
    BY <2>5, <2>6 DEF TypeOK, InFlight
  <2>8. /\ Frame(r) /\ pc'[r] = "commit" /\ reply'[r] = 201 /\ now' = now
        /\ drawn'[r] = k /\ call'[r] = call[r]
    BY <2>1, <2>5 DEF TypeOK, Frame
  <2>9. OldKeyOK(k)' /\ NewKeyOK(k)'
    BY <2>2, <2>4, <2>6, <2>8 DEF OldKeyOK, NewKeyOK, Exists
  <2>10. RequestOK(r)'
    <3>1. ControlOK(r)'
      BY <1>1, <2>5, <2>8 DEF RequestOK, ControlOK, OpsAt
    <3>2. accepted[r] # Never => /\ call[r].auth \in Tokens /\ Exists(call[r].auth)
                                 /\ keys'[call[r].auth] = keys[call[r].auth]
      BY <1>1, <2>4, <2>6 DEF RequestOK, KnownOK
    <3>3. KnownOK(r)' /\ NotedOK(r)'
      BY <1>1, <2>5, <2>8, <3>2 DEF RequestOK, KnownOK, NotedOK, Exists, InFlight
    <3>4. LateOK(r)'
      BY <1>1, <2>5, <2>8, <2>4, <2>6 DEF RequestOK, LateOK, Revoked, Exists
    <3>5. RevokeOK(r)' /\ CreateOK(r)'
      BY <1>1, <2>2, <2>4, <2>6, <2>8 DEF RevokeOK, CreateOK, Exists
    <3> QED
      BY <3>1, <3>3, <3>4, <3>5 DEF RequestOK
  <2>11. pc[r] \notin Ended \cup {"commit"} /\ pc'[r] \in Holding
    BY <1>1, <2>8 DEF Ended, Holding, InFlight
  <2> QED
    BY <2>3, <2>4, <2>5, <2>7, <2>8, <2>9, <2>10, <2>11, WriteStep
<1> QED
  BY <1>2, <1>3 DEF Insert

LEMMA BootstrapListInv ==
    ASSUME IInv, NEW r \in Requests, BootstrapList(r)
    PROVE  IInv'
<1> USE DEF IInv
<1>1. /\ pc[r] = "bootList" /\ RequestOK(r) /\ call[r].op = "bootstrap" /\ when[r] = Never
  BY DEF BootstrapList, RequestOK, ControlOK, OpsAt
<1>2. /\ keys' = keys
      /\ UNCHANGED <<now, call, seen, when, drawn, attempts, tooLate, accepted>>
      /\ \/ pc' = [pc EXCEPT ![r] = "commit"] /\ reply' = [reply EXCEPT ![r] = 200]
         \/ pc' = [pc EXCEPT ![r] = "draw"] /\ reply' = reply
  BY DEF BootstrapList, Answer, GoTo, Stay
<1>3. TypeOK'
  BY <1>2 DEF TypeOK, InFlight
<1>4. /\ Frame(r)
      /\ \/ pc'[r] = "commit" /\ reply'[r] = 200
         \/ pc'[r] = "draw"
  BY <1>2 DEF TypeOK, Frame
<1>5. ControlOK(r)'
  BY <1>1, <1>2, <1>4 DEF RequestOK, ControlOK, OpsAt
<1> QED
  BY <1>1, <1>2, <1>3, <1>4, <1>5, GoOnStep DEF Holding, InFlight

LEMMA RevokeReadInv ==
    ASSUME IInv, NEW r \in Requests, RevokeRead(r)
    PROVE  IInv'
<1> USE DEF IInv
<1> DEFINE key == call[r].key
           row == Loaded(r, key)
<1>1. /\ pc[r] = "revRead" /\ RequestOK(r) /\ call[r].op = "revoke" /\ when[r] = Never
      /\ pc[r] \in InFlight
  BY DEF RevokeRead, RequestOK, ControlOK, OpsAt, InFlight
<1>2. key \in Tokens
  BY <1>1, CallKnown
<1>3. (row # NoRow => Exists(key)) /\ (row # NoRow /\ row.revoked # Never => Revoked(key))
  <2>1. CASE keys[key].owner = r
    <3>1. SlotOK(key)
      BY <1>2
    <3>2. Exists(key) /\ keys[key].draft \in Row
      BY <1>1, <1>2, <2>1, <3>1, OwnerFacts DEF SlotOK, OwnerOK, NewKeyOK
    <3>3. row = [keys[key].draft EXCEPT !.revoked = Never]
      BY <1>2, <2>1 DEF Loaded
    <3>4. row.revoked = Never
      BY <3>2, <3>3, WithRevoked
    <3> QED
      BY <3>2, <3>4
  <2>2. CASE keys[key].owner # r
    BY <1>2, <2>2 DEF Loaded, Exists, Revoked
  <2> QED
    BY <2>1, <2>2
<1> HIDE DEF row
<1>4. CASE Fail(r, 404) /\ UNCHANGED when
  BY <1>1, <1>4, FailInv DEF RevokeRead, GivesUp
<1>5. CASE /\ row # NoRow
           /\ \/ row.revoked # Never /\ Answer(r, 200) /\ UNCHANGED <<keys, when>>
              \/ /\ when' = [when EXCEPT ![r] = now]
                 /\ GoTo(r, "revUpdate") /\ Stay
  <2>1. UNCHANGED <<keys, now, call, seen, drawn, attempts, tooLate, accepted>>
    BY <1>5 DEF RevokeRead, Stay
  <2>2. TypeOK'
    BY <1>5, <2>1 DEF TypeOK, Answer, GoTo, Stay, InFlight
  <2>3. /\ Frame(r) /\ now \in Times
        /\ \/ pc'[r] = "commit" /\ when'[r] = Never /\ reply'[r] = 200 /\ Revoked(key)
           \/ pc'[r] = "revUpdate" /\ when'[r] = now /\ Exists(key)
    BY <1>1, <1>3, <1>5, <2>1 DEF TypeOK, Frame, Answer, GoTo, Stay
  <2>4. NotBefore(now, now) /\ now # Never /\ now <= now
    BY <2>3, TimesFacts DEF NotBefore
  <2>5. ControlOK(r)'
    BY <1>1, <2>1, <2>3, <2>4 DEF RequestOK, ControlOK, OpsAt
  <2> QED
    BY <1>1, <2>1, <2>2, <2>3, <2>5, GoOnStep DEF Holding, InFlight
<1> QED
  BY <1>4, <1>5 DEF RevokeRead, row

(* A revocation is written by the request that answers it.                  *)
LEMMA RevokeUpdateInv ==
    ASSUME IInv, NEW r \in Requests, RevokeUpdate(r)
    PROVE  IInv'
<1> USE DEF IInv
<1>1. /\ pc[r] = "revUpdate" /\ RequestOK(r) /\ call[r].op = "revoke" /\ pc[r] \in InFlight
      /\ when[r] # Never /\ when[r] \in Times
  BY DEF RevokeUpdate, RequestOK, ControlOK, OpsAt, InFlight, TypeOK
<1>2. PICK k \in Tokens : k = call[r].key
  BY <1>1, CallKnown
<1>3. /\ Exists(k) /\ keys[k].owner \in {NoTxn, r} /\ SlotOK(k)
      /\ keys[k].draft \in Row /\ keys[k].row \in Row
  <2>1. Exists(k) /\ keys[k].owner \in {NoTxn, r} /\ SlotOK(k)
    BY <1>1, <1>2 DEF RevokeUpdate, Blocked, Waiting, Lockable, Target, RequestOK, KnownOK
  <2> QED
    BY <2>1, OwnerFacts DEF SlotOK, OldKeyOK, Exists
<1>4. /\ when' = [when EXCEPT ![r] = Never]
      /\ UNCHANGED <<now, call, seen, drawn, attempts, tooLate, accepted>>
  BY DEF RevokeUpdate
<1>5. CASE Fail(r, 409)
  <2>1. when'[r] = Never
    BY <1>4 DEF TypeOK
  <2>2. GivesUp(r)
    BY <1>4, <2>1 DEF GivesUp
  <2> HIDE DEF IInv
  <2> QED
    BY <1>1, <1>5, <2>2, FailInv
<1>6. CASE /\ keys[k].draft.revoked = Never
           /\ keys' = Write(keys, r, k, [keys[k].draft EXCEPT !.revoked = when[r]])
           /\ Answer(r, 200)
  <2>1. PICK row \in Row :
           /\ row = [keys[k].draft EXCEPT !.revoked = when[r]]
           /\ row.revoked = when[r] /\ row.used = keys[k].draft.used
           /\ row.by = keys[k].draft.by /\ row.name = keys[k].draft.name
    BY <1>1, <1>3, WithRevoked
  <2>2. keys' = Write(keys, r, k, row)
    BY <1>6, <2>1
  <2>3. /\ keys' \in Table(Tokens, Row \cup {NoRow}, Requests)
        /\ keys'[k].row = keys[k].row /\ keys'[k].draft = row /\ keys'[k].owner = r
        /\ \A t \in Tokens \ {k} : keys'[t] = keys[t]
    BY <2>2, WriteEffect DEF TypeOK
  <2>4. TypeOK'
    BY <1>4, <1>6, <2>3 DEF TypeOK, Answer, GoTo, InFlight
  <2>5. /\ Frame(r) /\ now' = now /\ call'[r] = call[r] /\ when'[r] = Never
        /\ accepted'[r] = accepted[r] /\ tooLate'[r] = tooLate[r]
        /\ pc'[r] = "commit" /\ reply'[r] = 200
    BY <1>4, <1>6 DEF TypeOK, Frame, Answer, GoTo
  <2>6. row # NoRow
    BY RowFacts
  <2>7. OldKeyOK(k)'
    <3>1. OldKeyOK(k) /\ keys[k].row.revoked = Never
      BY <1>3, <1>6, TimesFacts DEF SlotOK, OldKeyOK
    <3>2. keys[k].row.by \in Requests =>
             /\ pc'[keys[k].row.by] = "committed" /\ reply'[keys[k].row.by] = 201
             /\ drawn'[keys[k].row.by] = k
      BY <1>1, <1>3, <2>5, <3>1 DEF OldKeyOK, Frame
    <3>3. pc'[r] = "commit" /\ call'[r].op = "revoke" /\ call'[r].key = k
      BY <1>1, <1>2, <2>5
    <3> QED
      BY <1>3, <2>1, <2>3, <2>5, <2>6, <3>1, <3>2, <3>3 DEF OldKeyOK, Exists
  <2>8. NewKeyOK(k)'
    BY <1>3, <2>1, <2>3, <2>5 DEF SlotOK, NewKeyOK, Exists
  <2>9. RequestOK(r)'
    <3>1. ControlOK(r)'
      BY <1>1, <2>5 DEF RequestOK, ControlOK, OpsAt
    <3>2. \A t \in Tokens : keys'[t].row = keys[t].row /\ (t # k => keys'[t] = keys[t])
      BY <2>3
    <3>3. KnownOK(r)' /\ LateOK(r)'
      BY <1>1, <2>5, <3>2 DEF RequestOK, KnownOK, LateOK, Exists, Revoked
    <3>4. NotedOK(r)'
      <4> SUFFICES ASSUME accepted[r] # Never
                   PROVE  /\ NotBefore(keys'[call[r].auth].draft.used, accepted[r] - Throttle)
                          /\ \/ NotBefore(keys'[call[r].auth].row.used, accepted[r] - Throttle)
                             \/ keys'[call[r].auth].owner = r
        BY <2>5 DEF NotedOK
      <4>1. /\ call[r].auth \in Tokens
            /\ NotBefore(keys[call[r].auth].draft.used, accepted[r] - Throttle)
            /\ \/ NotBefore(keys[call[r].auth].row.used, accepted[r] - Throttle)
               \/ keys[call[r].auth].owner = r
        BY <1>1 DEF RequestOK, KnownOK, NotedOK
      <4> QED
        BY <2>1, <2>3, <3>2, <4>1
    <3>5. RevokeOK(r)'
      <4>1. call'[r].key = k /\ keys'[k].draft.revoked # Never
        BY <1>1, <1>2, <2>1, <2>3, <2>5
      <4> QED
        BY <1>3, <2>3, <2>5, <4>1 DEF RevokeOK, Exists
    <3>6. CreateOK(r)'
      BY <2>5 DEF CreateOK
    <3> QED
      BY <3>1, <3>3, <3>4, <3>5, <3>6 DEF RequestOK
  <2>10. pc[r] \notin Ended \cup {"commit"} /\ pc'[r] \in Holding
    BY <1>1, <2>5 DEF Ended, Holding, InFlight
  <2> QED
    BY <1>3, <2>1, <2>2, <2>4, <2>5, <2>7, <2>8, <2>9, <2>10, WriteStep
<1> QED
  BY <1>2, <1>5, <1>6 DEF RevokeUpdate

LEMMA CommitInv ==
    ASSUME IInv, NEW r \in Requests, Commit(r)
    PROVE  IInv'
<1>1. keys' \in Table(Tokens, Row \cup {NoRow}, Requests)
  BY CommittedEffect DEF IInv, TypeOK, Commit
<1>2. TypeOK'
  BY <1>1 DEF IInv, TypeOK, Commit, GoTo, Ended
<1> QED
  BY <1>2, CommitStep

LEMMA LockWaitAbortedInv ==
    ASSUME IInv, NEW r \in Requests, LockWaitAborted(r)
    PROVE  IInv'
<1>1. pc[r] \in InFlight
  BY DEF LockWaitAborted, Blocked, Waiting, InFlight
<1>2. when'[r] = Never
  BY DEF LockWaitAborted, IInv, TypeOK
<1>3. Fail(r, 500) /\ GivesUp(r)
  BY <1>2 DEF LockWaitAborted, GivesUp
<1> QED
  BY <1>1, <1>3, FailInv

LEMMA AbortedInv ==
    ASSUME IInv, NEW r \in Requests, Aborted(r)
    PROVE  IInv'
<1> DEFINE code == IF pc[r] = "commit" THEN reply[r] ELSE 500
<1>1. /\ pc[r] \in InFlight
      /\ keys' = RolledBack(keys, r) /\ pc' = [pc EXCEPT ![r] = "rolledBack"]
      /\ reply' = [reply EXCEPT ![r] = code] /\ when' = [when EXCEPT ![r] = Never]
      /\ UNCHANGED <<now, call, seen, drawn, attempts, tooLate, accepted>>
  BY DEF Aborted, Fail, GoTo
<1>2. keys' \in Table(Tokens, Row \cup {NoRow}, Requests)
  BY <1>1, RolledBackEffect DEF IInv, TypeOK
<1>3. TypeOK'
  BY <1>1, <1>2 DEF IInv, TypeOK, Ended
<1>4. Frame(r) /\ pc'[r] = "rolledBack" /\ when'[r] = Never
  BY <1>1 DEF IInv, TypeOK, Frame
<1> QED
  BY <1>1, <1>3, <1>4, FailStep

(* The clock moves on only while nobody has waited too long.                *)
LEMMA TickInv ==
    ASSUME IInv, Tick
    PROVE  IInv'
<1> USE DEF IInv
<1>1. /\ now' = now + 1 /\ now \in Times /\ now' \in Times
      /\ UNCHANGED <<keys, pc, call, seen, when, drawn, attempts, tooLate, accepted, reply>>
  BY DEF Tick, TypeOK, Times
<1>2. TypeOK'
  BY <1>1 DEF TypeOK
<1>3. ASSUME NEW i \in Times, i <= now PROVE i <= now'
  BY <1>1, <1>3, TimesFacts
<1>4. ASSUME NEW r \in Requests PROVE RequestOK(r)'
  <2>1. RequestOK(r)
    OBVIOUS
  <2>2. ControlOK(r)'
    <3>1. when[r] # Never => when[r] <= now' /\ NotBefore(when[r], now')
      <4> HAVE when[r] # Never
      <4>1. when[r] \in Times /\ when[r] <= now /\ now - when[r] < MaxWait
        BY <2>1, <1>4 DEF RequestOK, ControlOK, TypeOK, Tick
      <4>2. /\ now \in Int /\ when[r] \in Int /\ MaxWait \in Int /\ now' = now + 1
        BY <1>1, <4>1 DEF Times
      <4>3. when[r] <= now' /\ when[r] >= now' - MaxWait
        BY <4>1, <4>2
      <4>4. when[r] # Never
        BY <4>2
      <4> QED
        BY <4>3, <4>4 DEF NotBefore
    <3>2. accepted[r] # Never => accepted[r] <= now'
      BY <2>1, <1>3, <1>4 DEF RequestOK, ControlOK, TypeOK
    <3> QED
      BY <1>1, <2>1, <3>1, <3>2 DEF RequestOK, ControlOK
  <2>3. KnownOK(r)'
    <3>1. seen[r] # NoRow /\ seen[r].used # Never /\ seen[r].used <= now => seen[r].used <= now'
      <4>1. seen[r] # NoRow => seen[r].used \in Times \cup {Never}
        BY <1>4, RowFacts DEF TypeOK
      <4> QED
        BY <4>1, <1>3
    <3> QED
      BY <1>1, <2>1, <3>1 DEF RequestOK, KnownOK, Exists
  <2>4. NotedOK(r)' /\ LateOK(r)' /\ RevokeOK(r)' /\ CreateOK(r)'
    BY <1>1, <2>1 DEF RequestOK, NotedOK, LateOK, RevokeOK, CreateOK, Exists, Revoked
  <2> QED
    BY <2>2, <2>3, <2>4 DEF RequestOK
<1>5. ASSUME NEW t \in Tokens PROVE SlotOK(t)'
  <2>1. SlotOK(t)
    OBVIOUS
  <2>2. /\ Exists(t) => keys[t].row.used \in Times \cup {Never}
        /\ keys[t].draft # NoRow => keys[t].draft.used \in Times \cup {Never}
    BY OwnerFacts, RowFacts, <1>5 DEF Exists
  <2>3. OldKeyOK(t)'
    BY <1>1, <1>3, <2>1, <2>2 DEF SlotOK, OldKeyOK, Exists
  <2>4. NewKeyOK(t)'
    BY <1>1, <1>3, <2>1, <2>2 DEF SlotOK, NewKeyOK, Exists
  <2>5. OwnerOK(t)' /\ RevokedBySomebody(t)'
    BY <1>1, <2>1 DEF SlotOK, OwnerOK, RevokedBySomebody, Revoked, Exists
  <2> QED
    BY <2>3, <2>4, <2>5 DEF SlotOK
<1> QED
  BY <1>2, <1>4, <1>5

LEMMA NextInv ==
    ASSUME IInv, [Next]_vars
    PROVE  IInv'
<1>1. CASE UNCHANGED vars
  <2>1. UNCHANGED <<keys, now, pc, call, seen, when, drawn, attempts, tooLate, accepted, reply>>
    BY <1>1 DEF vars
  <2>2. TypeOK'
    BY <2>1 DEF IInv, TypeOK
  <2>3. ASSUME NEW r \in Requests PROVE RequestOK(r)'
    BY <2>1 DEF IInv, RequestOK, ControlOK, KnownOK, NotedOK, LateOK, RevokeOK, CreateOK,
                Exists, Revoked
  <2>4. ASSUME NEW t \in Tokens PROVE SlotOK(t)'
    BY <2>1 DEF IInv, SlotOK, OwnerOK, OldKeyOK, NewKeyOK, RevokedBySomebody, Revoked, Exists
  <2> QED
    BY <2>2, <2>3, <2>4 DEF IInv
<1>2. ASSUME NEW r \in Requests, Arrive(r) PROVE IInv'
  BY <1>2, BeginInv DEF Arrive
<1>3. ASSUME NEW r \in Requests, Step(r) PROVE IInv'
  BY <1>3, AuthReadInv, AuthCheckInv, VerReadInv, VerCheckInv, TouchInv, WorkInv, DrawInv,
     PrefixTakenInv, InsertInv, BootstrapListInv, RevokeReadInv, RevokeUpdateInv, CommitInv,
     LockWaitAbortedInv DEF Step
<1>4. ASSUME NEW r \in Requests, Aborted(r) PROVE IInv'
  BY <1>4, AbortedInv
<1>5. CASE Tick
  BY <1>5, TickInv
<1> QED
  BY <1>1, <1>2, <1>3, <1>4, <1>5 DEF Next, Done

LEMMA SpecInv == Spec => []IInv
<1> QED
  BY InitInv, NextInv, PTL DEF Spec

-----------------------------------------------------------------------------
(* What the invariant says of keys and requests. *)

(* Every state is well formed: the statuses, instants and rows that the     *)
(* requests of api_key_service.py work with are of their types.             *)
THEOREM TypeCorrect == Spec => []TypeOK
<1>1. IInv => TypeOK
  BY DEF IInv
<1> QED
  BY <1>1, SpecInv, PTL

(* A request that comes after the revocation of its key has committed is    *)
(* never let in, however verify and other requests interleave.              *)
THEOREM LateIsRefused == Spec => []RevokedKeyRefused
<1>1. IInv => RevokedKeyRefused
  BY DEF IInv, RequestOK, LateOK, RevokedKeyRefused
<1> QED
  BY <1>1, SpecInv, PTL

(* Once a revocation has been answered and committed, its key is revoked,   *)
(* whoever else revoked it or noted a use of it (ApiKeyService.revoke).     *)
THEOREM AnsweredIsRevoked == Spec => []RevokeEffective
<1>1. IInv => RevokeEffective
  BY DEF IInv, RequestOK, RevokeOK, RevokeEffective, Revoked, Exists
<1> QED
  BY <1>1, SpecInv, PTL

(* A key is revoked only by a request that has succeeded                    *)
(* (Database.transaction rolls back the others).                            *)
THEOREM RevokedOnlyOnPurpose == Spec => []RevokedOnPurpose
<1>1. IInv => RevokedOnPurpose
  BY DEF IInv, SlotOK, RevokedBySomebody, RevokedOnPurpose, Revoked, Exists
<1> QED
  BY <1>1, SpecInv, PTL

(* The last use in the table lags behind a request that was let in by no    *)
(* more than the throttle and one wait for the row (touch_last_used).       *)
THEOREM LastUseKnown == Spec => []LastUsedLag
<1>1. ASSUME IInv, NEW r \in Requests, pc[r] = "committed", accepted[r] # Never
      PROVE  /\ keys[call[r].auth].row.used # Never
             /\ keys[call[r].auth].row.used >= accepted[r] - Throttle - MaxWait
  BY <1>1 DEF IInv, RequestOK, NotedOK, NotBefore
<1>2. IInv => LastUsedLag
  BY <1>1 DEF LastUsedLag
<1> QED
  BY <1>2, SpecInv, PTL

(* A creation that succeeds makes one key, and one that does not none,      *)
(* whatever tokens the others draw (ApiKeyService.create).                  *)
THEOREM OneKeyPerCreation == Spec => []OneKeyEach
<1>1. ASSUME IInv, NEW r \in Requests
      PROVE  Cardinality({t \in Tokens : keys[t].row # NoRow /\ keys[t].row.by = r})
                = IF pc[r] = "committed" /\ reply[r] = 201 THEN 1 ELSE 0
  <2> DEFINE made == {t \in Tokens : keys[t].row # NoRow /\ keys[t].row.by = r}
  <2>1. \A t \in made : pc[r] = "committed" /\ reply[r] = 201 /\ drawn[r] = t
    BY <1>1 DEF IInv, SlotOK, OldKeyOK, Exists
  <2>2. CASE pc[r] = "committed" /\ reply[r] = 201
    <3>1. drawn[r] \in made
      BY <1>1, <2>2 DEF IInv, RequestOK, CreateOK, Exists
    <3>2. made = {drawn[r]}
      BY <2>1, <3>1
    <3>3. Cardinality(made) = 1
      <4> HIDE DEF made
      <4> QED
        BY <3>2, FS_Singleton
    <3> QED
      BY <2>2, <3>3
  <2>3. CASE ~ (pc[r] = "committed" /\ reply[r] = 201)
    <3>1. made = {}
      BY <2>1, <2>3
    <3> QED
      BY <2>3, <3>1, FS_EmptySet
  <2> QED
    BY <2>2, <2>3
<1>2. IInv => OneKeyEach
  BY <1>1 DEF OneKeyEach
<1> QED
  BY <1>2, SpecInv, PTL

-----------------------------------------------------------------------------
(* What a step does to the table. *)

(* The slot of a key stays as it is, is settled by the end of the           *)
(* transaction that holds it, has another version of the same key written   *)
(* to it, or the key of a creation.                                         *)
Rewritten(t) ==
    /\ Exists(t) /\ keys'[t].row = keys[t].row
    /\ keys'[t].draft # NoRow /\ RightsOf(keys'[t].draft) = RightsOf(keys[t].draft)

NewlyMade(t) ==
    /\ ~ Exists(t) /\ keys'[t].row = keys[t].row
    /\ \E r \in Requests : /\ pc[r] = "insert" /\ call'[r] = call[r]
                           /\ keys'[t].owner = r /\ keys'[t].draft = NewRow(r)

NotCommitted(t) ==
    \/ keys'[t] = keys[t]
    \/ keys'[t] = Settled(keys[t].row)
    \/ Rewritten(t)
    \/ NewlyMade(t)

LEMMA RowStays ==
    ASSUME NEW t \in Tokens, NotCommitted(t)
    PROVE  keys'[t].row = keys[t].row
<1>1. CASE keys'[t] = Settled(keys[t].row)
  BY <1>1 DEF Settled
<1> QED
  BY <1>1 DEF NotCommitted, Rewritten, NewlyMade

LEMMA TouchWrites ==
    ASSUME IInv, NEW r \in Requests, Touch(r), NEW t \in Tokens
    PROVE  NotCommitted(t)
<1>1. Exists(Target(r)) /\ Target(r) \in Tokens
  <2>1. pc[r] \in {"authTouch", "verTouch"} /\ KnownOK(r) /\ ControlOK(r) /\ when[r] # Never
    BY DEF Touch, IInv, RequestOK, ControlOK
  <2>2. pc[r] = "authTouch" => accepted[r] # Never
    BY <2>1 DEF ControlOK
  <2>3. pc[r] = "verTouch" => call[r].key \in Tokens
    BY <2>1, CallKnown DEF ControlOK, OpsAt
  <2> QED
    BY <2>1, <2>2, <2>3 DEF Target, KnownOK
<1>2. CASE t # Target(r)
  BY <1>2 DEF Touch, Write, NotCommitted, IInv, TypeOK, Table
<1>3. CASE t = Target(r)
  <2>1. keys'[t].row = keys[t].row /\ keys'[t].draft = [keys[t].draft EXCEPT !.used = when[r]]
    BY <1>3 DEF Touch, Write, IInv, TypeOK, Table
  <2>2. keys[t].draft \in Row
    BY <1>1, <1>3, OwnerFacts DEF IInv, SlotOK, OldKeyOK, Exists
  <2>3. keys'[t].draft # NoRow /\ RightsOf(keys'[t].draft) = RightsOf(keys[t].draft)
    <3>1. when[r] \in Times \cup {Never}
      BY DEF IInv, TypeOK
    <3> QED
      BY <2>1, <2>2, <3>1, SameRights
  <2> QED
    BY <1>1, <1>3, <2>1, <2>3 DEF NotCommitted, Rewritten
<1> QED
  BY <1>2, <1>3

LEMMA InsertWrites ==
    ASSUME IInv, NEW r \in Requests, Insert(r), NEW t \in Tokens
    PROVE  NotCommitted(t)
<1>1. pc[r] = "insert" /\ drawn[r] \in Tokens /\ call' = call
  BY DEF Insert, IInv, RequestOK, ControlOK
<1>2. CASE keys' = RolledBack(keys, r)
  BY <1>2 DEF RolledBack, NotCommitted, IInv, TypeOK, Table
<1>3. CASE Visible(keys, r, drawn[r]) = NoRow /\ keys' = Write(keys, r, drawn[r], NewRow(r))
  <2>1. CASE t # drawn[r]
    BY <1>3, <2>1 DEF Write, NotCommitted, IInv, TypeOK, Table
  <2>2. CASE t = drawn[r]
    <3>1. ~ Exists(t)
      BY <1>3, <2>2 DEF Visible, IInv, SlotOK, OldKeyOK, Exists
    <3>2. keys'[t].row = keys[t].row /\ keys'[t].owner = r /\ keys'[t].draft = NewRow(r)
      BY <1>3, <2>2 DEF Write, IInv, TypeOK, Table
    <3> QED
      BY <1>1, <3>1, <3>2 DEF NotCommitted, NewlyMade
  <2> QED
    BY <2>1, <2>2
<1> QED
  BY <1>2, <1>3 DEF Insert, Fail

LEMMA RevokeWrites ==
    ASSUME IInv, NEW r \in Requests, RevokeUpdate(r), NEW t \in Tokens
    PROVE  NotCommitted(t)
<1> DEFINE k == call[r].key
<1>1. Exists(k) /\ k \in Tokens
  <2>1. pc[r] = "revUpdate" /\ KnownOK(r) /\ ControlOK(r)
    BY DEF RevokeUpdate, IInv, RequestOK
  <2>2. call[r].op = "revoke"
    BY <2>1 DEF ControlOK, OpsAt
  <2> QED
    BY <2>1, <2>2, CallKnown DEF KnownOK
<1>2. CASE keys' = RolledBack(keys, r)
  BY <1>2 DEF RolledBack, NotCommitted, IInv, TypeOK, Table
<1>3. CASE keys' = Write(keys, r, k, [keys[k].draft EXCEPT !.revoked = when[r]])
  <2>1. CASE t # k
    BY <1>3, <2>1 DEF Write, NotCommitted, IInv, TypeOK, Table
  <2>2. CASE t = k
    <3>1. keys'[t].row = keys[t].row /\ keys'[t].draft = [keys[t].draft EXCEPT !.revoked = when[r]]
      BY <1>3, <2>2 DEF Write, IInv, TypeOK, Table
    <3>2. keys[t].draft \in Row
      BY <1>1, <2>2, OwnerFacts DEF IInv, SlotOK, OldKeyOK, Exists
    <3>3. keys'[t].draft # NoRow /\ RightsOf(keys'[t].draft) = RightsOf(keys[t].draft)
      <4>1. when[r] \in Times \cup {Never}
        BY DEF IInv, TypeOK
      <4> QED
        BY <3>1, <3>2, <4>1, SameRights
    <3> QED
      BY <1>1, <2>2, <3>1, <3>3 DEF NotCommitted, Rewritten
  <2> QED
    BY <2>1, <2>2
<1> QED
  BY <1>2, <1>3 DEF RevokeUpdate, Fail

LEMMA SlotsFollow ==
    ASSUME IInv, [Next]_vars, NEW t \in Tokens
    PROVE  \/ NotCommitted(t)
           \/ \E r \in Requests : Commit(r)
<1>1. ASSUME keys' = keys PROVE NotCommitted(t)
  BY <1>1 DEF NotCommitted
<1>2. ASSUME NEW r \in Requests, keys' = RolledBack(keys, r) PROVE NotCommitted(t)
  BY <1>2 DEF RolledBack, NotCommitted, IInv, TypeOK, Table
<1>3. ASSUME NEW r \in Requests, Step(r), ~ Commit(r) PROVE NotCommitted(t)
  <2>1. CASE AuthRead(r) \/ VerRead(r) \/ Work(r) \/ PrefixTaken(r)
    BY <1>1, <2>1 DEF AuthRead, VerRead, Lookup, Work, PrefixTaken
  <2>2. CASE AuthCheck(r) \/ Draw(r) \/ RevokeRead(r) \/ LockWaitAborted(r)
    BY <1>1, <1>2, <2>2 DEF AuthCheck, Draw, RevokeRead, LockWaitAborted, Stay, Fail
  <2>3. CASE VerCheck(r) \/ BootstrapList(r)
    BY <1>1, <2>3 DEF VerCheck, BootstrapList, Stay
  <2>4. CASE Touch(r) \/ Insert(r) \/ RevokeUpdate(r)
    BY <2>4, TouchWrites, InsertWrites, RevokeWrites
  <2> QED
    BY <1>3, <2>1, <2>2, <2>3, <2>4 DEF Step
<1>4. ASSUME NEW r \in Requests, Arrive(r) PROVE keys' = keys
  BY <1>4 DEF Arrive, Begin
<1>5. ASSUME NEW r \in Requests, Aborted(r) PROVE keys' = RolledBack(keys, r)
  BY <1>5 DEF Aborted, Fail
<1> QED
  BY <1>1, <1>2, <1>3, <1>4, <1>5 DEF Next, Tick, Done, vars

(* A request that has arrived keeps its call.                               *)
LEMMA CallStays ==
    ASSUME IInv, [Next]_vars, NEW r \in Requests, pc[r] # "idle"
    PROVE  call'[r] = call[r]
<1>1. ASSUME NEW s \in Requests, Step(s) PROVE call' = call
  BY <1>1 DEF Step, AuthRead, VerRead, Lookup, AuthCheck, VerCheck, Touch, Work, Draw, PrefixTaken,
              Insert, BootstrapList, RevokeRead, RevokeUpdate, Commit, LockWaitAborted
<1>2. ASSUME NEW s \in Requests, Arrive(s) PROVE call'[r] = call[r]
  BY <1>2 DEF Arrive, Begin, IInv, TypeOK
<1> QED
  BY <1>1, <1>2 DEF Next, Aborted, Tick, Done, vars

LEMMA CommittedSlots ==
    ASSUME IInv, NEW r \in Requests, Commit(r)
    PROVE  /\ pc[r] = "commit"
           /\ \A t \in Tokens :
                 /\ keys[t].owner = r => /\ keys'[t] = Settled(keys[t].draft)
                                         /\ keys'[t].row = keys[t].draft
                 /\ keys[t].owner # r => keys'[t] = keys[t]
<1>1. pc[r] = "commit" /\ keys' = Committed(keys, r)
  BY DEF Commit
<1>2. ASSUME NEW t \in Tokens, keys[t].owner = r
      PROVE  keys'[t] = Settled(keys[t].draft) /\ keys'[t].row = keys[t].draft
  <2>1. keys'[t] = Settled(keys[t].draft)
    BY <1>1, <1>2 DEF Committed, IInv, TypeOK, Table
  <2> QED
    BY <2>1 DEF Settled
<1>3. ASSUME NEW t \in Tokens, keys[t].owner # r PROVE keys'[t] = keys[t]
  BY <1>1, <1>3 DEF Committed, IInv, TypeOK, Table
<1> QED
  BY <1>1, <1>2, <1>3

(* A revocation is for good, and its instant is that of the revocation that *)
(* came first: neither a second one nor the note of a use that was under    *)
(* way changes it (ApiKeyRepository.revoke, touch_last_used).               *)
RevocationFinal ==
    [][\A t \in Tokens :
          keys[t].row # NoRow /\ keys[t].row.revoked # Never
              => keys'[t].row # NoRow /\ keys'[t].row.revoked = keys[t].row.revoked]_vars

THEOREM RevokedForGood == Spec => RevocationFinal
<1>1. ASSUME IInv, [Next]_vars, NEW t \in Tokens, Revoked(t)
      PROVE  keys'[t].row # NoRow /\ keys'[t].row.revoked = keys[t].row.revoked
  <2>1. keys'[t].row \in {keys[t].row, keys[t].draft}
    BY <1>1, SlotsFollow, RowStays, CommittedSlots
  <2> QED
    BY <1>1, <2>1 DEF IInv, SlotOK, OldKeyOK, Revoked, Exists
<1>2. IInv /\ [Next]_vars =>
         [\A t \in Tokens :
            keys[t].row # NoRow /\ keys[t].row.revoked # Never
                => keys'[t].row # NoRow /\ keys'[t].row.revoked = keys[t].row.revoked]_vars
  BY <1>1 DEF Revoked, Exists
<1> QED
  BY <1>2, SpecInv, PTL DEF Spec, RevocationFinal

-----------------------------------------------------------------------------
(* The table as those see it who hold a key. *)

(* A draft grants what its row does; a new one, what it was asked for by a  *)
(* request that makes keys.                                                 *)
MadeOK(t) ==
    LET row == keys[t].row  draft == keys[t].draft
    IN  /\ Exists(t) => RightsOf(draft) = RightsOf(row) /\ RightsOf(row) \in Rights
        /\ draft # NoRow /\ ~ Exists(t) =>
              RightsOf(draft) \in Rights /\ call[keys[t].owner].op \in {"create", "bootstrap"}

MadeInv == \A t \in Tokens : MadeOK(t)

LEMMA NewRights ==
    ASSUME IInv, NEW r \in Requests, pc[r] = "insert"
    PROVE  RightsOf(NewRow(r)) \in Rights /\ call[r].op \in {"create", "bootstrap"}
<1>1. call[r].op \in {"create", "bootstrap"} /\ call[r] \in Calls
  BY DEF IInv, RequestOK, ControlOK, OpsAt
<1>2. call[r].op = "create" => call[r].scopes \in Grants /\ call[r].expires \in Expiries
  BY <1>1 DEF Calls
<1>3. call[r].op = "create" => call[r].name \in NameKinds
  BY <1>1, NameAssumption DEF Calls
<1> QED
  BY <1>1, <1>2, <1>3 DEF NewRow, RightsOf, Rights, NameKinds

LEMMA InitMade == Init => MadeInv
  BY DEF Init, Settled, MadeInv, MadeOK, Exists, Rights

LEMMA NextMade ==
    ASSUME IInv, MadeInv, [Next]_vars
    PROVE  MadeInv'
<1> SUFFICES ASSUME NEW t \in Tokens PROVE MadeOK(t)'
  BY DEF MadeInv
<1>1. MadeOK(t) /\ SlotOK(t) /\ keys[t].owner \in Requests \cup {NoTxn}
  BY OwnerFacts DEF MadeInv, IInv
<1>2. CASE keys'[t] = keys[t]
  <2>1. CASE keys[t].draft # NoRow /\ ~ Exists(t)
    <3>1. keys[t].owner \in Requests /\ pc[keys[t].owner] = "commit"
      BY <1>1, <2>1 DEF SlotOK, OwnerOK, NewKeyOK, Exists
    <3>2. call'[keys[t].owner] = call[keys[t].owner]
      BY <3>1, CallStays
    <3> QED
      BY <1>1, <1>2, <2>1, <3>2 DEF MadeOK, Exists
  <2> QED
    BY <1>1, <1>2, <2>1 DEF MadeOK, Exists
<1>3. CASE keys'[t] = Settled(keys[t].row) \/ keys'[t] = Settled(keys[t].draft)
  BY <1>1, <1>3 DEF Settled, MadeOK, Exists
<1>4. CASE Rewritten(t)
  BY <1>1, <1>4 DEF Rewritten, MadeOK, Exists
<1>5. CASE NewlyMade(t)
  BY <1>5, NewRights DEF NewlyMade, MadeOK, Exists
<1>6. ASSUME NEW r \in Requests, Commit(r)
      PROVE  keys'[t] = keys[t] \/ keys'[t] = Settled(keys[t].draft)
  BY <1>6, CommittedSlots
<1> QED
  BY <1>2, <1>3, <1>4, <1>5, <1>6, SlotsFollow DEF NotCommitted

LEMMA SpecMade == Spec => [](IInv /\ MadeInv)
<1>1. Init => IInv /\ MadeInv
  BY InitInv, InitMade
<1>2. IInv /\ MadeInv /\ [Next]_vars => IInv' /\ MadeInv'
  BY NextInv, NextMade
<1> QED
  BY <1>1, <1>2, PTL DEF Spec

KeyLives == [t \in Tokens |-> KeyLife(t)]

LEMMA LivesTyped ==
    ASSUME IInv, MadeInv, NEW t \in Tokens
    PROVE  KeyLife(t) \in Lifecycle!Lives \cup {NoRow}
<1>1. keys[t].row \in Row \cup {NoRow} /\ MadeOK(t)
  BY OwnerFacts DEF IInv, MadeInv
<1> QED
  BY <1>1, RowFacts DEF KeyLife, MadeOK, Exists, Lifecycle!Lives

LEMMA LivesStay ==
    (\A t \in Tokens : KeyLife(t)' = KeyLife(t)) => KeyLives' = KeyLives
  BY DEF KeyLives

(* The commit of a creation makes a key ..                                  *)
LEMMA CommitMakes ==
    ASSUME IInv, MadeInv, NEW r \in Requests, Commit(r), NEW t \in Tokens,
           keys[t].owner = r, keys[t].draft # NoRow, ~ Exists(t)
    PROVE  Lifecycle!Make(t)
<1>1. SlotOK(t) /\ MadeOK(t) /\ keys[t].draft \in Row
  BY OwnerFacts DEF IInv, MadeInv
<1>2. pc[r] = "commit" /\ keys'[t].row = keys[t].draft
  BY CommittedSlots
<1>3. keys[t].draft.by = r /\ keys[t].draft.revoked = Never /\ RightsOf(keys[t].draft) \in Rights
  BY <1>1 DEF SlotOK, NewKeyOK, MadeOK
<1>4. KeyLives[t] = NoRow
  BY DEF KeyLives, KeyLife, Exists
<1>5. KeyLives'[t] = [rights |-> RightsOf(keys[t].draft), revoked |-> Never, by |-> r]
  BY <1>2, <1>3 DEF KeyLives, KeyLife
<1>6. ASSUME NEW u \in Tokens, KeyLives[u] # NoRow PROVE KeyLives[u].by # r
  <2>1. Exists(u) /\ KeyLives[u].by = keys[u].row.by
    BY <1>6 DEF KeyLives, KeyLife, Exists
  <2>2. OldKeyOK(u)
    BY DEF IInv, SlotOK
  <2> QED
    BY <1>2, <2>1, <2>2 DEF OldKeyOK
<1> QED
  BY <1>3, <1>4, <1>5, <1>6 DEF Lifecycle!Make, KeyLives

(* .. that of a revocation revokes one ..                                   *)
LEMMA CommitRevokes ==
    ASSUME IInv, MadeInv, NEW r \in Requests, Commit(r), NEW t \in Tokens,
           keys[t].owner = r, Exists(t), keys[t].draft.revoked # keys[t].row.revoked
    PROVE  Lifecycle!Revoke(t) /\ call[r].op = "revoke" /\ call[r].key = t
<1>1. SlotOK(t) /\ MadeOK(t) /\ keys[t].row \in Row /\ keys[t].draft \in Row
  BY OwnerFacts DEF IInv, MadeInv, SlotOK, OldKeyOK, Exists
<1>2. keys'[t].row = keys[t].draft
  BY CommittedSlots
<1>3. keys[t].row.revoked = Never /\ keys[t].draft.revoked \in Times
  BY <1>1, RowFacts DEF SlotOK, OldKeyOK
<1>4. call[r].op = "revoke" /\ call[r].key = t
  BY <1>1, <1>3, TimesFacts DEF SlotOK, OldKeyOK
<1>5. KeyLives[t] = [rights |-> RightsOf(keys[t].row), revoked |-> Never, by |-> keys[t].row.by]
  BY <1>1, <1>3, RowFacts DEF KeyLives, KeyLife
<1>6. KeyLives'[t] = [KeyLives[t] EXCEPT !.revoked = keys[t].draft.revoked]
  BY <1>1, <1>2, <1>5, RowFacts DEF KeyLives, KeyLife, SlotOK, OldKeyOK, MadeOK, Exists
<1>7. KeyLives[t] # NoRow
  BY <1>1, <1>5, RowFacts, LifeAssumption DEF Lifecycle!Lives, MadeOK
<1> QED
  BY <1>3, <1>4, <1>5, <1>6, <1>7 DEF Lifecycle!Revoke, KeyLives

(* .. and no other key is affected: whoever makes one revokes none.         *)
LEMMA CommitLives ==
    ASSUME IInv, MadeInv, NEW r \in Requests, Commit(r)
    PROVE  Lifecycle!LifeNext \/ KeyLives' = KeyLives
<1> DEFINE Making(t)   == keys[t].owner = r /\ keys[t].draft # NoRow /\ ~ Exists(t)
           Revoking(t) == /\ keys[t].owner = r /\ Exists(t)
                          /\ keys[t].draft.revoked # keys[t].row.revoked
<1>1. \A t \in Tokens : SlotOK(t) /\ MadeOK(t)
  BY DEF IInv, MadeInv
<1>2. ASSUME NEW t \in Tokens, ~ Making(t), ~ Revoking(t) PROVE KeyLife(t)' = KeyLife(t)
  <2>1. CASE keys[t].owner # r
    BY <2>1, CommittedSlots DEF KeyLife
  <2>2. CASE keys[t].owner = r
    <3>1. keys'[t].row = keys[t].draft
      BY <2>2, CommittedSlots
    <3>2. CASE Exists(t)
      BY <1>1, <1>2, <2>2, <3>1, <3>2 DEF KeyLife, SlotOK, OldKeyOK, MadeOK, Exists
    <3>3. CASE ~ Exists(t)
      BY <1>2, <2>2, <3>1, <3>3 DEF KeyLife, Exists
    <3> QED
      BY <3>2, <3>3
  <2> QED
    BY <2>1, <2>2
<1>3. \A t \in Tokens : Making(t) => drawn[r] = t /\ call[r].op \in {"create", "bootstrap"}
  BY <1>1 DEF SlotOK, NewKeyOK, MadeOK
<1>4. \A t \in Tokens : Revoking(t) => call[r].op = "revoke" /\ call[r].key = t
  BY CommitRevokes
<1>5. ASSUME NEW t \in Tokens, Making(t) \/ Revoking(t) PROVE Lifecycle!LifeNext
  <2>1. Lifecycle!Make(t) \/ Lifecycle!Revoke(t)
    BY <1>5, CommitMakes, CommitRevokes
  <2>2. \A u \in Tokens \ {t} : ~ Making(u) /\ ~ Revoking(u)
    BY <1>3, <1>4, <1>5
  <2>3. \A u \in Tokens \ {t} : KeyLife(u)' = KeyLife(u)
    BY <1>2, <2>2
  <2>4. KeyLives' = [KeyLives EXCEPT ![t] = KeyLives'[t]]
    BY <2>3 DEF KeyLives
  <2> QED
    BY <2>1, <2>4 DEF Lifecycle!LifeNext, KeyLives
<1>6. CASE \A t \in Tokens : ~ Making(t) /\ ~ Revoking(t)
  BY <1>2, <1>6, LivesStay
<1> QED
  BY <1>5, <1>6

(* To whoever holds a key, the table of keys is KeyLifecycle.               *)
THEOREM KeysImplementLifecycle == Spec => ImplementsLifecycle
<1>1. Init => Lifecycle!LifeInit
  BY InitInv, InitMade, LivesTyped DEF Lifecycle!LifeInit
<1>2. ASSUME IInv, MadeInv, [Next]_vars PROVE Lifecycle!LifeNext \/ KeyLives' = KeyLives
  <2>1. ASSUME NEW r \in Requests, Commit(r) PROVE Lifecycle!LifeNext \/ KeyLives' = KeyLives
    BY <1>2, <2>1, CommitLives
  <2>2. CASE \A t \in Tokens : NotCommitted(t)
    <3>1. \A t \in Tokens : keys'[t].row = keys[t].row
      BY <2>2, RowStays
    <3> QED
      BY <3>1, LivesStay DEF KeyLife
  <2> QED
    BY <1>2, <2>1, <2>2, SlotsFollow
<1>3. IInv /\ MadeInv /\ [Next]_vars => [Lifecycle!LifeNext]_KeyLives
  BY <1>2
<1> QED
  BY <1>1, <1>3, SpecMade, PTL DEF Spec, ImplementsLifecycle, Lifecycle!LifeSpec, KeyLives

-----------------------------------------------------------------------------
(* Bootstrap jobs that do not overlap. *)

Searched == {"draw", "prefix", "insert"}

(* A step that makes no new key: name and maker of a draft are what they    *)
(* were.                                                                    *)
Carried(r, t) ==
    \/ keys'[t] = keys[t]
    \/ keys[t].owner = r /\ keys'[t] = Settled(keys[t].draft)
    \/ keys[t].owner = r /\ keys'[t] = Settled(keys[t].row)
    \/ /\ Exists(t) /\ keys'[t].row = keys[t].row
       /\ keys'[t].draft.name = keys[t].draft.name
       /\ keys'[t].draft.by = keys[t].draft.by

LEMMA CarriedName ==
    ASSUME IInv, NEW r \in Requests, NEW t \in Tokens, Carried(r, t)
    PROVE  /\ BootstrapKey(keys'[t].draft) => BootstrapKey(keys[t].draft)
           /\ BootstrapKey(keys'[t].draft) /\ ~ Exists(t)' => keys'[t] = keys[t]
<1>1. OldKeyOK(t)
  BY DEF IInv, SlotOK
<1>2. CASE keys[t].owner = r /\ (keys'[t] = Settled(keys[t].draft) \/ keys'[t] = Settled(keys[t].row))
  <2>1. keys'[t].row = keys'[t].draft /\ keys'[t].draft \in {keys[t].draft, keys[t].row}
    BY <1>2 DEF Settled
  <2> QED
    BY <1>1, <2>1 DEF OldKeyOK, BootstrapKey, Exists
<1> QED
  BY <1>1, <1>2 DEF Carried, OldKeyOK, BootstrapKey, Exists

(* The drafts of which the invariant speaks after a step in which every     *)
(* request keeps its call.                                                  *)
LEMMA JobKeysFrom ==
    ASSUME \A s \in Requests : call'[s] = call[s],
           \A q, s \in Requests : IsJob(q)' /\ IsJob(s)' => q = s,
           \A t \in Tokens : BootstrapKey(keys'[t].draft) /\ ~ Exists(t)'
              => pc'[keys'[t].owner] \in InFlight /\ call'[keys'[t].owner].op = "bootstrap",
           \A j, k \in Tokens : BootstrapKey(keys'[j].draft) /\ BootstrapKey(keys'[k].draft) => j = k,
           \A s \in Requests, t \in Tokens :
              IsJob(s)' /\ pc'[s] \in Searched => ~ BootstrapKey(keys'[t].draft)
    PROVE  BootstrapInv'
<1>1. ASSUME NEW t \in Tokens
      PROVE  BootstrapKey(keys[t].draft)' <=> BootstrapKey(keys'[t].draft)
  BY DEF BootstrapKey
<1> QED
  BY <1>1 DEF BootstrapInv, IsJob, Searched

LEMMA BootstrapStays ==
    ASSUME IInv, IInv', BootstrapInv, NEW r \in Requests, Frame(r),
           pc[r] \in InFlight, call'[r] = call[r],
           \A t \in Tokens : Carried(r, t),
           pc'[r] \in Searched /\ call[r].op = "bootstrap" =>
              \A t \in Tokens : ~ BootstrapKey(keys[t].draft)
    PROVE  BootstrapInv'
<1>1. \A s \in Requests : IsJob(s)' => IsJob(s)
  BY DEF IsJob, Frame
<1>2. \A t \in Tokens : /\ BootstrapKey(keys'[t].draft) => BootstrapKey(keys[t].draft)
                        /\ BootstrapKey(keys'[t].draft) /\ ~ Exists(t)' => keys'[t] = keys[t]
  BY CarriedName
<1>3. \A q, s \in Requests : IsJob(q)' /\ IsJob(s)' => q = s
  BY <1>1 DEF BootstrapInv
<1>4. \A j, k \in Tokens : BootstrapKey(keys'[j].draft) /\ BootstrapKey(keys'[k].draft) => j = k
  BY <1>2 DEF BootstrapInv
<1>5. ASSUME NEW t \in Tokens, BootstrapKey(keys'[t].draft), ~ Exists(t)'
      PROVE  pc'[keys'[t].owner] \in InFlight /\ call'[keys'[t].owner].op = "bootstrap"
  <2>1. keys'[t] = keys[t] /\ BootstrapKey(keys[t].draft) /\ ~ Exists(t)
    BY <1>2, <1>5 DEF Exists
  <2>2. call[keys[t].owner].op = "bootstrap"
    BY <2>1 DEF BootstrapInv, IsJob
  <2>3. OwnerOK(t) /\ OwnerOK(t)'
    BY DEF IInv, SlotOK
  <2>4. keys[t].owner \in Requests
    BY <2>1, <2>3, OwnerFacts DEF IInv, OwnerOK, BootstrapKey, Exists
  <2>5. pc'[keys[t].owner] \in InFlight
    BY <2>1, <2>3, <2>4 DEF OwnerOK, Holding
  <2>6. call'[keys[t].owner] = call[keys[t].owner]
    BY <2>4 DEF Frame
  <2> QED
    BY <2>1, <2>2, <2>5, <2>6
<1>6. ASSUME NEW s \in Requests, NEW t \in Tokens, IsJob(s)', pc'[s] \in Searched
      PROVE  ~ BootstrapKey(keys'[t].draft)
  <2>1. CASE s = r
    BY <1>2, <1>6, <2>1 DEF IsJob
  <2>2. CASE s # r
    BY <1>1, <1>2, <1>6, <2>2 DEF BootstrapInv, Frame, Searched
  <2> QED
    BY <2>1, <2>2
<1>7. \A s \in Requests : call'[s] = call[s]
  BY DEF Frame
<1> QED
  BY <1>3, <1>4, <1>5, <1>6, <1>7, JobKeysFrom DEF IsJob, Searched

(* When no draft has the name, none has it once r has searched.             *)
LEMMA BootstrapFound ==
    ASSUME IInv, BootstrapInv, NEW r \in Requests, NEW t \in Tokens,
           pc[r] = "bootList", call[r].op = "bootstrap",
           ~ BootstrapKey(Visible(keys, r, t))
    PROVE  ~ BootstrapKey(keys[t].draft)
<1> SUFFICES ASSUME BootstrapKey(keys[t].draft), keys[t].owner # r PROVE FALSE
  BY DEF Visible
<1>1. SlotOK(t) /\ keys[t].owner \in Requests \cup {NoTxn} /\ ~ BootstrapKey(keys[t].row)
  BY OwnerFacts DEF IInv, Visible
<1>2. ~ Exists(t)
  BY <1>1 DEF SlotOK, OldKeyOK, BootstrapKey, Exists
<1>3. keys[t].owner \in Requests
  BY <1>1, <1>2 DEF SlotOK, OwnerOK, BootstrapKey, Exists
<1>4. IsJob(keys[t].owner) /\ IsJob(r)
  BY <1>2 DEF BootstrapInv, IsJob, InFlight
<1> QED
  BY <1>3, <1>4 DEF BootstrapInv

(* A job arrives while no other one is running.                             *)
LEMMA BootstrapBegins ==
    ASSUME ~ JobsOverlap, IInv, BootstrapInv, NEW r \in Requests, NEW c \in Calls, Begin(r, c)
    PROVE  BootstrapInv'
<1>1. /\ pc[r] = "idle" /\ call'[r] = c /\ keys' = keys /\ Frame(r)
      /\ c.op = "bootstrap" => pc'[r] = "bootList"
  BY DEF Begin, GoTo, IInv, TypeOK, Frame
<1>2. \A s \in Requests \ {r} : pc'[s] = pc[s] /\ call'[s] = call[s]
  BY <1>1 DEF Frame
<1>3. c.op = "bootstrap" => \A s \in Requests : ~ IsJob(s)
  BY DEF Begin, IsJob
<1>4. \A q, s \in Requests : IsJob(q)' /\ IsJob(s)' => q = s
  BY <1>1, <1>2, <1>3 DEF BootstrapInv, IsJob
<1>5. ASSUME NEW t \in Tokens, BootstrapKey(keys[t].draft), ~ Exists(t)
      PROVE  pc'[keys[t].owner] \in InFlight /\ call'[keys[t].owner].op = "bootstrap"
  <2>1. SlotOK(t) /\ keys[t].owner \in Requests \cup {NoTxn}
    BY OwnerFacts DEF IInv
  <2>2. keys[t].owner \in Requests /\ pc[keys[t].owner] = "commit"
    BY <1>5, <2>1 DEF SlotOK, OwnerOK, NewKeyOK, BootstrapKey, Exists
  <2> QED
    BY <1>1, <1>2, <1>5, <2>2 DEF BootstrapInv, IsJob
<1>6. ASSUME NEW s \in Requests, NEW t \in Tokens, IsJob(s)', pc'[s] \in Searched
      PROVE  ~ BootstrapKey(keys[t].draft)
  <2>1. s # r
    BY <1>1, <1>6 DEF IsJob, Searched
  <2> QED
    BY <1>2, <1>6, <2>1 DEF BootstrapInv, IsJob, Searched
<1>7. ASSUME NEW t \in Tokens, BootstrapKey(keys[t].draft)'
      PROVE  BootstrapKey(keys[t].draft)
  <2>1. SlotOK(t) /\ keys[t].owner \in Requests \cup {NoTxn} /\ keys[t].draft # NoRow
    BY <1>1, <1>7, OwnerFacts DEF IInv, BootstrapKey
  <2>2. keys[t].draft.by \in Requests => pc[keys[t].draft.by] # "idle"
    BY <2>1 DEF SlotOK, OldKeyOK, NewKeyOK, Exists
  <2> QED
    BY <1>1, <1>2, <1>7, <2>2 DEF BootstrapKey
<1>8. \A t \in Tokens : BootstrapKey(keys[t].draft)' => BootstrapKey(keys[t].draft)
  BY <1>7
<1> QED
  BY <1>1, <1>4, <1>5, <1>6, <1>8 DEF BootstrapInv, IsJob, Searched, Exists

(* It makes a key only when it has found none.                              *)
LEMMA BootstrapInserts ==
    ASSUME IInv, IInv', BootstrapInv, NEW r \in Requests, Insert(r)
    PROVE  BootstrapInv'
<1>1. /\ pc[r] = "insert" /\ pc[r] \in InFlight /\ call'[r] = call[r] /\ Frame(r)
      /\ pc'[r] \in {"commit", "rolledBack"}
  BY DEF Insert, Answer, Fail, GoTo, IInv, TypeOK, Frame, InFlight
<1>2. CASE keys' = RolledBack(keys, r)
  <2>1. \A t \in Tokens : Carried(r, t)
    BY <1>2 DEF Carried, RolledBack, IInv, TypeOK, Table
  <2> QED
    BY <1>1, <2>1, BootstrapStays DEF Searched
<1>3. CASE /\ Visible(keys, r, drawn[r]) = NoRow
           /\ keys' = Write(keys, r, drawn[r], NewRow(r)) /\ Answer(r, 201)
  <2>1. PICK k \in Tokens : k = drawn[r]
    BY <1>1 DEF IInv, RequestOK, ControlOK
  <2>2. PICK row \in Row : row = NewRow(r) /\ row.by = r
    BY <1>1, NewRowFacts
  <2>3. /\ keys'[k].row = keys[k].row /\ keys'[k].draft = row /\ keys'[k].owner = r
        /\ \A t \in Tokens \ {k} : keys'[t] = keys[t]
    BY <1>3, <2>1, <2>2, WriteEffect DEF IInv, TypeOK
  <2>4. pc'[r] = "commit"
    BY <1>3 DEF Answer, GoTo, IInv, TypeOK
  <2>5. \A s \in Requests : /\ call'[s] = call[s] /\ (s # r => pc'[s] = pc[s])
                            /\ IsJob(s)' <=> IsJob(s)
    BY <1>1, <2>4 DEF Frame, IsJob, InFlight
  <2>6. BootstrapKey(row) => IsJob(r) /\ \A t \in Tokens : ~ BootstrapKey(keys[t].draft)
    BY <1>1, <2>2 DEF BootstrapKey, IsJob, BootstrapInv
  <2>7. \A q, s \in Requests : IsJob(q)' /\ IsJob(s)' => q = s
    BY <2>5 DEF BootstrapInv
  <2>8. \A i, j \in Tokens : BootstrapKey(keys'[i].draft) /\ BootstrapKey(keys'[j].draft) => i = j
    BY <2>3, <2>6 DEF BootstrapInv
  <2>9. ASSUME NEW t \in Tokens, BootstrapKey(keys'[t].draft), ~ Exists(t)'
        PROVE  pc'[keys'[t].owner] \in InFlight /\ call'[keys'[t].owner].op = "bootstrap"
    <3>1. CASE t = k
      BY <1>1, <2>3, <2>4, <2>6, <2>9, <3>1 DEF IsJob, InFlight
    <3>2. CASE t # k
      <4>1. keys'[t] = keys[t] /\ BootstrapKey(keys[t].draft) /\ ~ Exists(t)
        BY <2>3, <2>9, <3>2 DEF Exists
      <4>2. keys[t].owner \in Requests
        BY <4>1, OwnerFacts DEF IInv, SlotOK, OwnerOK, BootstrapKey, Exists
      <4> QED
        BY <2>5, <4>1, <4>2 DEF BootstrapInv, IsJob
    <3> QED
      BY <3>1, <3>2
  <2>10. ASSUME NEW s \in Requests, NEW t \in Tokens, IsJob(s)', pc'[s] \in Searched
         PROVE  ~ BootstrapKey(keys'[t].draft)
    <3>1. s # r /\ IsJob(s) /\ pc[s] \in Searched
      BY <2>4, <2>5, <2>10 DEF Searched
    <3>2. ~ IsJob(r)
      BY <3>1 DEF BootstrapInv
    <3> QED
      BY <2>3, <2>6, <3>1, <3>2 DEF BootstrapInv, Searched
  <2> QED
    BY <2>5, <2>7, <2>8, <2>9, <2>10, JobKeysFrom DEF IsJob, Searched
<1> QED
  BY <1>2, <1>3 DEF Insert, Fail

LEMMA CarriedByWrite ==
    ASSUME IInv, NEW r \in Requests, NEW k \in Tokens, Exists(k), NEW row \in Row,
           row.name = keys[k].draft.name, row.by = keys[k].draft.by,
           keys' = Write(keys, r, k, row)
    PROVE  \A t \in Tokens : Carried(r, t)
<1>1. /\ keys'[k].row = keys[k].row /\ keys'[k].draft = row
      /\ \A t \in Tokens \ {k} : keys'[t] = keys[t]
  BY WriteEffect DEF IInv, TypeOK
<1> QED
  BY <1>1 DEF Carried

LEMMA BootstrapTouches ==
    ASSUME IInv, IInv', BootstrapInv, NEW r \in Requests, Touch(r)
    PROVE  BootstrapInv'
<1>1. /\ Frame(r) /\ pc[r] \in {"authTouch", "verTouch"} /\ pc[r] \in InFlight /\ call'[r] = call[r]
      /\ keys' = Write(keys, r, Target(r), [keys[Target(r)].draft EXCEPT !.used = when[r]])
  BY DEF Touch, Answer, GoTo, Frame, InFlight, IInv, TypeOK
<1>2. RequestOK(r) /\ call[r].op \in Authenticated /\ when[r] \in Times \cup {Never}
  BY <1>1 DEF IInv, TypeOK, RequestOK, ControlOK, OpsAt, Authenticated
<1>3. PICK k \in Tokens : k = Target(r) /\ Exists(k)
  <2>1. CASE pc[r] = "authTouch"
    <3>1. accepted[r] # Never
      BY <1>2, <2>1 DEF RequestOK, ControlOK
    <3> QED
      BY <1>2, <2>1, <3>1 DEF Target, RequestOK, KnownOK
  <2>2. CASE pc[r] = "verTouch"
    <3>1. call[r].op = "verify"
      BY <1>2, <2>2 DEF RequestOK, ControlOK, OpsAt
    <3> QED
      BY <1>2, <2>2, <3>1, CallKnown DEF Target, RequestOK, KnownOK
  <2> QED
    BY <1>1, <2>1, <2>2
<1>4. keys[k].draft \in Row
  BY <1>3, OwnerFacts DEF IInv, SlotOK, OldKeyOK
<1>5. PICK row \in Row : /\ row = [keys[k].draft EXCEPT !.used = when[r]]
                         /\ row.name = keys[k].draft.name /\ row.by = keys[k].draft.by
  BY <1>2, <1>4, WithUsed
<1>6. keys' = Write(keys, r, k, row)
  BY <1>1, <1>3, <1>5
<1>7. \A t \in Tokens : Carried(r, t)
  BY <1>3, <1>5, <1>6, CarriedByWrite
<1> QED
  BY <1>1, <1>2, <1>7, BootstrapStays DEF Authenticated

LEMMA BootstrapRevokes ==
    ASSUME IInv, IInv', BootstrapInv, NEW r \in Requests, RevokeUpdate(r)
    PROVE  BootstrapInv'
<1>1. /\ Frame(r) /\ pc[r] = "revUpdate" /\ pc[r] \in InFlight /\ call'[r] = call[r]
  BY DEF RevokeUpdate, Answer, Fail, GoTo, Frame, InFlight, IInv, TypeOK
<1>2. RequestOK(r) /\ call[r].op = "revoke" /\ when[r] \in Times \cup {Never}
  BY <1>1 DEF IInv, TypeOK, RequestOK, ControlOK, OpsAt
<1>3. PICK k \in Tokens : k = call[r].key /\ Exists(k)
  BY <1>1, <1>2, CallKnown DEF RequestOK, KnownOK
<1>4. keys[k].draft \in Row
  BY <1>3, OwnerFacts DEF IInv, SlotOK, OldKeyOK
<1>5. CASE keys' = RolledBack(keys, r)
  <2>1. \A t \in Tokens : Carried(r, t)
    BY <1>5 DEF Carried, RolledBack, IInv, TypeOK, Table
  <2> QED
    BY <1>1, <1>2, <2>1, BootstrapStays
<1>6. CASE keys' = Write(keys, r, k, [keys[k].draft EXCEPT !.revoked = when[r]])
  <2>1. PICK row \in Row : /\ row = [keys[k].draft EXCEPT !.revoked = when[r]]
                           /\ row.name = keys[k].draft.name /\ row.by = keys[k].draft.by
    BY <1>2, <1>4, WithRevoked
  <2>2. keys' = Write(keys, r, k, row)
    BY <1>6, <2>1
  <2>3. \A t \in Tokens : Carried(r, t)
    BY <1>3, <2>1, <2>2, CarriedByWrite
  <2> QED
    BY <1>1, <1>2, <2>3, BootstrapStays
<1> QED
  BY <1>3, <1>5, <1>6 DEF RevokeUpdate, Fail

(* The page in which a job looks is all that there is to see.               *)
LEMMA WholePage ==
    ASSUME IInv, BootstrapInv, Few, NEW r \in Requests, pc[r] = "bootList",
           NEW page \in PagesOf(Matching(r))
    PROVE  page = Matching(r)
<1>1. \A t \in Tokens : Visible(keys, r, t) = keys[t].row
  BY DEF Visible, IInv, SlotOK, OwnerOK, Holding
<1>2. \A t \in Matching(r) \ OtherMatches : BootstrapKey(keys[t].draft)
  BY <1>1 DEF Matching, OtherMatches, BootstrapKey, IInv, SlotOK, OldKeyOK, Exists
<1>3. \A j, k \in Matching(r) \ OtherMatches : j = k
  BY <1>2 DEF Matching, BootstrapInv
<1>4. /\ OtherMatches \in SUBSET Tokens /\ Matching(r) \in SUBSET Tokens
      /\ OtherMatches \subseteq Matching(r)
  BY <1>1 DEF OtherMatches, Matching
<1>5. /\ IsFiniteSet(OtherMatches) /\ IsFiniteSet(Matching(r))
      /\ Cardinality(OtherMatches) \in Nat
  BY <1>4, NameAssumption, FS_Subset, FS_CardinalityType
<1>6. Cardinality(Matching(r)) \in Nat /\ Cardinality(Matching(r)) <= ListLimit
  <2>1. CASE Matching(r) = OtherMatches
    BY <1>5, <2>1, NameAssumption DEF Few
  <2>2. CASE Matching(r) # OtherMatches
    <3>1. PICK k : k \in Matching(r) \ OtherMatches
      BY <1>4, <2>2
    <3>2. Matching(r) = OtherMatches \cup {k}
      BY <1>3, <1>4, <3>1
    <3>3. Cardinality(OtherMatches \cup {k}) = Cardinality(OtherMatches) + 1
      BY <1>5, <3>1, FS_AddElement
    <3> QED
      BY <1>5, <3>2, <3>3, NameAssumption DEF Few
  <2> QED
    BY <2>1, <2>2
<1>7. page \in SUBSET Matching(r)
  BY DEF PagesOf
<1>8. CASE Cardinality(page) = ListLimit
  <2>1. Cardinality(page) <= Cardinality(Matching(r))
    BY <1>5, <1>7, FS_Subset
  <2>2. Cardinality(page) = Cardinality(Matching(r))
    BY <1>6, <1>8, <2>1, NameAssumption
  <2> QED
    BY <1>5, <1>7, <2>2, FS_Subset
<1> QED
  BY <1>8 DEF PagesOf

(* Names that contain the one of the job do not become fewer.               *)
LEMMA FewBefore ==
    ASSUME IInv, [Next]_vars, Few'
    PROVE  Few
<1>1. ASSUME NEW t \in OtherMatches
      PROVE  t \in OtherMatches'
  <2>1. t \in Tokens /\ Exists(t) /\ keys[t].row.name # "other" /\ ~ BootstrapKey(keys[t].row)
    BY DEF OtherMatches, Exists
  <2>2. OldKeyOK(t)
    BY <2>1 DEF IInv, SlotOK
  <2>3. keys'[t].row # NoRow /\ keys'[t].row.name = keys[t].row.name /\ keys'[t].row.by = keys[t].row.by
    <3>1. CASE NotCommitted(t)
      BY <2>1, <3>1, RowStays DEF Exists
    <3>2. ASSUME NEW r \in Requests, Commit(r)
          PROVE  keys'[t].row \in {keys[t].row, keys[t].draft}
      BY <2>1, <3>2, CommittedSlots
    <3> QED
      BY <2>1, <2>2, <3>1, <3>2, SlotsFollow DEF OldKeyOK, Exists
  <2>4. keys[t].row.by \in Requests => call'[keys[t].row.by] = call[keys[t].row.by]
    BY <2>1, <2>2, CallStays DEF OldKeyOK
  <2> QED
    BY <2>1, <2>3, <2>4 DEF OtherMatches, BootstrapKey, Exists
<1>2. OtherMatches' \in SUBSET Tokens /\ OtherMatches \in SUBSET OtherMatches'
  BY <1>1 DEF OtherMatches
<1>3. IsFiniteSet(OtherMatches') /\ Cardinality(OtherMatches') \in Nat
  BY <1>2, NameAssumption, FS_Subset, FS_CardinalityType
<1>4. Cardinality(OtherMatches) <= Cardinality(OtherMatches') /\ Cardinality(OtherMatches) \in Nat
  BY <1>2, <1>3, FS_Subset, FS_CardinalityType
<1> QED
  BY <1>3, <1>4, NameAssumption DEF Few

LEMMA BootstrapSteps ==
    ASSUME Few, IInv, IInv', BootstrapInv, NEW r \in Requests, Step(r)
    PROVE  BootstrapInv'
<1> USE DEF IInv, TypeOK, GoTo
<1>1. ASSUME keys' = RolledBack(keys, r) \/ keys' = Committed(keys, r) \/ keys' = keys
      PROVE  \A t \in Tokens : Carried(r, t)
  BY <1>1 DEF Carried, RolledBack, Committed, Table
<1>2. CASE AuthRead(r) \/ VerRead(r) \/ Work(r) \/ VerCheck(r) \/ RevokeRead(r) \/ Commit(r)
  <2>1. /\ Frame(r) /\ pc[r] \in InFlight /\ call'[r] = call[r] /\ pc'[r] \notin Searched
        /\ keys' = RolledBack(keys, r) \/ keys' = Committed(keys, r) \/ keys' = keys
    BY <1>2 DEF AuthRead, VerRead, Lookup, Work, VerCheck, RevokeRead, Commit, Answer, Fail, Stay,
                Frame, Searched, InFlight
  <2> QED
    BY <1>1, <2>1, BootstrapStays
<1>3. CASE LockWaitAborted(r)
  <2>1. /\ Frame(r) /\ pc[r] \in InFlight /\ call'[r] = call[r] /\ pc'[r] \notin Searched
        /\ keys' = RolledBack(keys, r)
    BY <1>3 DEF LockWaitAborted, Blocked, Waiting, Fail, Frame, Searched, InFlight
  <2> QED
    BY <1>1, <2>1, BootstrapStays
<1>4. CASE AuthCheck(r)
  <2>1. /\ Frame(r) /\ pc[r] \in InFlight /\ call'[r] = call[r]
        /\ keys' = RolledBack(keys, r) \/ keys' = keys
    BY <1>4 DEF AuthCheck, Stay, Fail, Frame, InFlight
  <2>2. call[r].op # "bootstrap"
    BY <1>4 DEF AuthCheck, RequestOK, ControlOK, OpsAt, Authenticated
  <2> QED
    BY <1>1, <2>1, <2>2, BootstrapStays
<1>5. CASE Draw(r) \/ PrefixTaken(r)
  <2>1. /\ Frame(r) /\ pc[r] \in {"draw", "prefix"} /\ pc[r] \in InFlight /\ call'[r] = call[r]
        /\ keys' = RolledBack(keys, r) \/ keys' = keys
    BY <1>5 DEF Draw, PrefixTaken, Stay, Fail, Frame, InFlight
  <2>2. call[r].op = "bootstrap" => \A t \in Tokens : ~ BootstrapKey(keys[t].draft)
    BY <2>1 DEF BootstrapInv, IsJob
  <2> QED
    BY <1>1, <2>1, <2>2, BootstrapStays
<1>6. CASE BootstrapList(r)
  <2>1. /\ Frame(r) /\ pc[r] = "bootList" /\ pc[r] \in InFlight /\ call'[r] = call[r] /\ keys' = keys
    BY <1>6 DEF BootstrapList, Stay, Answer, Frame, InFlight
  <2>2. call[r].op = "bootstrap"
    BY <2>1 DEF RequestOK, ControlOK, OpsAt
  <2>3. pc'[r] \in Searched => \A t \in Matching(r) : ~ HasName(r, t)
    <3>1. PICK page \in PagesOf(Matching(r)) :
             \/ Answer(r, 200)
             \/ ~ (\E t \in page : HasName(r, t))
      BY <1>6 DEF BootstrapList
    <3>2. page = Matching(r)
      BY <2>1, <3>1, WholePage
    <3> QED
      BY <3>1, <3>2 DEF Answer, Searched
  <2>4. pc'[r] \in Searched => \A t \in Tokens : ~ BootstrapKey(Visible(keys, r, t))
    BY <2>3 DEF BootstrapKey, Matching, HasName, BootstrapName
  <2>5. pc'[r] \in Searched => \A t \in Tokens : ~ BootstrapKey(keys[t].draft)
    BY <2>1, <2>2, <2>4, BootstrapFound
  <2> QED
    BY <1>1, <2>1, <2>5, BootstrapStays
<1> QED
  BY <1>2, <1>3, <1>4, <1>5, <1>6, BootstrapTouches, BootstrapRevokes, BootstrapInserts DEF Step

LEMMA BootstrapNext ==
    ASSUME ~ JobsOverlap, Few, IInv, IInv', BootstrapInv, [Next]_vars
    PROVE  BootstrapInv'
<1>1. CASE Tick \/ UNCHANGED vars
  BY <1>1 DEF Tick, vars, BootstrapInv, BootstrapKey, IsJob, Exists
<1>2. ASSUME NEW r \in Requests, Arrive(r) PROVE BootstrapInv'
  BY <1>2, BootstrapBegins DEF Arrive
<1>3. ASSUME NEW r \in Requests, Aborted(r) PROVE BootstrapInv'
  <2>1. /\ Frame(r) /\ pc[r] \in InFlight /\ call'[r] = call[r] /\ pc'[r] \notin Searched
        /\ keys' = RolledBack(keys, r)
    BY <1>3 DEF Aborted, Fail, GoTo, Frame, Searched, IInv, TypeOK
  <2>2. \A t \in Tokens : Carried(r, t)
    BY <2>1 DEF Carried, RolledBack, IInv, TypeOK, Table
  <2> QED
    BY <2>1, <2>2, BootstrapStays
<1> QED
  BY <1>1, <1>2, <1>3, BootstrapSteps DEF Next, Done

(* However often the bootstrap job runs, whatever requests and failures     *)
(* come between, and whatever keys are created over HTTP, of its name as    *)
(* well, it makes at most one key, and none if it finds one from before:    *)
(* when jobs do not overlap, and fewer than ListLimit other keys have names *)
(* that contain its own (ci/bootstrap_admin.py).                            *)
THEOREM OneBootstrapKey ==
    ASSUME ~ JobsOverlap,
           \A j, k \in Existing :
              InitialRow[j].name = BootstrapName /\ InitialRow[k].name = BootstrapName => j = k
    PROVE  Spec => []BootstrapOnce
<1>1. ASSUME Init PROVE BootstrapInv
  <2>1. \A r \in Requests : ~ IsJob(r)
    BY <1>1 DEF Init, IsJob, InFlight
  <2>2. ASSUME NEW t \in Tokens, BootstrapKey(keys[t].draft)
        PROVE  Exists(t) /\ t \in Existing /\ InitialRow[t].name = BootstrapName
    BY <1>1, <2>2 DEF Init, Settled, BootstrapKey, Exists
  <2> QED
    BY <2>1, <2>2 DEF BootstrapInv
<1>2. ASSUME IInv, IInv', Few => BootstrapInv, [Next]_vars PROVE Few' => BootstrapInv'
  BY <1>2, FewBefore, BootstrapNext
<1>3. ASSUME IInv, BootstrapInv
      PROVE  Cardinality({t \in Tokens : BootstrapKey(keys[t].row)}) <= 1
  <2> DEFINE named == {t \in Tokens : BootstrapKey(keys[t].row)}
  <2>1. \A t \in named : BootstrapKey(keys[t].draft)
    BY <1>3 DEF IInv, SlotOK, OldKeyOK, BootstrapKey, Exists
  <2>2. \A j, k \in named : j = k
    BY <1>3, <2>1 DEF BootstrapInv
  <2> HIDE DEF named
  <2>3. named = {} => Cardinality(named) = 0
    BY FS_EmptySet
  <2>4. ASSUME NEW t \in named PROVE Cardinality(named) = 1
    <3>1. named = {t}
      BY <2>2
    <3> QED
      BY <3>1, FS_Singleton
  <2>5. Cardinality(named) = 0 \/ Cardinality(named) = 1
    BY <2>3, <2>4
  <2> QED
    BY <2>5 DEF named
<1>4. IInv /\ (Few => BootstrapInv) => BootstrapOnce
  BY <1>3 DEF BootstrapOnce, Few
<1>5. Init => (Few => BootstrapInv)
  BY <1>1
<1>6. IInv /\ IInv' /\ (Few => BootstrapInv) /\ [Next]_vars => (Few => BootstrapInv)'
  BY <1>2
<1> QED
  BY <1>4, <1>5, <1>6, SpecInv, PTL DEF Spec
=============================================================================
