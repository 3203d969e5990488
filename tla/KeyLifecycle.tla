---------------------------- MODULE KeyLifecycle ----------------------------
(***************************************************************************)
(* What the table of API keys promises to those who hold a key: nobody     *)
(* makes two keys, a key has for good the rights it was made with, and it  *)
(* can be revoked once, at an instant that nothing changes.                *)
(***************************************************************************)
CONSTANTS
    Tokens,     \* keys that exist or may be made
    Rights,     \* what a key may be allowed to do
    Instants,   \* when it may be revoked
    Makers,     \* who may make a key
    NoRow, Never

VARIABLE
    life        \* what each token stands for, NoRow if nothing

Lives == [rights : Rights, revoked : Instants \cup {Never}, by : Makers]

LifeInit == life \in [Tokens -> Lives \cup {NoRow}]

Make(t) ==
    /\ life[t] = NoRow
    /\ life'[t] \in [rights : Rights, revoked : {Never}, by : Makers]
    /\ \A u \in Tokens : life[u] # NoRow => life[u].by # life'[t].by

Revoke(t) ==
    /\ life[t] # NoRow /\ life[t].revoked = Never
    /\ \E instant \in Instants : life'[t] = [life[t] EXCEPT !.revoked = instant]

(* One key at a time, and the others stay as they are.                      *)
LifeNext ==
    \E t \in Tokens :
        /\ Make(t) \/ Revoke(t)
        /\ life' = [life EXCEPT ![t] = life'[t]]

LifeSpec == LifeInit /\ [][LifeNext]_life
=============================================================================
