---------------------------- MODULE RequestLedger ----------------------------
(***************************************************************************)
(* What the request log promises to those who read it: an entry appears    *)
(* complete, with its routing decision if it has one, and disappears as a  *)
(* whole, and only when it had finished before the cutoff of a purge.      *)
(***************************************************************************)
EXTENDS Integers

CONSTANTS
    LogIds,     \* request ids
    Times,      \* instants
    Writers,    \* who may write an entry, each of them once
    Absent

VARIABLE
    ledger      \* the entry each id has, Absent if none

Entries == [finished : Times, by : Writers, decided : BOOLEAN]

LedgerInit == ledger \in [LogIds -> Entries \cup {Absent}]

Record(id, e) ==
    /\ ledger[id] = Absent
    /\ ledger' = [ledger EXCEPT ![id] = e]

Purge(cutoff, ids) ==
    /\ \A id \in ids : ledger[id] # Absent /\ ledger[id].finished < cutoff
    /\ ledger' = [id \in LogIds |-> IF id \in ids THEN Absent ELSE ledger[id]]

LedgerNext ==
    \/ \E id \in LogIds, e \in Entries : Record(id, e)
    \/ \E cutoff \in Times, ids \in SUBSET LogIds : Purge(cutoff, ids)

LedgerSpec == LedgerInit /\ [][LedgerNext]_ledger
=============================================================================
