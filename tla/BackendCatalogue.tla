-------------------------- MODULE BackendCatalogue --------------------------
(***************************************************************************)
(* What the registry promises to those who read it: the backends of a      *)
(* request appear together and active, under names that nobody has, and    *)
(* stay; then one backend at a time changes, in its address or in its      *)
(* state, and never in its name.                                           *)
(***************************************************************************)
CONSTANTS
    Ids, Names, Urls, States,
    Makers,     \* who may register backends, each of them once
    NoRow

VARIABLE
    catalogue   \* the backend of each id, NoRow if none

Backends == [name : Names, url : Urls, state : States, by : Makers]

CatalogueInit == catalogue \in [Ids -> Backends \cup {NoRow}]

Register(new, maker) ==
    /\ \A k \in Ids : catalogue[k] # NoRow => catalogue[k].by # maker
    /\ \A k \in new :
          /\ catalogue[k] = NoRow
          /\ catalogue'[k] \in [name : Names, url : Urls, state : {"active"}, by : {maker}]
          /\ \A j \in Ids \ {k} :
                catalogue'[j] # NoRow => catalogue'[j].name # catalogue'[k].name

Modify(k) ==
    /\ catalogue[k] # NoRow
    /\ \/ \E url \in Urls : catalogue'[k] = [catalogue[k] EXCEPT !.url = url]
       \/ \E state \in States : catalogue'[k] = [catalogue[k] EXCEPT !.state = state]

(* Some backends change, and the others stay as they are.                   *)
CatalogueNext ==
    LET changed == {k \in Ids : catalogue'[k] # catalogue[k]}
    IN  /\ \/ changed # {} /\ \E maker \in Makers : Register(changed, maker)
           \/ \E k \in changed : changed = {k} /\ Modify(k)
        /\ catalogue' = [k \in Ids |-> catalogue'[k]]

CatalogueSpec == CatalogueInit /\ [][CatalogueNext]_catalogue
=============================================================================
