------------------------------ MODULE Allocator ------------------------------
(***************************************************************************)
(* What both execution modes promise of the tasks they hand out, whoever   *)
(* is in the middle of what: a task is handed to one holder, out of those  *)
(* that wait, and while there is room for it.  How much room a holder has  *)
(* is a setting and may change at any time, also below what it holds.  A   *)
(* task joins, leaves and comes back as users, ends and faults have it,    *)
(* but it passes from one holder to another only by waiting again.         *)
(*                                                                         *)
(* The holders are the devices in LOCAL_CLI mode (see LocalServer) and the *)
(* user's worker in API_KEY mode (see ApiMode).                            *)
(***************************************************************************)
EXTENDS Naturals, FiniteSets

CONSTANTS
    Clients,    \* what is handed out
    Holders,    \* to whom
    Nobody

VARIABLES
    waiting,    \* those that may be handed out
    holder,     \* holder[t]: who has t, or Nobody
    room        \* how many a holder has room for just now

allocVars == <<waiting, holder>>

HeldBy(h) == {t \in Clients : holder[t] = h}

AllocInit ==
    /\ waiting = {}
    /\ holder = [t \in Clients |-> Nobody]

Grant(t, h) ==
    /\ t \in waiting /\ holder[t] = Nobody
    /\ Cardinality(HeldBy(h)) < room
    /\ waiting' = waiting \ {t}
    /\ holder'  = [holder EXCEPT ![t] = h]

(* Some are taken from whoever has them; these may wait (again) or not.    *)
Return(ts) ==
    /\ holder'  = [t \in Clients |-> IF t \in ts THEN Nobody ELSE holder[t]]
    /\ waiting' \ ts = waiting \ ts

AllocNext ==
    \/ \E ts \in SUBSET Clients : Return(ts)
    \/ \E t \in Clients, h \in Holders : Grant(t, h)

AllocSpec == AllocInit /\ [][AllocNext]_allocVars
=============================================================================
