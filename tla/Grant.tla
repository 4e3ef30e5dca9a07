--------------------------------- MODULE Grant ---------------------------------
(***************************************************************************)
(* What the router promises about the floor of every route, without        *)
(* presses, patches or refusals: a client may take routes that are free,   *)
(* a dispatcher may also take routes from field units, and routes may be   *)
(* cleared.  Nothing else ever moves a holder.                             *)
(***************************************************************************)
CONSTANTS Route, Client, Dispatcher, None

VARIABLE holder

Init == holder = [t \in Route |-> None]

\* One client takes the routes of S, all in one step.
Take(c, S) ==
    /\ \A t \in S : \/ holder[t] = None
                    \/ c \in Dispatcher /\ holder[t] \notin Dispatcher
    /\ holder' = [t \in Route |-> IF t \in S THEN c ELSE holder[t]]

Clear(S) == holder' = [t \in Route |-> IF t \in S THEN None ELSE holder[t]]

Next ==
    \/ \E c \in Client, S \in SUBSET Route : Take(c, S)
    \/ \E S \in SUBSET Route : Clear(S)

Spec == Init /\ [][Next]_holder
===============================================================================
