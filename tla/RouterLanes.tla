----------------------------- MODULE RouterLanes -----------------------------
(***************************************************************************)
(* The router with a history variable: the last link quality the node was  *)
(* told for every member.  It relates what a listener is rendered with to  *)
(* what is known of their link, the subject of Route::deferred,            *)
(* jitters_one_lane and drain_deferred.                                    *)
(***************************************************************************)
EXTENDS Router

VARIABLE told  \* Tg -> Client -> the quality last reported for a member

lanevars == <<vars, told>>

Hears(S, c, quality) ==
    told' = [t \in Tg |-> [d \in Client |->
        IF members'[t][d] = None THEN None
        ELSE IF t \in S /\ d = c THEN quality ELSE told[t][d]]]

Unheard == Hears({}, None, None)

Reported ==
    \/ \E t \in Tg, c \in Unit \cap Subscriber, q \in Quality :
          SetMember(t, c, TRUE, q) /\ Hears({t}, c, q)
    \/ \E c \in Console \cap Subscriber, S \in SUBSET Tg :
          ConsoleUpdate(c, S) /\ Hears(S, c, 100)

Other == Talk \/ Plan \/ Arrive \/ Leave \/ Clock

LanesInit == Init /\ told = [t \in Tg |-> [c \in Client |-> None]]

\* The router as it is.
LanesNext == Reported \/ ((Other \/ Teardown) /\ Unheard)

LanesSpec == LanesInit /\ [][LanesNext]_lanevars

\* What the node knows of a member's link.
Known(t, c) ==
    IF deferred[t][c] # None THEN deferred[t][c] ELSE members[t][c].quality

\* Nothing that was told is lost or overruled by something older: a member's
\* quality is the last one told, in force or parked.
NothingToldIsLost ==
    \A t \in Tg, c \in Client : members[t][c] # None => Known(t, c) = told[t][c]

\* The hysteresis costs at most one lane, and never holds silence back: a
\* member is rendered at what was last told or one lane beside it.
OneLaneBehind ==
    \A t \in Tg, c \in Client : members[t][c] # None =>
        \/ members[t][c].quality = told[t][c]
        \/ LET served == LaneOf(members[t][c].quality)
               known  == LaneOf(told[t][c])
           IN  Muted(served) = Muted(known) /\ served - known \in -LANE_STEP..LANE_STEP

\* A release that makes a channel clear, and an unkey that names nobody, leave
\* every listener of the channel at exactly what was last told, on all the
\* routes joined to it ("the next transmission starts on exactly lane_of of the
\* last quality the node was told", the comment on drain_deferred).
ReleaseCatchesUp ==
    [][\A t \in Tg, c \in Client :
          /\ ~IsClear(t) /\ IsClear(t)'
          /\ members'[t][c] # None /\ members'[t][c].quality # told'[t][c]
          => ~(Release \/ Teardown)]_lanevars

\* Between calls the hysteresis costs nothing: on a clear channel every member
\* is rendered at exactly what was last told ("applied when the channel goes
\* clear", the comment on Route::deferred).
ClearIsCurrent ==
    \A t \in Tg, c \in Client :
        IsClear(t) /\ members[t][c] # None => members[t][c].quality = told[t][c]
===============================================================================
