----------------------------- MODULE RouterSteady -----------------------------
(***************************************************************************)
(* The router under disciplines its surroundings usually keep, and what it *)
(* then guarantees that it does not guarantee otherwise.                   *)
(***************************************************************************)
EXTENDS Router

\* No press is on record: every button is up.
ButtonsUp == \A c \in Client, t \in Tg : took[c][t] = {}

\* Routes and patches change only between calls, and no unkey comes without
\* the name of its client.  Clients still come, go and press as they like.
SteadyNext ==
    \/ Talk \/ Arrive \/ Leave \/ Clock
    \/ (Subscribe \/ Plan) /\ (ButtonsUp \/ UNCHANGED <<kind, patches>>)

SteadySpec == Init /\ [][SteadyNext]_vars

\* The same, but a talkgroup may be opened while a call is up.
LateOpenSpec == Init /\ [][SteadyNext \/ \E t \in Tg : Open(t)]_vars

\* Anything may happen at any time, patches made and torn down mid-call
\* included, except that nobody presses a route twice without letting go.
PressOnceNext ==
    \/ \E t \in Tg, c \in Client : took[c][t] = {} /\ Key(t, c)
    \/ Refuse \/ Release \/ Teardown \/ Subscribe \/ Plan \/ Arrive \/ Leave \/ Clock

PressOnceSpec == Init /\ [][PressOnceNext]_vars

\* The talkgroups of a channel none of whose routes is conventional.
Digital(t) == \A u \in Joined(t) : kind[u] \in {"P25", "closed"}

\* Digital does not double, not on a talkgroup and not across a patch: all the
\* routes of a digital channel have at most one talker between them (the
\* comment in key_at: "what everybody involved is hearing as a single channel").
OneTalkerPerChannel ==
    \A t \in Tg : Digital(t) =>
        Cardinality(UNION {TalkersOn(u) : u \in Joined(t)}) <= 1

\* Whatever a client holds was taken by a press that is still on record, so
\* the release of that press gives it back: nobody is keyed for ever (the
\* comment on `took`).
HeldByPress ==
    \A t \in Tg, c \in Client : Holds(t, c) => \E u \in Tg : t \in took[c][u]

\* The holder of a route is not also mixed in on top of it ("everybody else
\* transmitting", the comment on Route::also).
HolderIsNotAlso == \A t \in Tg : keyed[t] \notin also[t]

\* An accepted press entitles nobody to cut a unit off: only a press that was
\* refused does, so no unit is preempted by a first press.
ArmedOnlyByRefusal ==
    [][\A t \in Tg, c \in Console : Key(t, c) => pending' \subseteq pending]_vars
===============================================================================
