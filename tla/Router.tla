-------------------------------- MODULE Router --------------------------------
(***************************************************************************)
(* The routing table of the voice node (src/src/router.rs): which          *)
(* talkgroups and frequencies exist, who is a member of each and over how  *)
(* good a link, who is transmitting, which routes are patched into one     *)
(* channel, and which dispatchers have been refused and may insist.        *)
(*                                                                         *)
(* Every method of Router takes &mut self behind one mutex, so each action *)
(* below is one critical section: a whole method, or the whole control     *)
(* handler that calls several of them under the same lock.  A refusal that *)
(* changes nothing is a stuttering step and has no action.                 *)
(***************************************************************************)
EXTENDS Integers, FiniteSets

CONSTANTS
    Tg,            \* route ids: talkgroups and frequencies share the id space
    Server,        \* the enrolled FXServers
    ConsoleServer, \* server 0, where every dispatch console lives
    Unit,          \* the field units: the players of the enrolled servers
    Console,       \* the dispatch consoles
    ServerOf,      \* the server half of a client's identity
    Session,       \* Mumble sessions, each within the tap of one server
    SessionServer, \* that server
    ClassOf,       \* what `classify` reads off a route id
    Quality,       \* the link qualities reported, a part of 0..100
    PatchTables,   \* the patch tables the platform or a console may install
    Subscriber,    \* the clients whose membership is reported to the node
    None           \* an empty Option

Client == Unit \cup Console

Member == [listen : BOOLEAN, quality : Quality]

\* Three kinds of route, by what keying one that is held means.
Kind == {"P25", "FM", "AM"}

ASSUME RouterAssumption ==
    /\ ConsoleServer \notin Server
    /\ Unit \cap Console = {}
    /\ ServerOf \in [Client -> Server \cup {ConsoleServer}]
    /\ \A c \in Client : c \in Console <=> ServerOf[c] = ConsoleServer
    /\ SessionServer \in [Session -> Server]
    /\ ClassOf \in [Tg -> Kind]
    /\ Quality \subseteq 0..100
    /\ 100 \in Quality
    /\ PatchTables \subseteq SUBSET SUBSET Tg
    /\ {} \in PatchTables
    /\ Subscriber \subseteq Client
    /\ None \notin Client /\ None \notin Session
    /\ None \notin Tg /\ None \notin Quality /\ None \notin Member

VARIABLES
    kind,          \* Tg -> how the route behaves, "closed" when there is none
    keyed,         \* Tg -> the holder
    also,          \* Tg -> those mixed in on top of the holder
    members,       \* Tg -> Client -> [listen, quality] or None
    deferred,      \* Tg -> Client -> a quality parked during a call, or None
    patches,       \* the patch table
    keyed_by,      \* Client -> the route it pressed last
    took,          \* Client -> Tg -> the routes that press took, {} if no press
    pending,       \* <<route, console>>: refused within PREEMPT_WINDOW
    sessionClient, \* Session -> Client
    clientSession  \* Client -> Session

keying   == <<keyed, also, keyed_by, took>>
roster   == <<members, deferred>>
identity == <<sessionClient, clientSession>>
vars     == <<kind, keying, roster, patches, pending, identity>>

Optional(S) == S \cup {None}

TypeOK ==
    /\ kind \in [Tg -> Kind \cup {"closed"}]
    /\ keyed \in [Tg -> Optional(Client)]
    /\ also \in [Tg -> SUBSET Client]
    /\ members \in [Tg -> [Client -> Optional(Member)]]
    /\ deferred \in [Tg -> [Client -> Optional(Quality)]]
    /\ patches \in PatchTables
    /\ keyed_by \in [Client -> Optional(Tg)]
    /\ took \in [Client -> [Tg -> SUBSET Tg]]
    /\ pending \subseteq Tg \X Console
    /\ sessionClient \in [Session -> Optional(Unit)]
    /\ clientSession \in [Client -> Optional(Session)]

Init ==
    /\ kind = [t \in Tg |-> "closed"]
    /\ keyed = [t \in Tg |-> None]
    /\ also = [t \in Tg |-> {}]
    /\ members = [t \in Tg |-> [c \in Client |-> None]]
    /\ deferred = [t \in Tg |-> [c \in Client |-> None]]
    /\ patches = {}
    /\ keyed_by = [c \in Client |-> None]
    /\ took = [c \in Client |-> [t \in Tg |-> {}]]
    /\ pending = {}
    /\ sessionClient = [s \in Session |-> None]
    /\ clientSession = [c \in Client |-> None]

IsConsole(c) == ServerOf[c] = ConsoleServer

-------------------------------------------------------------------------------
(* Patches: the routes joined into one channel.                            *)

\* A set of routes no patch leads out of.
ClosedUnder(table, S) == \A g \in table : g \cap S # {} => g \subseteq S

\* The loop of `joined` computes the least such set around a route.
JoinedIn ==
    [table \in PatchTables |-> [t \in Tg |->
        {u \in Tg : \A S \in SUBSET Tg :
                        t \in S /\ ClosedUnder(table, S) => u \in S}]]

Joined(t) == JoinedIn[patches][t]

\* Whether the channel is clear when `holder` and `doublers` are who transmit.
ClearGiven(holder, doublers, t) ==
    \A u \in Joined(t) : holder[u] = None /\ doublers[u] = {}

IsClear(t) == ClearGiven(keyed, also, t)

Holds(t, c) == keyed[t] = c \/ c \in also[t]

TalkersOn(t) == {c \in Client : Holds(t, c)}

-------------------------------------------------------------------------------
(* Link quality, and the deadband that keeps a listener on one vocoder     *)
(* lane while somebody is talking.                                         *)

DECODE_FLOOR == 5
LANE_STEP    == 5

LaneOf(q) ==
    IF q <= DECODE_FLOOR THEN 0 ELSE ((q + LANE_STEP \div 2) \div LANE_STEP) * LANE_STEP

Muted(q) == q <= DECODE_FLOOR

\* Mutation: silence told from audio by DECODE_FLOOR, not by the muted lanes.
JittersAboveFloor(was, now) ==
    /\ Muted(was) = Muted(now)
    /\ LaneOf(was) - LaneOf(now) \in {LANE_STEP, -LANE_STEP}

\* One lane apart, and neither or both of the lanes silent.
JittersOneLane(was, now) ==
    /\ Muted(LaneOf(was)) = Muted(LaneOf(now))
    /\ LaneOf(was) - LaneOf(now) \in {LANE_STEP, -LANE_STEP}

\* Mutation: a report taken verbatim leaves an older one parked.
ParkedStays(held, quality, before) == IF held THEN quality ELSE before

\* What is parked for a member after a report, `before` being there already.
Parked(held, quality, before) == IF held THEN quality ELSE None

\* set_member for the routes of S and one client: a route is created by
\* whoever names it first, and a jitter on a busy channel is parked.
SetMembers(S, c, listen, quality, was, parked) ==
    LET held(t)   == /\ was[t][c] # None
                     /\ ~IsClear(t)
                     /\ JittersOneLane(was[t][c].quality, quality)
        served(t) == IF held(t) THEN was[t][c].quality ELSE quality
    IN  /\ kind' = [t \in Tg |-> IF t \in S /\ kind[t] = "closed"
                                 THEN ClassOf[t] ELSE kind[t]]
        /\ members' = [t \in Tg |->
              IF t \in S
              THEN [was[t] EXCEPT ![c] = [listen |-> listen, quality |-> served(t)]]
              ELSE was[t]]
        /\ deferred' = [t \in Tg |->
              IF t \in S
              THEN [parked[t] EXCEPT ![c] = Parked(held(t), quality, @)]
              ELSE parked[t]]

\* `tg.member`, and one entry of a `tg.members` batch.
SetMember(t, c, listen, quality) ==
    /\ SetMembers({t}, c, listen, quality, members, deferred)
    /\ UNCHANGED <<keying, patches, pending, identity>>

\* A function of routes and clients with the clients of C taken out.
Without(f, C) == [t \in Tg |-> [c \in Client |-> IF c \in C THEN None ELSE f[t][c]]]

\* `console.update`: forget the board, keep the key, subscribe to board S at
\* full quieting.  An attaching console does the same from an empty board.
ConsoleUpdate(c, S) ==
    /\ SetMembers(S, c, TRUE, 100, Without(members, {c}), Without(deferred, {c}))
    /\ UNCHANGED <<keying, patches, pending, identity>>

\* Applies what was parked on the routes of S, and forgets it.
DrainDeferred(S) ==
    /\ members' = [t \in Tg |-> [c \in Client |->
          IF t \in S /\ members[t][c] # None /\ deferred[t][c] # None
          THEN [members[t][c] EXCEPT !.quality = deferred[t][c]]
          ELSE members[t][c]]]
    /\ deferred' = [t \in Tg |-> [c \in Client |->
          IF t \in S THEN None ELSE deferred[t][c]]]

-------------------------------------------------------------------------------
(* Routes.                                                                 *)

\* `tg.open`: a trunked route.  An existing route keeps its kind.
Open(t) ==
    /\ ClassOf[t] = "P25"
    /\ kind' = [kind EXCEPT ![t] = IF @ = "closed" THEN "P25" ELSE @]
    /\ UNCHANGED <<keying, roster, patches, pending, identity>>

\* `conv.open`: a frequency, whose modulation the FXServer may refine.
OpenConventional(t, am) ==
    /\ ClassOf[t] # "P25"
    /\ kind' = [kind EXCEPT ![t] = IF am THEN "AM" ELSE "FM"]
    /\ UNCHANGED <<keying, roster, patches, pending, identity>>

\* `tg.close` removes the Route and everything in it, and nothing else.
Close(t) ==
    /\ kind' = [kind EXCEPT ![t] = "closed"]
    /\ keyed' = [keyed EXCEPT ![t] = None]
    /\ also' = [also EXCEPT ![t] = {}]
    /\ members' = [members EXCEPT ![t] = [c \in Client |-> None]]
    /\ deferred' = [deferred EXCEPT ![t] = [c \in Client |-> None]]
    /\ UNCHANGED <<patches, keyed_by, took, pending, identity>>

\* `patches.set` and the platform poll: replaced whole, whatever is keyed.
SetPatches(table) ==
    /\ patches' = table
    /\ UNCHANGED <<kind, keying, roster, pending, identity>>

-------------------------------------------------------------------------------
(* Keying.                                                                 *)

\* Mutation: anybody may insist, against anybody.
ContestedByAnyone(c, holder, armed) == IF armed THEN "Preempted" ELSE "Busy"

\* A talkgroup somebody else holds: dispatch preempts a unit, and only when it
\* was refused there within the window (`armed`).
Contested(c, holder, armed) ==
    IF IsConsole(c) /\ ~IsConsole(holder)
    THEN IF armed THEN "Preempted" ELSE "Busy"
    ELSE "Refused"

\* A frequency somebody else holds: AM does not capture, FM does.
OnFrequency(t) == IF kind[t] = "AM" THEN "Mixed" ELSE "Doubled"

\* key_one: what one route answers client c when `holder` has it.
Verdict(t, c, holder, armed) ==
    CASE kind[t] = "closed"    -> "NoRoute"
      [] kind[t] \in Kind /\ holder \in {c, None}            -> "Granted"
      [] kind[t] \in {"AM", "FM"} /\ holder \notin {c, None} -> OnFrequency(t)
      [] kind[t] = "P25" /\ holder \notin {c, None}          ->
            Contested(c, holder, armed)

\* What the operator is told of a press.
Outcome(t, c) == Verdict(t, c, keyed[t], <<t, c>> \in pending)

Accepted == {"Granted", "Mixed", "Doubled", "Preempted"}

\* The first press on a channel a unit has: refused, and remembered.
KeyBusy(t, c) ==
    /\ Outcome(t, c) = "Busy"
    /\ pending' = pending \cup {<<t, c>>}
    /\ UNCHANGED <<kind, keying, roster, patches, identity>>

\* Mutation: a preemption hands over the pressed route alone.
InheritedNone(u, t, c) == keyed[u]

\* Who has route u once a press on t that preempts its holder has handed over
\* the siblings that holder had: the two-press bar was cleared for the channel.
Inherited(u, t, c) ==
    IF Outcome(t, c) = "Preempted" /\ keyed[u] = keyed[t] THEN c ELSE keyed[u]

\* An accepted press takes the pressed route and, best effort, every route
\* joined to it: each is keyed for itself, and what a sibling answers is
\* discarded.
Key(t, c) ==
    LET group       == Joined(t)
        preempts    == Outcome(t, c) = "Preempted"
        armed(u)    == <<u, c>> \in pending /\ ~(preempts /\ u # t)
        verdict(u)  == IF u = t THEN Outcome(t, c)
                       ELSE Verdict(u, c, Inherited(u, t, c), armed(u))
        left(u)     == IF preempts /\ u # t THEN also[u] \ {keyed[t]} ELSE also[u]
        routes(V)   == {u \in group : verdict(u) \in V}
        spent       == {u \in group : preempts \/ verdict(u) = "Preempted"}
    IN  /\ Outcome(t, c) \in Accepted
        /\ keyed' = [u \in Tg |->
              IF u \in routes({"Granted", "Preempted"}) THEN c ELSE keyed[u]]
        /\ also' = [u \in Tg |->
              IF u \in group
              THEN left(u) \cup (IF verdict(u) = "Mixed" THEN {c} ELSE {})
              ELSE also[u]]
        /\ pending' = (pending \ (spent \X {c})) \cup (routes({"Busy"}) \X {c})
        /\ took' = [took EXCEPT ![c][t] = group]
        /\ keyed_by' = [keyed_by EXCEPT ![c] = t]
        /\ UNCHANGED <<kind, roster, patches, identity>>

\* PREEMPT_WINDOW passes: a refusal no longer entitles to insist.
WindowElapses(t, c) ==
    /\ <<t, c>> \in pending
    /\ pending' = pending \ {<<t, c>>}
    /\ UNCHANGED <<kind, keying, roster, patches, identity>>

\* The clients of C give up whatever they hold among the routes of S.
GiveUp(C, S) ==
    /\ keyed' = [t \in Tg |-> IF t \in S /\ keyed[t] \in C THEN None ELSE keyed[t]]
    /\ also' = [t \in Tg |-> IF t \in S THEN also[t] \ C ELSE also[t]]

\* Mutation: a release gives back what is joined now.
MineJoined(t, c) == Joined(t)

\* What a release gives back: what the press took, not what is joined now.
Mine(t, c) == IF took[c][t] # {} THEN took[c][t] ELSE Joined(t)

\* Mutation: drained without asking whether the channel has gone clear.
DrainedAnyway(t, c, holder, doublers) == UNION {Joined(u) : u \in Mine(t, c)}

\* Mutation: only the pressed route drained.
DrainedPressed(t, c, holder, doublers) ==
    IF ClearGiven(holder, doublers, t) THEN {t} ELSE {}

\* The routes a release drains: every route of every channel it leaves clear.
Drained(t, c, holder, doublers) ==
    UNION {Joined(u) : u \in {v \in Mine(t, c) : ClearGiven(holder, doublers, v)}}

UnkeyAs(t, c) ==
    /\ GiveUp({c}, Mine(t, c))
    /\ keyed_by' = [keyed_by EXCEPT ![c] = None]
    /\ took' = [took EXCEPT ![c][t] = {}]
    /\ DrainDeferred(Drained(t, c, keyed', also'))
    /\ UNCHANGED <<kind, patches, pending, identity>>

\* An unkey that names no client empties the one route.
Unkey(t) ==
    /\ GiveUp(Client, {t})
    /\ DrainDeferred(IF ClearGiven(keyed', also', t) THEN Joined(t) ELSE {})
    /\ UNCHANGED <<kind, keyed_by, took, patches, pending, identity>>

-------------------------------------------------------------------------------
(* Identities coming and going.                                            *)

\* The records of the presses of C.
ForgetPresses(C) ==
    /\ keyed_by' = [c \in Client |-> IF c \in C THEN None ELSE keyed_by[c]]
    /\ took' = [c \in Client |-> IF c \in C THEN [t \in Tg |-> {}] ELSE took[c]]

\* A USER_STATE that carries a name.  A session keeps the name it came with.
Bind(s, c) ==
    /\ ServerOf[c] = SessionServer[s]
    /\ sessionClient[s] \in {None, c}
    /\ sessionClient' = [sessionClient EXCEPT ![s] = c]
    /\ clientSession' = [clientSession EXCEPT ![c] = s]
    /\ UNCHANGED <<kind, keying, roster, patches, pending>>

\* A USER_REMOVE.  What was parked for the client stays parked.
Unbind(s) ==
    LET c == sessionClient[s]
    IN  /\ c # None
        /\ sessionClient' = [sessionClient EXCEPT ![s] = None]
        /\ clientSession' = [clientSession EXCEPT ![c] = None]
        /\ members' = Without(members, {c})
        /\ GiveUp({c}, Tg)
        /\ ForgetPresses({c})
        /\ UNCHANGED <<kind, deferred, patches, pending>>

\* A tap disconnects: everything belonging to its server goes.
DropServer(server) ==
    LET gone == {c \in Client : ServerOf[c] = server}
    IN  /\ sessionClient' = [s \in Session |->
              IF SessionServer[s] = server THEN None ELSE sessionClient[s]]
        /\ clientSession' = [c \in Client |->
              IF c \in gone THEN None ELSE clientSession[c]]
        /\ members' = Without(members, gone)
        /\ GiveUp(gone, Tg)
        /\ ForgetPresses(gone)
        /\ UNCHANGED <<kind, deferred, patches, pending>>

\* `console.detach`.
ForgetClient(c) ==
    /\ members' = Without(members, {c})
    /\ deferred' = Without(deferred, {c})
    /\ GiveUp({c}, Tg)
    /\ ForgetPresses({c})
    /\ UNCHANGED <<kind, patches, pending, identity>>

-------------------------------------------------------------------------------
\* The operations by what they do to a call in progress.

Press == \E t \in Tg, c \in Client : Key(t, c)

Refuse == \E t \in Tg, c \in Client : KeyBusy(t, c)

Release == \E t \in Tg, c \in Client : UnkeyAs(t, c)

Talk == Press \/ Refuse \/ Release

Teardown == \E t \in Tg : Unkey(t)

Subscribe ==
    \/ \E t \in Tg, c \in Unit \cap Subscriber, l \in BOOLEAN, q \in Quality :
          SetMember(t, c, l, q)
    \/ \E c \in Console \cap Subscriber, S \in SUBSET Tg : ConsoleUpdate(c, S)

Plan ==
    \/ \E t \in Tg : Open(t) \/ Close(t)
    \/ \E t \in Tg, am \in BOOLEAN : OpenConventional(t, am)
    \/ \E table \in PatchTables : SetPatches(table)

Arrive == \E s \in Session, c \in Unit : Bind(s, c)

Leave ==
    \/ \E s \in Session : Unbind(s)
    \/ \E server \in Server : DropServer(server)
    \/ \E c \in Console : ForgetClient(c)

Clock == \E t \in Tg, c \in Console : WindowElapses(t, c)

Next == Talk \/ Teardown \/ Subscribe \/ Plan \/ Arrive \/ Leave \/ Clock

Spec == Init /\ [][Next]_vars

-------------------------------------------------------------------------------
(* What the router promises whatever is asked of it.                       *)

\* The floor of each route changes hands only as the abstract grant protocol
\* allows: a free route may be taken, anybody may be cleared off, and the one
\* direct hand-over is dispatch taking a route from a unit (invariant 2 and
\* the comment on preemption in key_one).
Grant == INSTANCE Grant WITH Route <- Tg, Dispatcher <- Console, holder <- keyed

GrantSpec == Grant!Spec

\* While a channel stays busy nobody listening on it is moved to the lane next
\* to theirs: releases of other talkers, unkeys, and reports of a wandering
\* link all leave the vocoder chain alone (Route::deferred).
LaneHoldsMidCall ==
    [][\A t \in Tg, c \in Client :
          ~IsClear(t) /\ ~IsClear(t)' /\ members[t][c] # None /\ members'[t][c] # None
          => ~JittersOneLane(members[t][c].quality, members'[t][c].quality)]_vars
===============================================================================
