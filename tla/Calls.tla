-------------------------------- MODULE Calls ---------------------------------
(***************************************************************************)
(* Calls as the consoles see them and as the recorder keeps them: the      *)
(* router composed with the two planes that key it.  A unit is keyed by    *)
(* its FXServer, one control request that announces and records under the  *)
(* router's lock (src/src/control.rs).  A console keys over its socket,    *)
(* whose task lets go of the router before it takes the streams and then   *)
(* the recorder (src/src/stream.rs), so what it tells and records may have *)
(* been overtaken.                                                         *)
(*                                                                         *)
(* Every route is open and the patches stay as they are: their changes are *)
(* the subject of Router.                                                  *)
(***************************************************************************)
EXTENDS Router

CONSTANTS
    Boards,        \* Console -> the boards it may have
    FirstOf(_, _)  \* the first of a set of routes in the order joined(t) lists
                   \* them: t, then by the order of the patch table

ASSUME CallsAssumption ==
    /\ Tg \subseteq Nat
    /\ Boards \in [Console -> SUBSET SUBSET Tg]
    /\ \A t \in Tg, S \in SUBSET Tg :
          S # {} => FirstOf(t, S) \in S /\ (t \in S => FirstOf(t, S) = t)

VARIABLES
    online,    \* the consoles whose socket is up
    down,      \* Client -> the route whose button is held down
    recording, \* Active::open: the routes whose call is being written
    lit,       \* Console -> the modules its page shows busy
    step,      \* Console -> what its socket's task has still to do
    astray     \* the routes on which the code has missed an announcement or
               \* an end, until they are quiet again (history)

plane    == <<online, down, recording, lit, step, astray>>
callvars == <<vars, plane>>

NoStep == [do |-> "nothing"]

CallsInit ==
    /\ kind = ClassOf
    /\ keyed = [t \in Tg |-> None]
    /\ also = [t \in Tg |-> {}]
    /\ \E board \in [Console -> SUBSET Tg] :
          /\ \A c \in Console : board[c] \in Boards[c]
          /\ members = [t \in Tg |-> [c \in Client |->
                IF c \in Console /\ t \in board[c]
                THEN [listen |-> TRUE, quality |-> 100] ELSE None]]
    /\ deferred = [t \in Tg |-> [c \in Client |-> None]]
    /\ patches \in PatchTables
    /\ keyed_by = [c \in Client |-> None]
    /\ took = [c \in Client |-> [t \in Tg |-> {}]]
    /\ pending = {}
    /\ sessionClient = [s \in Session |-> None]
    /\ clientSession = [c \in Client |-> None]
    /\ online = Console
    /\ down = [c \in Client |-> None]
    /\ recording = {}
    /\ lit = [c \in Console |-> {}]
    /\ step = [c \in Console |-> NoStep]
    /\ astray = {}

-------------------------------------------------------------------------------
(* Telling.                                                                *)

\* listeners_of, the consoles among them.
Watches(c, t) == c \in Console /\ members[t][c] # None

\* Mutation: the call is announced on the route that was keyed.
ToldOnKeyed(c, t) == {u \in {t} : Watches(c, u)}

\* `told`: each console hears of a call once, on the first route of the channel
\* that it watches.
ToldOn(c, t) ==
    LET watched == {u \in Joined(t) : Watches(c, u)}
    IN  IF watched = {} THEN {} ELSE {FirstOf(t, watched)}

\* announce_call: every console on the channel.
AnnounceAcross(t, on) ==
    lit' = [c \in Console |->
        LET told == IF c \in online THEN ToldOn(c, t) ELSE {}
        IN  IF on THEN lit[c] \cup told ELSE lit[c] \ told]

\* consoles_on: the consoles on one route.
ConsolesOn(t) == {c \in Console : Watches(c, t)}

\* The socket tells the consoles that were on the route when it was pressed or
\* released, and itself.  A page with no such module on its board ignores it.
AnnounceOn(t, on, watching, self) ==
    lit' = [c \in Console |->
        IF c \in online /\ c \in watching \cup {self} /\ (Watches(c, t) \/ ~on)
        THEN IF on THEN lit[c] \cup {t} ELSE lit[c] \ {t}
        ELSE lit[c]]

\* The rest of the channel: calls are told and recorded route by route.
Rest(t) == Joined(t) \ {t}

\* What is astray stays so until nobody talks on its channel, nothing is
\* recorded and no module is lit there.
GoneAstray(S) ==
    astray' = {t \in astray \cup S :
                  \/ ~ClearGiven(keyed', also', t)
                  \/ t \in recording' \/ \E c \in Console : t \in lit'[c]}

-------------------------------------------------------------------------------
(* A unit, through the control API: one critical section.                  *)

\* Router::key, refusals included.
Pressed(t, c) ==
    \/ Key(t, c)
    \/ KeyBusy(t, c)
    \/ Outcome(t, c) \in {"Refused", "NoRoute"} /\ UNCHANGED vars

\* The outcomes a unit's press announces and records.
StartsCall == {"Granted", "Preempted"}

ApiKey(t, c) ==
    /\ down[c] = None
    /\ Pressed(t, c)
    /\ down' = [down EXCEPT ![c] = t]
    /\ IF Outcome(t, c) \in StartsCall
       THEN AnnounceAcross(t, TRUE) /\ recording' = recording \cup {t}
       ELSE UNCHANGED <<lit, recording>>
    /\ GoneAstray({})
    /\ UNCHANGED <<online, step>>

\* Mutation: the call is over whenever somebody lets go.
OverAnyway(t) == TRUE

\* Mutation: the recording is over only if this release released something.
OverIfReleased(t) == keyed'[t] = None /\ also'[t] = {} /\ TalkersOn(t) # {}

\* Nobody transmits on the route any more: its recording is over.
RecordingOver(t) == keyed'[t] = None /\ also'[t] = {}

\* Mutation: the call is over only if this release released something.
CallOverIfReleased(t) == ClearGiven(keyed', also', t) /\ ~IsClear(t)

\* Mutation: who is mixed in on top of the holder is not waited for.
CallOverUnlessHeld(t) == \A u \in Joined(t) : keyed'[u] = None

\* Nobody transmits on anything patched to it either: the call is over.
CallOver(t) == ClearGiven(keyed', also', t)

\* A release ends the recording of its own route only: those a call began on
\* other routes of the channel, with no unit left to release them, stay open.
Orphaned(t) ==
    {u \in Rest(t) : RecordingOver(u) /\ \A c \in Unit : down'[c] # u}

\* The modules of the channel that an end told on one route leaves lit: a call
\* that began on another lit another module of a console that watches both.
LeftLit(t) == {u \in Joined(t) : \E c \in Console : u \in lit'[c]}

ApiUnkey(t, c) ==
    /\ down[c] = t
    /\ UnkeyAs(t, c)
    /\ down' = [down EXCEPT ![c] = None]
    /\ recording' = IF RecordingOver(t) THEN recording \ {t} ELSE recording
    /\ IF CallOver(t) THEN AnnounceAcross(t, FALSE) ELSE UNCHANGED lit
    /\ GoneAstray(Orphaned(t) \cup (IF CallOver(t) THEN LeftLit(t) ELSE {}))
    /\ UNCHANGED <<online, step>>

\* A tap disconnects: nobody is told, and the button is still down.
TapDrops(server) ==
    /\ DropServer(server)
    /\ UNCHANGED <<online, down, recording, lit, step>>
    /\ GoneAstray({})

-------------------------------------------------------------------------------
(* A console, over its socket: the router first, the rest afterwards.      *)

\* TX_KEY under the router's lock.
TxKey(t, c) ==
    /\ step[c] = NoStep
    /\ down[c] = None
    /\ c \in online
    /\ Watches(c, t)
    /\ Pressed(t, c)
    /\ down' = [down EXCEPT ![c] = t]
    /\ step' = [step EXCEPT ![c] =
          IF Outcome(t, c) \in Accepted
          THEN [do |-> "begin", tg |-> t, watching |-> ConsolesOn(t)] ELSE NoStep]
    /\ UNCHANGED <<online, recording, lit>>
    /\ GoneAstray({})

\* A console's press is told on its own route: the far sides of a patch that a
\* page watches and shows nothing of.
FarSide(t) ==
    {u \in Rest(t) : \E d \in online : Watches(d, u) /\ lit'[d] \cap Joined(t) = {}}

\* The streams lock, the recorder's within it.  The grant may be gone by now.
TxKeyTold(c) ==
    LET t == step[c].tg
    IN  /\ step[c].do = "begin"
        /\ recording' = recording \cup {t}
        /\ AnnounceOn(t, TRUE, step[c].watching, c)
        /\ step' = [step EXCEPT ![c] = NoStep]
        /\ UNCHANGED <<vars, online, down>>
        /\ GoneAstray(IF Holds(t, c) THEN FarSide(t) ELSE Joined(t))

\* TX_UNKEY: release_key, under the router's lock.
TxUnkey(t, c) ==
    /\ step[c] = NoStep
    /\ down[c] = t
    /\ UnkeyAs(t, c)
    /\ down' = [down EXCEPT ![c] = None]
    /\ step' = [step EXCEPT ![c] =
          IF CallOver(t) THEN [do |-> "dark", tg |-> t, watching |-> ConsolesOn(t)]
          ELSE IF RecordingOver(t) THEN [do |-> "end", tg |-> t] ELSE NoStep]
    /\ UNCHANGED <<online, recording, lit>>
    /\ GoneAstray(IF CallOver(t) THEN Rest(t) ELSE Orphaned(t))

\* The streams lock: the call is over, whoever has keyed the channel since.
TxUnkeyTold(c) ==
    LET t == step[c].tg
    IN  /\ step[c].do = "dark"
        /\ AnnounceOn(t, FALSE, step[c].watching, c)
        /\ step' = [step EXCEPT ![c] = [do |-> "end", tg |-> t]]
        /\ UNCHANGED <<vars, online, down, recording>>
        /\ GoneAstray(IF IsClear(t) THEN {} ELSE Joined(t))

\* The recorder's lock: the recording is over, whoever talks by now.
TxRecordingEnds(c) ==
    LET t == step[c].tg
    IN  /\ step[c].do = "end"
        /\ recording' = recording \ {t}
        /\ step' = [step EXCEPT ![c] = NoStep]
        /\ UNCHANGED <<vars, online, down, lit>>
        /\ GoneAstray(IF TalkersOn(t) = {} THEN {} ELSE Joined(t))

\* destination_of: the route pressed last if it is still held, else the least.
Destination(c) ==
    LET held == {t \in Tg : Holds(t, c)}
    IN  IF keyed_by[c] \in held THEN keyed_by[c]
        ELSE CHOOSE t \in held : \A u \in held : t <= u

\* The socket goes: release_on_drop, if its console talks.  One press is
\* released, its recording is ended, and nobody is told.
SocketDrops(c) ==
    /\ step[c] = NoStep
    /\ c \in online
    /\ online' = online \ {c}
    /\ lit' = [lit EXCEPT ![c] = {}]
    /\ down' = [down EXCEPT ![c] = None]
    /\ UNCHANGED recording
    /\ IF \E t \in Tg : Holds(t, c)
       THEN LET t == Destination(c)
            IN  /\ UnkeyAs(t, c)
                /\ step' = [step EXCEPT ![c] =
                      IF RecordingOver(t) THEN [do |-> "end", tg |-> t] ELSE NoStep]
                /\ GoneAstray(Joined(t))
       ELSE UNCHANGED <<vars, step>> /\ GoneAstray({})

\* `console.detach`: the position is gone, and its sink with it.
Detach(c) ==
    /\ c \in online \/ \E t \in Tg : Watches(c, t)
    /\ ForgetClient(c)
    /\ online' = online \ {c}
    /\ lit' = [lit EXCEPT ![c] = {}]
    /\ down' = [down EXCEPT ![c] = None]
    /\ UNCHANGED <<recording, step>>
    /\ GoneAstray(UNION {Joined(t) : t \in {u \in Tg : Holds(u, c)}})

\* Whoever starts to watch during a call was not told that it began.
MissesWhatIsUp == GoneAstray({t \in Tg : ~IsClear(t)})

\* The page connects again with the token it has.
Reconnect(c) ==
    /\ step[c] = NoStep
    /\ c \notin online /\ \E t \in Tg : Watches(c, t)
    /\ online' = online \cup {c}
    /\ UNCHANGED <<vars, down, recording, lit, step>>
    /\ MissesWhatIsUp

\* `console.update` while the page is up, which keeps the modules still on its
\* board.  A board change is not an unkey.
BoardChanges(c, S) ==
    /\ c \in online
    /\ ConsoleUpdate(c, S)
    /\ lit' = [lit EXCEPT ![c] = @ \cap S]
    /\ UNCHANGED <<online, down, recording, step>>
    /\ MissesWhatIsUp

-------------------------------------------------------------------------------
UnitActs ==
    \E c \in Unit :
        \/ \E t \in Tg : ApiKey(t, c) \/ ApiUnkey(t, c)
        \/ TapDrops(ServerOf[c])

ButtonActs(c) == \E t \in Tg : TxKey(t, c) \/ TxUnkey(t, c)

ConsoleActs ==
    \E c \in Console :
        \/ ButtonActs(c)
        \/ \E S \in Boards[c] : BoardChanges(c, S)
        \/ SocketDrops(c) \/ Detach(c) \/ Reconnect(c)

TaskActs(c) == TxKeyTold(c) \/ TxUnkeyTold(c) \/ TxRecordingEnds(c)

TimePasses == Clock /\ UNCHANGED plane

CallsNext ==
    \/ UnitActs \/ ConsoleActs \/ TimePasses
    \/ \E c \in Console : TaskActs(c)

\* The task of a socket finishes the message it has begun.  Nobody has to
\* press, let go or leave.
CallsSpec ==
    CallsInit /\ [][CallsNext]_callvars /\ \A c \in Console : WF_callvars(TaskActs(c))

\* The same while no socket goes and no board changes.
StayNext == UnitActs \/ \E c \in Console : ButtonActs(c) \/ TaskActs(c)

StaySpec == CallsInit /\ [][StayNext]_callvars

\* The same with consoles that only watch.
WatchSpec == CallsInit /\ [][UnitActs]_callvars

-------------------------------------------------------------------------------
\* Whether something is still to come on the channel of t: a button held down,
\* or a message half served.
Unfinished(t) ==
    \/ \E c \in Client : down[c] \in Joined(t)
    \/ \E c \in Console : step[c] # NoStep /\ step[c].tg \in Joined(t)

\* A recording is open only while somebody talks or is yet to let go, so every
\* call ends up in recall ("or the call stays open forever and never appears in
\* recall at all", release_key).
RecordingIsOfACall ==
    \A t \in recording \ astray : ~IsClear(t) \/ Unfinished(t)

\* Whoever has the route they pressed is being recorded, and the recording is
\* not cut short by the release of somebody else ("finalised the real talker's
\* recording mid-sentence", release_key).
TalkerIsRecorded ==
    \A t \in Tg \ astray, c \in Client :
        keyed[t] = c /\ keyed_by[c] = t =>
            t \in recording \/ (c \in Console /\ step[c] # NoStep)

\* A press has been accepted on the channel of t whose task has yet to tell it.
BeingTold(t) == \E c \in Console : step[c].do = "begin" /\ step[c].tg \in Joined(t)

\* While somebody transmits on the channel every page that watches t shows it.
ShownToWatchers(t) ==
    ~IsClear(t) /\ ~BeingTold(t) =>
        \A d \in online : Watches(d, t) => lit[d] \cap Joined(t) # {}

\* A page that watches any side of a channel has a module of it lit for as long
\* as anybody transmits there, one who outlasts the holder included ("a module
\* must stay lit while either is talking", Released).
LitWhileTalking == \A t \in Tg \ astray : ShownToWatchers(t)

\* The same of every press: "a module that is silent about a call it is passing
\* is worse than one that shows nothing at all" (announce_call).
LitAcrossThePatch == \A t \in Tg : ShownToWatchers(t)

\* Once every button is up the boards go dark and the recordings close, unless
\* a route had gone astray.
QuietAtLast ==
    (\A c \in Client : down[c] = None)
    ~> \/ recording \subseteq astray /\ \A c \in Console : lit[c] \subseteq astray
       \/ \E c \in Client : down[c] # None

\* No unit that has the route it pressed is without a recording: a release
\* which has been overtaken must not close it (the comment in dispatch, "unkey").
RecordingIsNotCut ==
    \A t \in Tg, c \in Unit :
        keyed[t] = c /\ keyed_by[c] = t => t \in recording

\* With every button up and every message served no module is lit ("or the
\* module stays lit", the comment in dispatch, "unkey").
NothingStaysLit ==
    (\A c \in Client, d \in Console : down[c] = None /\ step[d] = NoStep)
    => \A c \in Console : lit[c] = {}
===============================================================================
