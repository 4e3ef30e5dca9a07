--------------------------------- MODULE Audio ---------------------------------
(***************************************************************************)
(* What becomes of a voice packet: who it is for (src/src/router.rs,       *)
(* `destination`, `listeners_across`), the renderings its listeners need   *)
(* (src/src/dsp.rs, `Talker::push_wide`), the sum of those who collide on  *)
(* an AM frequency (`AmMix`), what is recorded and what is sent (the voice *)
(* handler of src/src/mumble.rs, TX_AUDIO of src/src/stream.rs).           *)
(* Samples are counted in frames of 160, the signal itself is abstracted   *)
(* to who can be heard in it, and a press or release to what it leaves in  *)
(* the routing table (module Router has the whole of it).  A tap asks the  *)
(* router twice about a packet, under two locks: who it is for, and then   *)
(* whether radios collide.  No time passes between the two.                *)
(***************************************************************************)
EXTENDS Integers, FiniteSets, FiniteSetsExt, Functions

CONSTANTS
    Route,    \* talkgroups and frequencies
    ModeOf,   \* P25, Fm or Am
    Radio,    \* the players of one tap
    Console,  \* the dispatch consoles
    Roster,   \* the tables of who listens where and how well: a bound
    Patches,  \* the patch groups there may be: a bound
    BACKLOG,  \* a radio with more frames queued on a lane sends no packet: a bound
    MOVES,    \* how often listeners or patches change: a bound
    TICK,     \* the milliseconds of sound in a packet
    STEP,     \* the milliseconds of a clock step
    None

Client == Radio \cup Console

Quality == 0..100

ASSUME AudioAssumption ==
    /\ Route \subseteq Nat /\ ModeOf \in [Route -> {"P25", "Fm", "Am"}]
    /\ \A table \in Roster : \A t \in Route, c \in Client :
          table[t][c] \in Quality \cup {None}
    /\ Patches \subseteq SUBSET Route
    /\ TICK \in {20, 40, 60} /\ STEP \in Nat /\ MOVES \in Nat /\ BACKLOG \in Nat
    /\ None \notin Route \cup Quality /\ None \notin Radio
    /\ Radio \cap Console = {}

VARIABLES
    members,    \* Route -> Client -> the quality of a member who listens, or None
    patch,      \* the routes joined into one channel
    talkers_on, \* Route -> who transmits on it, the holder and those on top
    keyed_by,   \* Client -> the route it pressed last, or None
    ammix,      \* Route -> its AmMix: `queues`, the frames of <<key, radio>>, and
                \* `seen`, how long ago a radio contributed
    hand,       \* the packet the tap has in hand, or None: whose it is, and the
                \* route and the listeners it was for when it came
    out,        \* the pieces the last packet made the node send
    recorded,   \* those of them it put in the recording
    moves       \* how much of MOVES is used up

table  == <<members, patch, talkers_on, keyed_by>>
avars  == <<table, ammix, hand, out, recorded, moves>>

FRAMES == TICK \div 20

-------------------------------------------------------------------------------
\* The router's answers.

Joined(t) == IF t \in patch THEN patch ELSE {t}

\* am_collision: more than one up on a group that has an AM member.
AmCollision(t) ==
    /\ \E u \in Joined(t) : ModeOf[u] = "Am"
    /\ Cardinality(UNION {talkers_on[u] : u \in Joined(t)}) > 1

Holding(c) == {t \in Route : c \in talkers_on[t]}

\* destination_of: the route it pressed, or else the lowest it has.
Destination(c) ==
    IF keyed_by[c] \in Holding(c) THEN keyed_by[c]
    ELSE IF Holding(c) = {} THEN None ELSE Min(Holding(c))

\* Mutation: a client on both sides of a patch is served on each.
ServedOnEach(t, c) == {u \in Joined(t) : members[u][c] # None}

\* The route a listener is served on: the best of its links, the route that was
\* keyed before the others.
ServedOn(t, c) ==
    LET on == {u \in Joined(t) : members[u][c] # None}
        no_worse(u, v) == \/ members[u][c] > members[v][c]
                          \/ members[u][c] = members[v][c] /\ (u = t \/ (v # t /\ u <= v))
    IN  {u \in on : \A v \in on : no_worse(u, v)}

\* listeners_across, each with its sink.
Listeners(t, except) ==
    UNION {{[client |-> c,
             sink |-> [mode |-> ModeOf[u], quality |-> members[u][c], bridged |-> u # t]] :
               u \in ServedOn(t, c)} : c \in Client \ {except}}

-------------------------------------------------------------------------------
\* Renderings.

DECODE_FLOOR == 5
LANE_STEP    == 5

LaneOf(q) ==
    IF q <= DECODE_FLOOR THEN 0 ELSE ((q + LANE_STEP \div 2) \div LANE_STEP) * LANE_STEP

\* key_of: two listeners with the same key are served from one pass.
KeyOf(s) == [mode |-> s.mode, lane |-> LaneOf(s.quality), bridged |-> s.bridged]

\* Only digital has a threshold below which nothing arrives.
Heard(s) == ~(s.mode = "P25" /\ LaneOf(s.quality) <= DECODE_FLOOR)

\* push_wide: the renderings in use.
Renderings(sinks) == {KeyOf(s) : s \in {x \in sinks : Heard(x)}}

\* A piece of what is sent: a rendering, how much of it, who is heard in it, and
\* whether it is what a collision left behind.
Piece(key, n, by, left) == [key |-> key, frames |-> n, by |-> by, left |-> left]

-------------------------------------------------------------------------------
\* AmMix.

AM_GONE_MS == 120

NoMix == [queues |-> <<>>, seen |-> <<>>]

\* Mutation: a talker who stopped is waited for.
WaitedFor(seen) == DOMAIN seen

\* Whoever has stopped is no longer waited for.
Present(seen) == {r \in DOMAIN seen : seen[r] <= AM_GONE_MS}

\* add: the frames of r's packet, for each key it is rendered with.
Added(mix, keys, r) ==
    IF keys = {} THEN mix
    ELSE [queues |-> [k \in DOMAIN mix.queues \cup (keys \X {r}) |->
              (IF k \in DOMAIN mix.queues THEN mix.queues[k] ELSE 0)
              + (IF k \in keys \X {r} THEN FRAMES ELSE 0)],
          seen |-> [x \in DOMAIN mix.seen \cup {r} |-> IF x = r THEN 0 ELSE mix.seen[x]]]

Retired(mix) ==
    LET here == Present(mix.seen)
    IN  [queues |-> Restrict(mix.queues, {k \in DOMAIN mix.queues : k[2] \in here}),
         seen   |-> Restrict(mix.seen, here)]

Lanes(mix) == {k[1] : k \in DOMAIN mix.queues}

Lengths(mix, key) == {mix.queues[k] : k \in {x \in DOMAIN mix.queues : x[1] = key}}

\* Who has at least n frames in a lane.
Audible(mix, key, n) == {r \in Radio : <<key, r>> \in DOMAIN mix.queues
                                       /\ mix.queues[<<key, r>>] >= n}

\* Mutation: a lane comes out as soon as one of its talkers has a frame.
ReadyAny(mix, key) == Max(Lengths(mix, key))

\* drain: the whole frames that every talker of a lane has given.
Ready(mix, key) == Min(Lengths(mix, key))

Drained(mix) ==
    {Piece(k, Ready(mix, k), Audible(mix, k, Ready(mix, k)), FALSE) :
        k \in {x \in Lanes(mix) : Ready(mix, x) > 0}}

AfterDrain(mix) ==
    [mix EXCEPT !.queues = [k \in DOMAIN @ |-> Max({0, @[k] - Ready(mix, k[1])})]]

\* Mutation: the end of a collision discards what is queued.
FlushedNothing(mix) == {}

\* flush: all that is queued, each lane as long as its longest queue.
Flushed(mix) ==
    {Piece(k, Max(Lengths(mix, k)), Audible(mix, k, 1), TRUE) :
        k \in {x \in Lanes(mix) : Max(Lengths(mix, x)) > 0}}

-------------------------------------------------------------------------------
\* A packet.

\* The pieces of the source's own side in the cleanest lane, the last of which
\* goes in the recording.
Best(pieces, mode) ==
    LET own  == {x \in pieces : ~x.key.bridged /\ x.key.mode = mode}
        best == {x \in own : \A y \in own : y.key.lane <= x.key.lane}
    IN  IF \E x \in best : ~x.left THEN {x \in best : ~x.left} ELSE best

\* The renderings a packet for these listeners is wanted in.
Wanted(listeners) == Renderings({l.sink : l \in listeners})

\* Deliver c's packet on route t, of which the pieces have been made.
Deliver(c, t, listeners, pieces) ==
    /\ out' = UNION {{[piece |-> x, tg |-> t, of |-> c, to |-> l.client] :
                         l \in {y \in listeners : KeyOf(y.sink) = x.key}} : x \in pieces}
    /\ recorded' = Best(pieces, ModeOf[t])

Alone(c, lanes) == {Piece(k, FRAMES, {c}, FALSE) : k \in lanes}

Speaks(c) ==
    /\ Destination(c) # None
    /\ Listeners(Destination(c), c) # {}

Silent == out' = {} /\ recorded' = {}

\* A packet from a player, and the router's answer as to who it is for.
VoiceArrives(r) ==
    LET t == Destination(r)
    IN  /\ hand = None /\ Speaks(r)
        /\ \A k \in DOMAIN ammix[t].queues : k[2] = r => ammix[t].queues[k] <= BACKLOG
        /\ hand' = [of |-> r, tg |-> t, listeners |-> Listeners(t, r)]
        /\ UNCHANGED <<table, ammix, moves>> /\ Silent

\* AM renderings go through the mixer of the route while radios collide, and
\* what is left in it comes out with the first packet after.
Voice ==
    LET r   == hand.of
        t   == hand.tg
        all == Wanted(hand.listeners)
        am  == {k \in all : k.mode = "Am"}
        mix == Retired(Added(ammix[t], am, r))
    IN  /\ hand # None /\ hand' = None
        /\ IF AmCollision(t)
           THEN /\ Deliver(r, t, hand.listeners, Drained(mix) \cup Alone(r, all \ am))
                /\ ammix' = [ammix EXCEPT ![t] = AfterDrain(mix)]
           ELSE /\ Deliver(r, t, hand.listeners, Flushed(ammix[t]) \cup Alone(r, all))
                /\ ammix' = [ammix EXCEPT ![t] = NoMix]
        /\ UNCHANGED <<table, moves>>

\* TX_AUDIO: a console's packet goes through no mixer.
ConsoleVoice(d) ==
    LET t == Destination(d)
    IN  /\ Speaks(d)
        /\ Deliver(d, t, Listeners(t, d), Alone(d, Wanted(Listeners(t, d))))
        /\ UNCHANGED <<table, ammix, hand, moves>>

-------------------------------------------------------------------------------
Init ==
    /\ members \in Roster /\ patch = {}
    /\ talkers_on = [t \in Route |-> {}]
    /\ keyed_by = [c \in Client |-> None]
    /\ ammix = [t \in Route |-> NoMix]
    /\ hand = None /\ out = {} /\ recorded = {} /\ moves = 0

\* key_one: what route u answers c while `up` transmit on it.  Whether a
\* console insists, having been refused there within the window, is left open:
\* module Router has the protocol.
Answer(c, u, up, insists) ==
    CASE up \subseteq {c}                      -> "Granted"
      [] ~(up \subseteq {c}) /\ ModeOf[u] = "Am" -> "Mixed"
      [] ~(up \subseteq {c}) /\ ModeOf[u] = "Fm" -> "Doubled"
      [] ~(up \subseteq {c}) /\ ModeOf[u] = "P25" ->
            IF insists /\ c \in Console /\ up \subseteq Radio THEN "Preempted" ELSE "Refused"

\* key_at: the pressed route decides whether the press is accepted, and the
\* rest of the channel follows best effort.  Whoever is preempted on the
\* pressed route is cut off on all of them; one who doubles has nothing.
Press(c, t) ==
    \E insisted \in SUBSET Joined(t) :
        LET first     == Answer(c, t, talkers_on[t], t \in insisted)
            cut       == IF first = "Preempted" THEN talkers_on[t] ELSE {}
            left(u)   == talkers_on[u] \ cut
            answer(u) == IF u = t THEN first
                         ELSE Answer(c, u, left(u), cut = {} /\ u \in insisted)
        IN  /\ keyed_by[c] = None /\ first # "Refused"
            /\ talkers_on' = [u \in Route |->
                  CASE u \notin Joined(t)                            -> talkers_on[u]
                    [] u \in Joined(t) /\ answer(u) = "Preempted"    -> {c}
                    [] u \in Joined(t) /\ answer(u) \in {"Granted", "Mixed"} ->
                          left(u) \cup {c}
                    [] u \in Joined(t) /\ answer(u) \in {"Doubled", "Refused"} -> left(u)]
            /\ keyed_by' = [keyed_by EXCEPT ![c] = t]
            /\ UNCHANGED <<members, patch, ammix, hand, moves>> /\ Silent

Release(c) ==
    /\ keyed_by[c] # None
    /\ talkers_on' = [t \in Route |-> talkers_on[t] \ {c}]
    /\ keyed_by' = [keyed_by EXCEPT ![c] = None]
    /\ UNCHANGED <<members, patch, ammix, hand, moves>> /\ Silent

\* Listeners come, go and move; patches are made and torn down.
Reorganise ==
    /\ moves < MOVES /\ moves' = moves + 1
    /\ members' \in Roster /\ patch' \in Patches
    /\ <<members', patch'>> # <<members, patch>>
    /\ UNCHANGED <<talkers_on, keyed_by, ammix, hand>> /\ Silent

\* Time passes.
Tick ==
    /\ hand = None
    /\ ammix' = [t \in Route |-> [ammix[t] EXCEPT !.seen =
          [r \in DOMAIN @ |-> Min({@[r] + STEP, AM_GONE_MS + 1})]]]
    /\ UNCHANGED <<table, hand, moves>> /\ Silent

Next ==
    \/ \E r \in Radio : VoiceArrives(r)
    \/ Voice
    \/ \E d \in Console : ConsoleVoice(d)
    \/ \E c \in Client : Release(c) \/ \E t \in Route : Press(c, t)
    \/ Reorganise \/ Tick

Spec == Init /\ [][Next]_avars

-------------------------------------------------------------------------------
\* Whoever listens on both sides of a patch is sent a transmission once
\* (listeners_across: "must not be sent the same audio twice").
HeardOnce ==
    \A x, y \in out : x.to = y.to /\ ~x.piece.left /\ ~y.piece.left => x = y

\* The radios that contribute to a lane of the mixer of route u.
In(u, key) == {r \in Radio : <<key, r>> \in DOMAIN ammix[u].queues}

Summed(x) ==
    x.piece.key.mode = "Am" /\ ~x.piece.left => In(x.tg, x.piece.key) \subseteq x.piece.by

\* Of the radios that collide on the route they pressed, nothing comes out of a
\* lane without everybody else who contributes to it (AmMix::drain).
RadiosAreSummed == \A x \in out : x.of \in Radio => Summed(x)

\* The radios the mixer of route u has for listener c.
For(u, c) ==
    {r \in Radio : \E l \in Listeners(u, r) : l.client = c /\ r \in In(u, KeyOf(l.sink))}

\* What comes to a listener of a frequency has every radio in it that the mixers
\* of these routes have for that listener.
HasAll(x, routes) ==
    x.piece.key.mode = "Am" /\ ~x.piece.left =>
        \A u \in routes : For(u, x.to) \subseteq x.piece.by

\* No listener gets the frames of a console between those of a radio: "two
\* talkers' frames arriving at one client would interleave into alternating
\* chunks of each".
SummedNotInterleaved == \A x \in out : HasAll(x, {x.tg})

\* Nor those of radios on two sides of a patch: "two people doubling onto a
\* patched airband channel are doubling on it whichever side they keyed from"
\* (am_collision).
SummedAcrossThePatch == \A x \in out : x.of \in Radio => HasAll(x, Joined(x.tg))

\* The radios a lane has to wait for: those with nothing in it.
Awaited(mix, key) == {r \in Radio : <<key, r>> \in DOMAIN mix.queues /\ mix.queues[<<key, r>>] = 0}

\* The lanes of route t something is held back on after this step.
HeldBack(t) == {key \in Lanes(ammix'[t]) : Max(Lengths(ammix'[t], key)) > 0}

\* This step has sent the packet in hand.
Sent == hand # None /\ hand' = None

\* What a packet leaves held back waits for a radio heard of within AM_GONE_MS:
\* one that lets go stalls nobody (AmMix::drain).
WaitsForThePresent ==
    [][Sent => \A key \in HeldBack(hand.tg) : \E r \in Awaited(ammix'[hand.tg], key) :
                 ammix'[hand.tg].seen[r] <= AM_GONE_MS]_avars

\* The end of a collision clips nobody: what leaves a queue is heard by all who
\* listen on that lane, or is of a radio that had gone (flush).
NothingClipped ==
    [][Sent =>
          LET t == hand.tg
          IN  \A k \in DOMAIN ammix[t].queues, l \in hand.listeners :
                /\ ammix[t].queues[k] > 0 /\ k \notin DOMAIN ammix'[t].queues
                /\ k[2] \in Present(ammix[t].seen) /\ KeyOf(l.sink) = k[1]
                => \E x \in out' : x.to = l.client /\ k[2] \in x.piece.by /\ x.piece.left]_avars

\* A radio that has nothing more for a lane is "treated as gone once its queue
\* has been dry this long", whoever else it is still heard by: what is held back
\* waits for a radio with a listener on that lane.
WaitsForAListener ==
    [][Sent => \A key \in HeldBack(hand.tg) : \E r \in Awaited(ammix'[hand.tg], key) :
                 key \in Wanted(Listeners(hand.tg, r))]_avars
===============================================================================
