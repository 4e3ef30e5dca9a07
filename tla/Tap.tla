---------------------------------- MODULE Tap ----------------------------------
(***************************************************************************)
(* The tap on one FXServer (src/src/mumble.rs, `run` and `Header`): a      *)
(* Mumble connection whose inbound messages are handled one at a time and  *)
(* whose requests leave through a bounded queue.  The bytes of a message   *)
(* arrive in pieces, the talkspurt sweep cancels a header half read, and a *)
(* connection that fails is cleaned up and dialled again (src/src/main.rs).*)
(* The server at the far end is external: it announces channels and users  *)
(* as it likes, and what it has sent arrives in order or not at all.       *)
(***************************************************************************)
EXTENDS Varint, FiniteSets

CONSTANTS
    Chan,     \* the channels a server announces
    Session,  \* the session ids it gives its users, of 32 bits
    Player,   \* the players their names carry
    WIRE,     \* messages under way at once: a bound of the model
    OUT       \* room in the queue to the writer, 64 in the code

\* A name that carries no player id binds nobody.
Name == Player \cup {"nobody"}

Message ==
    [type : {"CHANNEL_STATE"}, channel : Chan]
    \cup [type : {"USER_STATE"}, session : Session, name : Name]
    \cup [type : {"USER_REMOVE", "UDP_TUNNEL"}, session : Session]
    \cup [type : {"SERVER_SYNC", "REJECT", "OVERSIZED"}]

ASSUME TapAssumption ==
    /\ WIRE \in Nat \ {0} /\ OUT \in Nat \ {0}
    /\ None \notin Player \cup {"nobody"} \cup Message
    /\ \A s \in Session : s \in Nat /\ s \div 65536 < 65536

\* The six bytes of a header arrive as one piece or as several.
HEADER == 2

VARIABLES
    \* The far end.
    wire,      \* the pieces under way: <<message, 1..HEADER>>, and the body
    announced, \* the channels it has announced on this connection
    present,   \* Session -> the name it has announced, or None
    synced,    \* whether SERVER_SYNC has been sent
    hearing,   \* the channels it takes the tap to listen to
    aside,     \* connections the tap gave up on: whether the server has one
    \* `run` and its tasks.
    link,      \* "up", "ended" when `run` has returned, "away" until it redials
    header,    \* Header: the pieces in hand
    body,      \* the message whose body is being read, or None
    me,        \* whether our own session is known
    known_channels, listening,
    owed,      \* what a handler is waiting for room to ask, {} if none is
    out,       \* the queue to the writer task
    users,     \* Session -> name
    talkers,   \* Session -> the client its vocoder chain was made for, or None
    \* The router, as far as this server goes.
    session_to_client, client_to_session

farEnd == <<wire, announced, present, synced, hearing>>
lists  == <<known_channels, listening>>
locals == <<me, lists, users, talkers>>
reader == <<link, header, body>>
asking == <<owed, out>>
bound  == <<session_to_client, client_to_session>>
tapvars == <<farEnd, aside, reader, locals, asking, bound>>

Nobody == [s \in Session |-> None]

Init ==
    /\ wire = <<>> /\ announced = {} /\ present = Nobody /\ synced = FALSE
    /\ hearing = {} /\ aside = "none"
    /\ link = "up" /\ header = <<>> /\ body = None
    /\ me = FALSE /\ known_channels = {} /\ listening = {}
    /\ owed = {} /\ out = <<>>
    /\ users = Nobody /\ talkers = Nobody
    /\ session_to_client = Nobody
    /\ client_to_session = [p \in Player |-> None]

-------------------------------------------------------------------------------
\* The server sends a message, after what it has sent before.

Pieces(m) == [i \in 1..HEADER |-> <<m, i>>] \o <<<<m, "body">>>>

Send(m) ==
    /\ link = "up" /\ Len(wire) <= (WIRE - 1) * (HEADER + 1)
    /\ wire' = wire \o Pieces(m)
    /\ UNCHANGED <<hearing, aside, reader, locals, asking, bound>>

\* A channel is announced when it appears, and again when it changes.
Announces(c) ==
    /\ Send([type |-> "CHANNEL_STATE", channel |-> c])
    /\ announced' = announced \cup {c}
    /\ UNCHANGED <<present, synced>>

\* A player who reconnects may be there twice until their old session times out.
Joins(s, name) ==
    /\ present[s] = None
    /\ Send([type |-> "USER_STATE", session |-> s, name |-> name])
    /\ present' = [present EXCEPT ![s] = name]
    /\ UNCHANGED <<announced, synced>>

Departs(s) ==
    /\ present[s] # None
    /\ Send([type |-> "USER_REMOVE", session |-> s])
    /\ present' = [present EXCEPT ![s] = None]
    /\ UNCHANGED <<announced, synced>>

Speaks(s) ==
    /\ present[s] # None
    /\ Send([type |-> "UDP_TUNNEL", session |-> s])
    /\ UNCHANGED <<announced, present, synced>>

Welcomes ==
    /\ ~synced
    /\ Send([type |-> "SERVER_SYNC"])
    /\ synced' = TRUE
    /\ UNCHANGED <<announced, present>>

Refuses(type) ==
    /\ Send([type |-> type])
    /\ UNCHANGED <<announced, present, synced>>

-------------------------------------------------------------------------------
\* Reading.

\* The read loop is at its select!, and no handler is running.
Selecting == link = "up" /\ body = None /\ owed = {}

\* `read` takes what has arrived, up to what the header still lacks.
ReadHeader(n) ==
    /\ Selecting
    /\ n <= Len(wire) /\ Len(header) + n <= HEADER
    /\ header' = header \o SubSeq(wire, 1, n)
    /\ wire' = SubSeq(wire, n + 1, Len(wire))
    /\ UNCHANGED <<announced, present, synced, hearing, aside, link, body, locals,
                   asking, bound>>

\* Mutation: read_exact, whose count of bytes taken dies with the future.
Forgotten == <<>>

\* The pieces in hand after a sweep cancelled the read: `fill` is outside it.
Kept == header

Sweep ==
    /\ Selecting /\ header # <<>> /\ Len(header) < HEADER
    /\ header' = Kept
    /\ UNCHANGED <<farEnd, aside, link, body, locals, asking, bound>>

\* The end of `run`: its locals go, what it told the router does not.
Ended == link' = "ended" /\ header' = <<>> /\ body' = None /\ owed' = {} /\ out' = <<>>

\* A whole header, of a length that can be.
TakeBody ==
    /\ Selecting /\ Len(header) = HEADER
    /\ header[1][1].type # "OVERSIZED"
    /\ body' = header[1][1]
    /\ header' = <<>>
    /\ UNCHANGED <<farEnd, aside, link, locals, asking, bound>>

\* `run` gives up a connection that still stands.  The writer and the two timers
\* keep each other: they end when a write fails, so the server has this
\* connection for as long as it likes.
GivenUp == Ended /\ aside' = "open"

\* An impossible length is fatal to the connection.
TooLong ==
    /\ Selecting /\ Len(header) = HEADER
    /\ header[1][1].type = "OVERSIZED"
    /\ GivenUp
    /\ UNCHANGED <<farEnd, locals, bound>>

\* read_exact of the body, outside the select!, and what it is.
Got(type) ==
    /\ link = "up" /\ body # None /\ body.type = type /\ wire # <<>>
    /\ wire' = Tail(wire)

Done == body' = None /\ UNCHANGED <<link, header>>

FarEndWaits == UNCHANGED <<announced, present, synced, hearing, aside>>

-------------------------------------------------------------------------------
\* The handlers.

\* Mutation: no catching up on the channels announced before.
NonePending == {}

\* The channels announced before our session was known.
PendingChannels == known_channels \ listening

ServerSync ==
    /\ Got("SERVER_SYNC") /\ Done
    /\ me' = TRUE
    /\ owed' = PendingChannels
    /\ listening' = listening \cup PendingChannels
    /\ UNCHANGED <<known_channels, users, talkers, out, bound>> /\ FarEndWaits

ChannelState ==
    /\ Got("CHANNEL_STATE") /\ Done
    /\ known_channels' = known_channels \cup {body.channel}
    /\ IF me /\ body.channel \notin listening
       THEN owed' = {body.channel} /\ listening' = listening \cup {body.channel}
       ELSE UNCHANGED <<owed, listening>>
    /\ UNCHANGED <<me, users, talkers, out, bound>> /\ FarEndWaits

\* Mutation: the channel to the writer is unbounded.
RoomAlways == TRUE

\* Room in the channel to the writer.
Room == Len(out) < OUT

\* The send a handler waits for, the timers' pings being in the queue too.
Ask ==
    /\ link = "up" /\ owed # {} /\ Room
    /\ out' = Append(out, owed)
    /\ owed' = {}
    /\ UNCHANGED <<farEnd, aside, reader, locals, bound>>

Keepalive ==
    /\ link = "up" /\ Room
    /\ out' = Append(out, {})
    /\ UNCHANGED <<farEnd, aside, reader, locals, owed, bound>>

\* The writer writes one frame, which the server takes.
Write ==
    /\ link = "up" /\ out # <<>>
    /\ hearing' = hearing \cup Head(out)
    /\ out' = Tail(out)
    /\ UNCHANGED <<wire, announced, present, synced, aside, reader, locals, owed, bound>>

UserState ==
    /\ Got("USER_STATE") /\ Done
    /\ users' = [users EXCEPT ![body.session] = body.name]
    /\ IF body.name \in Player
       THEN /\ session_to_client' = [session_to_client EXCEPT ![body.session] = body.name]
            /\ client_to_session' = [client_to_session EXCEPT ![body.name] = body.session]
       ELSE UNCHANGED bound
    /\ UNCHANGED <<me, lists, talkers, asking>> /\ FarEndWaits

\* Mutation: a talker's vocoder chain outlives the talker.
ChainKept(s) == talkers

\* Codec2 state is per stream: the chain goes with the talker.
ChainDropped(s) == [talkers EXCEPT ![s] = None]

UserRemove ==
    /\ Got("USER_REMOVE") /\ Done
    /\ session_to_client' = [session_to_client EXCEPT ![body.session] = None]
    /\ client_to_session' = [p \in Player |->
          IF session_to_client[body.session] = p THEN None ELSE client_to_session[p]]
    /\ users' = [users EXCEPT ![body.session] = None]
    /\ talkers' = ChainDropped(body.session)
    /\ UNCHANGED <<me, lists, asking>> /\ FarEndWaits

\* Voice: a bound talker who holds a route somebody listens to gets a chain.
Voice ==
    /\ Got("UDP_TUNNEL") /\ Done
    /\ LET client == session_to_client[body.session]
       IN  \/ /\ client # None /\ talkers[body.session] = None
              /\ talkers' = [talkers EXCEPT ![body.session] = client]
           \/ UNCHANGED talkers
    /\ UNCHANGED <<me, lists, users, asking, bound>> /\ FarEndWaits

Reject ==
    /\ Got("REJECT") /\ GivenUp
    /\ UNCHANGED <<announced, present, synced, hearing, locals, bound>>

Read ==
    \/ TakeBody \/ TooLong
    \/ \E n \in 1..HEADER : ReadHeader(n)
    \/ ServerSync \/ ChannelState \/ UserState \/ UserRemove \/ Voice \/ Reject

-------------------------------------------------------------------------------
\* The end of a connection, and the next one.

\* The server goes away, or the network does.
ConnectionLost ==
    /\ link = "up" /\ Ended
    /\ UNCHANGED <<farEnd, aside, locals, bound>>

\* Mutation: redialled without dropping what the router has of the server.
RoutesKept == bound

\* drop_server.
RoutesDropped == <<Nobody, [p \in Player |-> None]>>

Drop ==
    /\ link = "ended"
    /\ link' = "away"
    /\ session_to_client' = RoutesDropped[1] /\ client_to_session' = RoutesDropped[2]
    /\ UNCHANGED <<farEnd, aside, header, body, locals, asking>>

\* Dialled again, three seconds later: nothing is left of the last time.
Redial ==
    /\ link = "away"
    /\ link' = "up"
    /\ wire' = <<>> /\ announced' = {} /\ present' = Nobody /\ synced' = FALSE
    /\ hearing' = {}
    /\ me' = FALSE /\ known_channels' = {} /\ listening' = {}
    /\ users' = Nobody /\ talkers' = Nobody
    /\ UNCHANGED <<aside, header, body, asking, bound>>

\* The server closes a connection nobody reads; the next ping finds out.
ServerCloses ==
    /\ aside = "open"
    /\ aside' = "closed"
    /\ UNCHANGED <<farEnd, reader, locals, asking, bound>>

PingFails ==
    /\ aside = "closed"
    /\ aside' = "none"
    /\ UNCHANGED <<farEnd, reader, locals, asking, bound>>

FarEndActs ==
    \/ \E c \in Chan : Announces(c)
    \/ \E s \in Session : Departs(s) \/ Speaks(s)
    \/ \E s \in Session, name \in Name : Joins(s, name)
    \/ Welcomes \/ Refuses("REJECT") \/ Refuses("OVERSIZED")
    \/ ConnectionLost \/ ServerCloses

Next ==
    \/ FarEndActs \/ Read \/ Sweep \/ Ask \/ Keepalive \/ Write
    \/ Drop \/ Redial \/ PingFails

\* The tap's tasks run; nothing has to be sent to it.
Fairness ==
    /\ WF_tapvars(Read) /\ WF_tapvars(Write) /\ SF_tapvars(Ask)
    /\ WF_tapvars(Drop) /\ WF_tapvars(Redial) /\ WF_tapvars(PingFails)

Spec == Init /\ [][Next]_tapvars /\ Fairness

-------------------------------------------------------------------------------
\* What the tap keeps is bounded by what its server announces, and by the queue.
TapTypeOK ==
    /\ link \in {"up", "ended", "away"} /\ aside \in {"none", "open", "closed"}
    /\ body \in Message \cup {None} /\ me \in BOOLEAN
    /\ UNION {announced, hearing, known_channels, listening, owed} \subseteq Chan
    /\ Len(out) <= OUT
    /\ {users, present} \subseteq [Session -> Name \cup {None}]
    /\ {talkers, session_to_client} \subseteq [Session -> Player \cup {None}]

\* A header is read from its first byte, whatever sweeps cancel the read: the
\* stream never loses its framing (Header).
Framed ==
    /\ \A i \in 1..Len(header) : header[i] = <<header[1][1], i>>
    /\ link = "up" /\ body # None => wire # <<>> /\ wire[1] = <<body, "body">>

\* Once a connection's messages are handled the router has exactly the users
\* of this connection, and places a client on a session that is theirs.
RosterFollows ==
    link = "up" /\ wire = <<>> /\ header = <<>> /\ body = None =>
        /\ users = present
        /\ \A s \in Session : session_to_client[s]
                              = IF present[s] \in Player THEN present[s] ELSE None
        /\ \A p \in Player : client_to_session[p] # None
                             => session_to_client[client_to_session[p]] = p

\* Nobody talks through the vocoder chain of somebody who had their session id
\* before them.
ChainIsTheirs ==
    link = "up" => \A s \in Session : talkers[s] \in {session_to_client[s], None}

\* Voice is attributed to the session that sent it, whatever the widths of the
\* numbers of its packet, the last packet of a transmission like the others.
VoiceParses ==
    body # None /\ body.type = "UDP_TUNNEL" =>
        \A sequence \in Numbers, last \in BOOLEAN, voice \in Around :
            LET data == Packet(body.session, sequence, last, voice)
            IN  ParseVoice(data) = [session |-> body.session, size |-> Len(voice),
                                    start |-> Len(data) - Len(voice) + 1]

\* A channel announced to a tap that is welcome is listened to, whichever of
\* the two comes first, unless the connection ends.
HearsEveryChannel ==
    \A c \in Chan : (link = "up" /\ synced /\ c \in announced)
                    ~> (c \in hearing \/ link # "up")

\* A player who is there has a session: the end of their old one does not take
\* the new one with it.
RejoinedIsKnown ==
    link = "up" /\ wire = <<>> /\ header = <<>> /\ body = None =>
        \A s \in Session : present[s] \in Player => client_to_session[present[s]] # None

\* A length that cannot be is "fatal to the connection by design", and so is a
\* refusal.
FatalToTheConnection == aside = "open" ~> aside # "open"
===============================================================================
