------------------------------- MODULE Sockets --------------------------------
(***************************************************************************)
(* The audio sockets (src/src/stream.rs): the tokens a browser presents,   *)
(* the handshake that turns one into a client, the bounded queue behind    *)
(* each socket with the task that writes it out, and the sink every other  *)
(* part of the node sends through.  `Streams` is behind one mutex: an      *)
(* action is one critical section, or one step of a task between two.      *)
(* What a page shows is reduced to one talkgroup.                          *)
(***************************************************************************)
EXTENDS Naturals, Sequences, FiniteSets

CONSTANTS
    Client,   \* players and consoles
    Token,    \* the secrets minted for them, each once and for one client
    TokenOf,  \* that client
    Conn,     \* the connections made, each used once
    Sent,     \* what is sent through sinks: audio, the start and end of a call
    QUEUE,    \* how many frames a socket buffers: 64 in the code
    None

ASSUME SocketsAssumption ==
    /\ TokenOf \in [Token -> Client]
    /\ Sent \subseteq {"pcm", "lit", "dark"}
    /\ QUEUE \in Nat \ {0}
    /\ None \notin Client /\ None \notin Conn

Event == {"lit", "dark"}

VARIABLES
    tokens,    \* Streams::tokens
    sink,      \* Streams::sinks: Client -> the socket that is sent to
    stage,     \* Conn -> how far its task has come
    who,       \* Conn -> the client its token was looked up to
    queue,     \* Conn -> the frames between the senders and the writer
    writer,    \* Conn -> whether its writer runs
    page,      \* Conn -> what the browser was told: nothing, or the call's state
    told,      \* Conn -> the last event sent to it, "lost" once one was dropped
               \* because the queue was full (history)
    revoked    \* Conn -> when its client was revoked, if it was (history)

socketvars == <<tokens, sink, stage, who, queue, writer, page, told, revoked>>
table      == <<tokens, sink>>
history    == <<told, revoked>>

Init ==
    /\ tokens = {}
    /\ sink = [c \in Client |-> None]
    /\ stage = [k \in Conn |-> "new"]
    /\ who = [k \in Conn |-> None]
    /\ queue = [k \in Conn |-> <<>>]
    /\ writer = [k \in Conn |-> "off"]
    /\ page = [k \in Conn |-> "blank"]
    /\ told = [k \in Conn |-> "dark"]
    /\ revoked = [k \in Conn |-> "never"]

Authorized(c) == \E t \in tokens : TokenOf[t] = c

\* The sockets every sender of which is gone.
Deserted(k) == \A c \in Client : sink[c] # k

-------------------------------------------------------------------------------
\* The control API.

\* `session.token`, and the token of `console.attach`.
Authorize(t) ==
    /\ tokens' = tokens \cup {t}
    /\ UNCHANGED <<sink, stage, who, queue, writer, page, history>>

\* Mutation: the token goes and the live socket stays.
RevokeTokenOnly(C) ==
    /\ tokens' = {t \in tokens : TokenOf[t] \notin C}
    /\ sink' = sink

\* Tokens and sinks of the clients of C go; their sockets stay connected.
Forget(C) ==
    /\ tokens' = {t \in tokens : TokenOf[t] \notin C}
    /\ sink' = [c \in Client |-> IF c \in C THEN None ELSE sink[c]]

\* `session.drop` and `console.detach` (one client), a tap that disconnects
\* (every client of its server, which is any set of clients here).
Revoke(C) ==
    /\ Forget(C)
    /\ revoked' = [k \in Conn |->
          IF who[k] \in C /\ revoked[k] = "never" THEN stage[k] ELSE revoked[k]]
    /\ UNCHANGED <<stage, who, queue, writer, page, told>>

-------------------------------------------------------------------------------
\* The task of one socket.

\* The handshake: a token nobody minted, or one revoked, is refused.
LookUp(k, t) ==
    /\ stage[k] = "new"
    /\ t \in tokens
    /\ who' = [who EXCEPT ![k] = TokenOf[t]]
    /\ stage' = [stage EXCEPT ![k] = "looked"]
    /\ UNCHANGED <<table, queue, writer, page, history>>

\* Mutation: the sink is published before the sample rate is queued.
GreetingLate == <<>>

\* What is queued before anybody else can send.
Greeting == <<"hello">>

\* The queue is created, the sample rate queued, the sink published, the
\* writer spawned.  A sink the client already had is replaced.
Publish(k) ==
    /\ stage[k] = "looked"
    /\ stage' = [stage EXCEPT ![k] = "open"]
    /\ queue' = [queue EXCEPT ![k] = Greeting]
    /\ sink' = [sink EXCEPT ![who[k]] = k]
    /\ writer' = [writer EXCEPT ![k] = "on"]
    /\ UNCHANGED <<tokens, who, page, history>>

\* Mutation: frames sent from tasks of their own arrive in any order.
EnqueueFirst(q, f) == <<f>> \o q

Enqueue(q, f) == Append(q, f)

\* send_pcm, send_call: a client without a sink is not sent to, and a full or
\* abandoned queue drops the frame, whatever it carries.
Send(c, f) ==
    LET k == sink[c]
        live     == writer[k] = "on"
        accepted == live /\ Len(queue[k]) < QUEUE
    IN  /\ k # None
        /\ queue' = IF accepted THEN [queue EXCEPT ![k] = Enqueue(@, f)] ELSE queue
        /\ told' = IF live /\ f \in Event /\ told[k] # "lost"
                   THEN [told EXCEPT ![k] = IF accepted THEN f ELSE "lost"] ELSE told
        /\ UNCHANGED <<table, stage, who, writer, page, revoked>>

\* What a page shows after its first frame.
Shown(f) == IF f = "hello" THEN "dark" ELSE "confused"

\* The writer hands the browser one frame.
Write(k) ==
    /\ writer[k] = "on"
    /\ queue[k] # <<>>
    /\ queue' = [queue EXCEPT ![k] = Tail(@)]
    /\ page' = [page EXCEPT ![k] =
          CASE @ = "blank"                     -> Shown(Head(queue[k]))
            [] @ # "blank" /\ Head(queue[k]) \in Event    -> Head(queue[k])
            [] @ # "blank" /\ Head(queue[k]) \notin Event -> @]
    /\ UNCHANGED <<table, stage, who, writer, history>>

\* A writer that stops leaves its queue and its page to nobody's interest.
StopWriter(k) ==
    /\ writer' = [writer EXCEPT ![k] = "done"]
    /\ queue' = [queue EXCEPT ![k] = <<>>]
    /\ page' = [page EXCEPT ![k] = "blank"]
    /\ told' = [told EXCEPT ![k] = "dark"]

\* The writer stops by itself: the queue is empty and nobody can send any more.
Dry(k) ==
    /\ writer[k] = "on"
    /\ queue[k] = <<>>
    /\ Deserted(k)
    /\ StopWriter(k)
    /\ UNCHANGED <<table, stage, who, revoked>>

\* The browser is gone and a write, or a ping, fails.
WriteFails(k) ==
    /\ writer[k] = "on"
    /\ StopWriter(k)
    /\ UNCHANGED <<table, stage, who, revoked>>

\* The browser closes, or the connection is found dead.  What the client held
\* is released now, under the router's lock.
Close(k) ==
    /\ stage[k] = "open"
    /\ stage' = [stage EXCEPT ![k] = "closing"]
    /\ UNCHANGED <<table, who, queue, writer, page, history>>

\* Mutation: only the writer is stopped, the sink stays.
SinkLeft(k) == sink

\* The client's sink is removed: whichever socket it belongs to.
SinkRemoved(k) == [sink EXCEPT ![who[k]] = None]

CleanUp(k) ==
    /\ stage[k] = "closing"
    /\ stage' = [stage EXCEPT ![k] = "closed"]
    /\ StopWriter(k)
    /\ sink' = SinkRemoved(k)
    /\ who' = [who EXCEPT ![k] = None]
    /\ revoked' = [revoked EXCEPT ![k] = "never"]
    /\ UNCHANGED tokens

-------------------------------------------------------------------------------
Next ==
    \/ \E t \in Token : Authorize(t)
    \/ \E C \in SUBSET Client \ {{}} : Revoke(C)
    \/ \E k \in Conn, t \in Token : LookUp(k, t)
    \/ \E c \in Client, f \in Sent : Send(c, f)
    \/ \E k \in Conn : \/ Publish(k) \/ Write(k) \/ Dry(k) \/ WriteFails(k)
                       \/ Close(k) \/ CleanUp(k)

\* The node's own tasks run, and what is queued is written unless the connection
\* breaks.  Nobody has to revoke, connect, talk, close or lose a connection.
Fairness ==
    \A k \in Conn :
        /\ WF_socketvars(Publish(k))
        /\ WF_socketvars(Write(k))
        /\ WF_socketvars(Dry(k))
        /\ WF_socketvars(CleanUp(k))

Spec == Init /\ [][Next]_socketvars /\ Fairness

-------------------------------------------------------------------------------
\* A page is told the sample rate before anything else, however soon audio is
\* sent to it (the hello frame is queued before the sink is published).
HelloFirst == \A k \in Conn : page[k] # "confused"

\* A board that has caught up with its queue shows the last call event sent to
\* it, unless one was dropped because the socket was full (send_call).
BoardIsCurrent ==
    \A k \in Conn :
        writer[k] = "on" /\ queue[k] = <<>> => told[k] \in {page[k], "lost"}

\* Nothing is sent to a client whose tokens are revoked, except through a
\* handshake that had already looked its token up (revoke_player).
RevokedIsDeaf ==
    \A c \in Client : sink[c] # None /\ revoked[sink[c]] # "looked" => Authorized(c)

\* A sink leads to a socket of that client, and to none that was cleaned up.
SinkIsLive ==
    \A c \in Client : sink[c] # None =>
        who[sink[c]] = c /\ stage[sink[c]] \in {"open", "closing"}

\* The end of a call that stays over reaches every board it was sent to and
\* stays there, unless an event was dropped: no module stays lit for ever.
BoardGoesDark ==
    \A k \in Conn :
        []<>(writer[k] = "on" /\ told[k] = "dark" => page[k] = "dark")

\* The socket of a client whose tokens are gone stops being written to.
RevokedFallsSilent ==
    \A k \in Conn :
        (stage[k] = "open" /\ revoked[k] # "looked" /\ ~Authorized(who[k]))
        ~> (writer[k] = "done" \/ Authorized(who[k]))

\* Whoever connected last is who is sent to: `sinks` maps a client to "their
\* live socket", until it closes, breaks, or the client is revoked.
LiveSocketIsServed ==
    \A k \in Conn :
        (stage[k] = "open" /\ writer[k] = "on" /\ revoked[k] = "never"
         /\ \A j \in Conn \ {k} : stage[j] \in {"new", "closed"})
        => sink[who[k]] = k
===============================================================================
