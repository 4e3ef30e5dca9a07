----------------------------- MODULE SocketsProofs -----------------------------
(***************************************************************************)
(* The sinks of module Sockets lead where they should, for any clients,    *)
(* tokens, connections and queues: an inductive invariant that relates     *)
(* each sink to the stage of the socket behind it and to the tokens of its *)
(* client.                                                                 *)
(***************************************************************************)
EXTENDS Sockets, TLAPS

Stage == {"new", "looked", "open", "closing", "closed"}

SocketsTypeOK ==
    /\ tokens \subseteq Token
    /\ sink \in [Client -> Conn \cup {None}]
    /\ stage \in [Conn -> Stage]
    /\ who \in [Conn -> Client \cup {None}]
    /\ queue \in [Conn -> Seq({"hello"} \cup Sent)]
    /\ writer \in [Conn -> {"off", "on", "done"}]
    /\ page \in [Conn -> {"blank", "lit", "dark", "confused"}]
    /\ told \in [Conn -> {"lit", "dark", "lost"}]
    /\ revoked \in [Conn -> Stage \cup {"never"}]

\* A connection belongs to the client its token named from its handshake to its
\* cleanup, and a revocation before the sink is published is on record as such.
Owned ==
    \A k \in Conn :
        /\ stage[k] \in {"looked", "open", "closing"} => who[k] \in Client
        /\ stage[k] = "new" => who[k] = None /\ revoked[k] = "never"
        /\ stage[k] = "looked" => revoked[k] \in {"never", "looked"}
        /\ writer[k] = "on" => stage[k] \in {"open", "closing"}
        /\ stage[k] \in {"new", "looked"} => page[k] = "blank"

\* A client whose handshake is half done has a token, unless it was revoked.
LookedIsAuthorized ==
    \A k \in Conn : stage[k] = "looked" /\ revoked[k] # "looked" => Authorized(who[k])

\* The first frame a blank page will be given is the sample rate.
HelloIsNext ==
    \A k \in Conn : writer[k] = "on" /\ page[k] = "blank" =>
        queue[k] # <<>> /\ Head(queue[k]) = "hello"

SocketsInv ==
    SocketsTypeOK /\ Owned /\ SinkIsLive /\ LookedIsAuthorized /\ RevokedIsDeaf
    /\ HelloIsNext /\ HelloFirst

-------------------------------------------------------------------------------

\* Every action keeps the types.
LEMMA TypePreserved ==
    ASSUME SocketsTypeOK, Owned, [Next]_socketvars
    PROVE  SocketsTypeOK'
<1> USE SocketsAssumption DEF SocketsTypeOK, Owned, Stage
<1>1. ASSUME NEW t \in Token, Authorize(t) PROVE SocketsTypeOK'
    BY <1>1 DEF Authorize, history
<1>2. ASSUME NEW C \in SUBSET Client \ {{}}, Revoke(C) PROVE SocketsTypeOK'
    BY <1>2 DEF Revoke, Forget
<1>3. ASSUME NEW k \in Conn, NEW t \in Token, LookUp(k, t) PROVE SocketsTypeOK'
    BY <1>3 DEF LookUp, table, history
<1>4. ASSUME NEW c \in Client, NEW f \in Sent, Send(c, f) PROVE SocketsTypeOK'
  <2> DEFINE frames == {"hello"} \cup Sent
             k      == sink[c]
  <2>1. k \in Conn /\ queue[k] \in Seq(frames)
    BY <1>4 DEF Send
  <2>2. Append(queue[k], f) \in Seq(frames)
    BY <2>1
  <2>3. \/ queue' = [queue EXCEPT ![k] = Append(queue[k], f)]
        \/ queue' = queue
    BY <1>4 DEF Send, Enqueue
  <2>4. queue' \in [Conn -> Seq(frames)]
    <3>1. queue \in [Conn -> Seq(frames)]
      OBVIOUS
    <3> HIDE DEF frames, k
    <3>2. [queue EXCEPT ![k] = Append(queue[k], f)] \in [Conn -> Seq(frames)]
      BY <2>2, <3>1, Zenon
    <3> QED BY <2>3, <3>1, <3>2, Zenon
  <2>5. told' \in [Conn -> {"lit", "dark", "lost"}]
    BY <1>4, <2>1 DEF Send, Event
  <2> QED BY <1>4, <2>4, <2>5 DEF Send, table
<1>5. ASSUME NEW k \in Conn, Publish(k) PROVE SocketsTypeOK'
    BY <1>5 DEF Publish, Greeting, history
<1>6. ASSUME NEW k \in Conn, Write(k) PROVE SocketsTypeOK'
    BY <1>6 DEF Write, table, history, Shown, Event
<1>7. ASSUME NEW k \in Conn, Dry(k) PROVE SocketsTypeOK'
    BY <1>7 DEF Dry, StopWriter, table
<1>8. ASSUME NEW k \in Conn, WriteFails(k) PROVE SocketsTypeOK'
    BY <1>8 DEF WriteFails, StopWriter, table
<1>9. ASSUME NEW k \in Conn, Close(k) PROVE SocketsTypeOK'
    BY <1>9 DEF Close, table, history
<1>10. ASSUME NEW k \in Conn, CleanUp(k) PROVE SocketsTypeOK'
    BY <1>10 DEF CleanUp, StopWriter, SinkRemoved
<1>11. CASE UNCHANGED socketvars
    BY <1>11 DEF socketvars
<1> QED
    BY <1>1, <1>2, <1>3, <1>4, <1>5, <1>6, <1>7, <1>8, <1>9, <1>10, <1>11 DEF Next

\* A connection keeps its client until it is cleaned up.
LEMMA OwnedPreserved ==
    ASSUME SocketsTypeOK, Owned, [Next]_socketvars
    PROVE  Owned'
<1> USE SocketsAssumption DEF SocketsTypeOK, Owned, Stage
<1>1. ASSUME NEW t \in Token, Authorize(t) PROVE Owned'
    BY <1>1 DEF Authorize, history
<1>2. ASSUME NEW C \in SUBSET Client \ {{}}, Revoke(C) PROVE Owned'
    BY <1>2 DEF Revoke, Forget
<1>3. ASSUME NEW k \in Conn, NEW t \in Token, LookUp(k, t) PROVE Owned'
    BY <1>3 DEF LookUp, table, history
<1>4. ASSUME NEW c \in Client, NEW f \in Sent, Send(c, f) PROVE Owned'
    BY <1>4 DEF Send, table, Enqueue
<1>5. ASSUME NEW k \in Conn, Publish(k) PROVE Owned'
    BY <1>5 DEF Publish, Greeting, history
<1>6. ASSUME NEW k \in Conn, Write(k) PROVE Owned'
    BY <1>6 DEF Write, table, history, Shown, Event
<1>7. ASSUME NEW k \in Conn, Dry(k) PROVE Owned'
    BY <1>7 DEF Dry, StopWriter, table
<1>8. ASSUME NEW k \in Conn, WriteFails(k) PROVE Owned'
    BY <1>8 DEF WriteFails, StopWriter, table
<1>9. ASSUME NEW k \in Conn, Close(k) PROVE Owned'
    BY <1>9 DEF Close, table, history
<1>10. ASSUME NEW k \in Conn, CleanUp(k) PROVE Owned'
    BY <1>10 DEF CleanUp, StopWriter, SinkRemoved
<1>11. CASE UNCHANGED socketvars
    BY <1>11 DEF socketvars
<1> QED
    BY <1>1, <1>2, <1>3, <1>4, <1>5, <1>6, <1>7, <1>8, <1>9, <1>10, <1>11 DEF Next

\* A sink is published by its own socket and removed with it.
LEMMA SinkPreserved ==
    ASSUME SocketsTypeOK, Owned, SinkIsLive, [Next]_socketvars
    PROVE  SinkIsLive'
<1> USE SocketsAssumption DEF SocketsTypeOK, Owned, Stage, SinkIsLive
<1>1. ASSUME NEW t \in Token, Authorize(t) PROVE SinkIsLive'
    BY <1>1 DEF Authorize, history
<1>2. ASSUME NEW C \in SUBSET Client \ {{}}, Revoke(C) PROVE SinkIsLive'
    BY <1>2 DEF Revoke, Forget
<1>3. ASSUME NEW k \in Conn, NEW t \in Token, LookUp(k, t) PROVE SinkIsLive'
    BY <1>3 DEF LookUp, table, history
<1>4. ASSUME NEW c \in Client, NEW f \in Sent, Send(c, f) PROVE SinkIsLive'
    BY <1>4 DEF Send, table, Enqueue
<1>5. ASSUME NEW k \in Conn, Publish(k) PROVE SinkIsLive'
    BY <1>5 DEF Publish, Greeting, history
<1>6. ASSUME NEW k \in Conn, Write(k) PROVE SinkIsLive'
    BY <1>6 DEF Write, table, history, Shown, Event
<1>7. ASSUME NEW k \in Conn, Dry(k) PROVE SinkIsLive'
    BY <1>7 DEF Dry, StopWriter, table
<1>8. ASSUME NEW k \in Conn, WriteFails(k) PROVE SinkIsLive'
    BY <1>8 DEF WriteFails, StopWriter, table
<1>9. ASSUME NEW k \in Conn, Close(k) PROVE SinkIsLive'
    BY <1>9 DEF Close, table, history
<1>10. ASSUME NEW k \in Conn, CleanUp(k) PROVE SinkIsLive'
    BY <1>10 DEF CleanUp, StopWriter, SinkRemoved
<1>11. CASE UNCHANGED socketvars
    BY <1>11 DEF socketvars
<1> QED
    BY <1>1, <1>2, <1>3, <1>4, <1>5, <1>6, <1>7, <1>8, <1>9, <1>10, <1>11 DEF Next

\* A half-done handshake holds a token until a revocation takes note of it.
LEMMA TokenPreserved ==
    ASSUME SocketsTypeOK, Owned, LookedIsAuthorized, [Next]_socketvars
    PROVE  LookedIsAuthorized'
<1> USE SocketsAssumption DEF SocketsTypeOK, Owned, Stage, LookedIsAuthorized, Authorized
<1>1. ASSUME NEW t \in Token, Authorize(t) PROVE LookedIsAuthorized'
    BY <1>1 DEF Authorize, history
<1>2. ASSUME NEW C \in SUBSET Client \ {{}}, Revoke(C) PROVE LookedIsAuthorized'
    BY <1>2 DEF Revoke, Forget
<1>3. ASSUME NEW k \in Conn, NEW t \in Token, LookUp(k, t) PROVE LookedIsAuthorized'
    BY <1>3 DEF LookUp, table, history
<1>4. ASSUME NEW c \in Client, NEW f \in Sent, Send(c, f) PROVE LookedIsAuthorized'
    BY <1>4 DEF Send, table, Enqueue
<1>5. ASSUME NEW k \in Conn, Publish(k) PROVE LookedIsAuthorized'
    BY <1>5 DEF Publish, Greeting, history
<1>6. ASSUME NEW k \in Conn, Write(k) PROVE LookedIsAuthorized'
    BY <1>6 DEF Write, table, history, Shown, Event
<1>7. ASSUME NEW k \in Conn, Dry(k) PROVE LookedIsAuthorized'
    BY <1>7 DEF Dry, StopWriter, table
<1>8. ASSUME NEW k \in Conn, WriteFails(k) PROVE LookedIsAuthorized'
    BY <1>8 DEF WriteFails, StopWriter, table
<1>9. ASSUME NEW k \in Conn, Close(k) PROVE LookedIsAuthorized'
    BY <1>9 DEF Close, table, history
<1>10. ASSUME NEW k \in Conn, CleanUp(k) PROVE LookedIsAuthorized'
    BY <1>10 DEF CleanUp, StopWriter, SinkRemoved
<1>11. CASE UNCHANGED socketvars
    BY <1>11 DEF socketvars
<1> QED
    BY <1>1, <1>2, <1>3, <1>4, <1>5, <1>6, <1>7, <1>8, <1>9, <1>10, <1>11 DEF Next

\* A revocation takes the sink with the tokens.
LEMMA DeafPreserved ==
    ASSUME SocketsTypeOK, Owned, SinkIsLive, LookedIsAuthorized, RevokedIsDeaf, [Next]_socketvars
    PROVE  RevokedIsDeaf'
<1> USE SocketsAssumption DEF SocketsTypeOK, Owned, Stage, SinkIsLive, LookedIsAuthorized, RevokedIsDeaf, Authorized
<1>1. ASSUME NEW t \in Token, Authorize(t) PROVE RevokedIsDeaf'
    BY <1>1 DEF Authorize, history
<1>2. ASSUME NEW C \in SUBSET Client \ {{}}, Revoke(C) PROVE RevokedIsDeaf'
    BY <1>2 DEF Revoke, Forget
<1>3. ASSUME NEW k \in Conn, NEW t \in Token, LookUp(k, t) PROVE RevokedIsDeaf'
    BY <1>3 DEF LookUp, table, history
<1>4. ASSUME NEW c \in Client, NEW f \in Sent, Send(c, f) PROVE RevokedIsDeaf'
    BY <1>4 DEF Send, table, Enqueue
<1>5. ASSUME NEW k \in Conn, Publish(k) PROVE RevokedIsDeaf'
    BY <1>5 DEF Publish, Greeting, history
<1>6. ASSUME NEW k \in Conn, Write(k) PROVE RevokedIsDeaf'
    BY <1>6 DEF Write, table, history, Shown, Event
<1>7. ASSUME NEW k \in Conn, Dry(k) PROVE RevokedIsDeaf'
    BY <1>7 DEF Dry, StopWriter, table
<1>8. ASSUME NEW k \in Conn, WriteFails(k) PROVE RevokedIsDeaf'
    BY <1>8 DEF WriteFails, StopWriter, table
<1>9. ASSUME NEW k \in Conn, Close(k) PROVE RevokedIsDeaf'
    BY <1>9 DEF Close, table, history
<1>10. ASSUME NEW k \in Conn, CleanUp(k) PROVE RevokedIsDeaf'
    BY <1>10 DEF CleanUp, StopWriter, SinkRemoved
<1>11. CASE UNCHANGED socketvars
    BY <1>11 DEF socketvars
<1> QED
    BY <1>1, <1>2, <1>3, <1>4, <1>5, <1>6, <1>7, <1>8, <1>9, <1>10, <1>11 DEF Next

\* The sample rate stays at the head of the queue until it is shown.
LEMMA HelloPreserved ==
    ASSUME SocketsTypeOK, Owned, HelloIsNext, HelloFirst, [Next]_socketvars
    PROVE  HelloIsNext' /\ HelloFirst'
<1> USE SocketsAssumption DEF SocketsTypeOK, Owned, Stage, HelloIsNext, HelloFirst
<1>1. ASSUME NEW t \in Token, Authorize(t) PROVE HelloIsNext' /\ HelloFirst'
    BY <1>1 DEF Authorize, history
<1>2. ASSUME NEW C \in SUBSET Client \ {{}}, Revoke(C) PROVE HelloIsNext' /\ HelloFirst'
    BY <1>2 DEF Revoke, Forget
<1>3. ASSUME NEW k \in Conn, NEW t \in Token, LookUp(k, t) PROVE HelloIsNext' /\ HelloFirst'
    BY <1>3 DEF LookUp, table, history
<1>4. ASSUME NEW c \in Client, NEW f \in Sent, Send(c, f) PROVE HelloIsNext' /\ HelloFirst'
  <2> SUFFICES ASSUME NEW k \in Conn, writer[k] = "on", page[k] = "blank"
               PROVE  queue'[k] # <<>> /\ Head(queue'[k]) = "hello"
    BY <1>4 DEF Send
  <2>1. queue[k] \in Seq({"hello"} \cup Sent) /\ queue[k] # <<>> /\ Head(queue[k]) = "hello"
    OBVIOUS
  <2>2. Append(queue[k], f) # <<>> /\ Head(Append(queue[k], f)) = "hello"
    <3> DEFINE frames == {"hello"} \cup Sent
    <3>1. f \in frames /\ queue[k] \in Seq(frames)
      BY <2>1
    <3>2. Len(queue[k]) \in Nat \ {0}
      BY <2>1
    <3>3. Len(Append(queue[k], f)) = Len(queue[k]) + 1 /\ Append(queue[k], f)[1] = queue[k][1]
      BY <3>1, <3>2
    <3> HIDE DEF frames
    <3> QED BY <2>1, <3>1, <3>2, <3>3
  <2>3. queue'[k] \in {queue[k], Append(queue[k], f)}
    BY <1>4 DEF Send, Enqueue
  <2> QED BY <2>1, <2>2, <2>3
<1>5. ASSUME NEW k \in Conn, Publish(k) PROVE HelloIsNext' /\ HelloFirst'
    BY <1>5 DEF Publish, Greeting, history
<1>6. ASSUME NEW k \in Conn, Write(k) PROVE HelloIsNext' /\ HelloFirst'
    BY <1>6 DEF Write, table, history, Shown, Event
<1>7. ASSUME NEW k \in Conn, Dry(k) PROVE HelloIsNext' /\ HelloFirst'
    BY <1>7 DEF Dry, StopWriter, table
<1>8. ASSUME NEW k \in Conn, WriteFails(k) PROVE HelloIsNext' /\ HelloFirst'
    BY <1>8 DEF WriteFails, StopWriter, table
<1>9. ASSUME NEW k \in Conn, Close(k) PROVE HelloIsNext' /\ HelloFirst'
    BY <1>9 DEF Close, table, history
<1>10. ASSUME NEW k \in Conn, CleanUp(k) PROVE HelloIsNext' /\ HelloFirst'
    BY <1>10 DEF CleanUp, StopWriter, SinkRemoved
<1>11. CASE UNCHANGED socketvars
    BY <1>11 DEF socketvars
<1> QED
    BY <1>1, <1>2, <1>3, <1>4, <1>5, <1>6, <1>7, <1>8, <1>9, <1>10, <1>11 DEF Next

\* The invariant holds at the start, and no action breaks it.
LEMMA SocketsInductive ==
    Spec => []SocketsInv
<1>1. Init => SocketsInv
    BY SocketsAssumption DEF Init, SocketsInv, SocketsTypeOK, Stage, Owned, SinkIsLive,
       LookedIsAuthorized, RevokedIsDeaf, HelloIsNext, HelloFirst
<1>2. SocketsInv /\ [Next]_socketvars => SocketsInv'
    BY TypePreserved, OwnedPreserved, SinkPreserved, TokenPreserved, DeafPreserved,
       HelloPreserved DEF SocketsInv
<1> QED
    BY <1>1, <1>2, PTL DEF Spec

-------------------------------------------------------------------------------
\* A sink leads to a socket of its client that has not been cleaned up: every
\* cleanup takes the client's sink with it, at the end of the socket's task.
THEOREM SinksAreLive ==
    Spec => []SinkIsLive
<1>1. SocketsInv => SinkIsLive
    BY DEF SocketsInv
<1> QED
    BY <1>1, SocketsInductive, PTL

\* A client none of whose tokens is left is sent nothing (revoke_player takes
\* its sink with its tokens), unless its handshake had read the token already.
THEOREM RevokedHearNothing ==
    Spec => []RevokedIsDeaf
<1>1. SocketsInv => RevokedIsDeaf
    BY DEF SocketsInv
<1> QED
    BY <1>1, SocketsInductive, PTL

\* The first thing a page is told is the sample rate: the hello frame is queued
\* before the sink through which anybody else could queue a frame is published.
THEOREM HelloComesFirst ==
    Spec => []HelloFirst
<1>1. SocketsInv => HelloFirst
    BY DEF SocketsInv
<1> QED
    BY <1>1, SocketsInductive, PTL

-------------------------------------------------------------------------------
\* A page without events to come shows the last one; one that is to be greeted
\* first will show none.
Settled(q, shown, last) ==
    /\ \A i \in 1..Len(q) : q[i] \notin Event
    /\ shown = last \/ (shown = "blank" /\ last = "dark")

\* The last event to come is the last one there is.
Coming(q, last) ==
    \E i \in 1..Len(q) : /\ q[i] = last /\ last \in Event
                         /\ \A j \in (i + 1)..Len(q) : q[j] \notin Event

\* Where nothing was dropped, page and queue together end with the last event.
WillBeCurrent ==
    \A k \in Conn :
        IF writer[k] = "on"
        THEN told[k] # "lost" => Settled(queue[k], page[k], told[k]) \/ Coming(queue[k], told[k])
        ELSE told[k] = "dark"

\* What is queued comes last.
LEMMA QueuedComesLast ==
    ASSUME NEW S, NEW q \in Seq(S), NEW f \in S, NEW shown, NEW last,
           Settled(q, shown, last) \/ Coming(q, last)
    PROVE  /\ f \in Event => Coming(Append(q, f), f)
           /\ f \notin Event => \/ Settled(Append(q, f), shown, last)
                                \/ Coming(Append(q, f), last)
<1>1. /\ Len(q) \in Nat /\ Len(Append(q, f)) = Len(q) + 1 /\ Append(q, f)[Len(q) + 1] = f
      /\ \A i \in 1..Len(q) : Append(q, f)[i] = q[i]
    OBVIOUS
<1>2. /\ Len(q) + 1 \in 1..Len(q) + 1 /\ \A j \in (Len(q) + 1 + 1)..(Len(q) + 1) : FALSE
      /\ \A i \in 1..Len(q) : i \in 1..Len(q) + 1
      /\ \A i \in 1..Len(q) + 1 : i \in 1..Len(q) \/ i = Len(q) + 1
      /\ \A i \in 1..Len(q) : \A j \in (i + 1)..(Len(q) + 1) :
            (j \in (i + 1)..Len(q) /\ j \in 1..Len(q)) \/ j = Len(q) + 1
    BY <1>1
<1>3. f \in Event => Coming(Append(q, f), f)
    BY <1>1, <1>2 DEF Coming
<1>4. ASSUME f \notin Event
      PROVE  Settled(Append(q, f), shown, last) \/ Coming(Append(q, f), last)
  <2>1. CASE Settled(q, shown, last)
      BY <1>1, <1>2, <1>4, <2>1 DEF Settled
  <2>2. CASE Coming(q, last)
    <3>1. PICK i \in 1..Len(q) : /\ q[i] = last /\ last \in Event
                                 /\ \A j \in (i + 1)..Len(q) : q[j] \notin Event
        BY <2>2 DEF Coming
    <3>2. \A j \in (i + 1)..(Len(q) + 1) : Append(q, f)[j] \notin Event
        BY <1>1, <1>2, <1>4, <3>1
    <3> QED BY <1>1, <1>2, <3>1, <3>2 DEF Coming
  <2> QED BY <2>1, <2>2
<1> QED BY <1>3, <1>4

\* What is written is shown, and the rest is still to come.
LEMMA WrittenIsShown ==
    ASSUME NEW S, NEW q \in Seq(S), q # <<>>, NEW shown, NEW next, NEW last, last # "blank",
           Settled(q, shown, last) \/ Coming(q, last),
           Head(q) \in Event => next = Head(q),
           Head(q) \notin Event => next = shown \/ (shown = "blank" /\ next = "dark")
    PROVE  Settled(Tail(q), next, last) \/ Coming(Tail(q), last)
<1>1. /\ Len(q) \in Nat /\ Len(q) >= 1 /\ Len(Tail(q)) = Len(q) - 1 /\ Head(q) = q[1]
      /\ \A i \in 1..Len(q) - 1 : Tail(q)[i] = q[i + 1]
    OBVIOUS
<1>2. 1 \in 1..Len(q) /\ \A i \in 1..Len(q) - 1 : i + 1 \in 1..Len(q)
    BY <1>1
<1>3. CASE Settled(q, shown, last)
  <2>1. /\ \A i \in 1..Len(Tail(q)) : Tail(q)[i] \notin Event
        /\ Head(q) \notin Event
      BY <1>1, <1>2, <1>3 DEF Settled
  <2>2. \/ next = last
        \/ next = "blank" /\ last = "dark"
      BY <1>3, <2>1 DEF Settled
  <2> DEFINE rest == Tail(q)
  <2>3. \A i \in 1..Len(rest) : rest[i] \notin Event
      BY <2>1
  <2> HIDE DEF rest
  <2>4. Settled(rest, next, last)
      BY <2>2, <2>3 DEF Settled
  <2> QED BY <2>4 DEF rest
<1>4. CASE Coming(q, last)
  <2>1. PICK i \in 1..Len(q) : /\ q[i] = last /\ last \in Event
                               /\ \A j \in (i + 1)..Len(q) : q[j] \notin Event
      BY <1>4 DEF Coming
  <2>2. CASE i = 1
    <3>1. next = last
        BY <1>1, <2>1, <2>2
    <3>2. \A j \in 1..Len(q) - 1 : j + 1 \in (i + 1)..Len(q)
        BY <1>1, <2>2
    <3>3. \A j \in 1..Len(Tail(q)) : Tail(q)[j] \notin Event
        BY <1>1, <2>1, <3>2
    <3> DEFINE rest == Tail(q)
    <3>4. \A j \in 1..Len(rest) : rest[j] \notin Event
        BY <3>3
    <3> HIDE DEF rest
    <3>5. Settled(rest, next, last)
        BY <3>1, <3>4 DEF Settled
    <3> QED BY <3>5 DEF rest
  <2>3. CASE i # 1
    <3>1. /\ i - 1 \in 1..Len(q) - 1 /\ i - 1 + 1 = i
          /\ \A j \in (i - 1 + 1)..(Len(q) - 1) : j \in 1..Len(q) - 1 /\ j + 1 \in (i + 1)..Len(q)
        BY <1>1, <2>1, <2>3
    <3>2. Tail(q)[i - 1] = last
        BY <1>1, <2>1, <3>1
    <3>3. \A j \in (i - 1 + 1)..(Len(q) - 1) : Tail(q)[j] \notin Event
        BY <1>1, <2>1, <3>1
    <3> QED BY <1>1, <2>1, <3>1, <3>2, <3>3 DEF Coming
  <2> QED BY <2>2, <2>3
<1> QED BY <1>3, <1>4

\* Every step keeps pages on their way to the last event.
LEMMA CurrentKept ==
    ASSUME SocketsInv, WillBeCurrent, [Next]_socketvars
    PROVE  WillBeCurrent'
<1> USE SocketsAssumption DEF SocketsInv, SocketsTypeOK
<1> SUFFICES ASSUME NEW k \in Conn
             PROVE  IF writer'[k] = "on"
                    THEN told'[k] # "lost" => \/ Settled(queue'[k], page'[k], told'[k])
                                              \/ Coming(queue'[k], told'[k])
                    ELSE told'[k] = "dark"
    BY DEF WillBeCurrent
<1> DEFINE fine == IF writer'[k] = "on"
                   THEN told'[k] # "lost" => \/ Settled(queue'[k], page'[k], told'[k])
                                             \/ Coming(queue'[k], told'[k])
                   ELSE told'[k] = "dark"
<1>1. ASSUME writer'[k] = writer[k], queue'[k] = queue[k], page'[k] = page[k],
             told'[k] = told[k]
      PROVE  fine
    BY <1>1 DEF WillBeCurrent
<1>2. ASSUME writer'[k] # "on", told'[k] = "dark" PROVE fine
    BY <1>2
<1>3. ASSUME NEW c \in Client, NEW f \in Sent, Send(c, f) PROVE fine
  <2>1. CASE sink[c] # k
      BY <1>1, <1>3, <2>1 DEF Send
  <2>2. CASE sink[c] = k /\ writer[k] # "on"
      BY <1>1, <1>3, <2>2 DEF Send
  <2>3. CASE sink[c] = k /\ writer[k] = "on" /\ Len(queue[k]) < QUEUE
    <3>1. /\ queue'[k] = Append(queue[k], f) /\ page'[k] = page[k] /\ writer'[k] = "on"
          /\ told'[k] = IF f \in Event /\ told[k] # "lost" THEN f ELSE told[k]
        BY <1>3, <2>3 DEF Send, Enqueue
    <3>2. queue[k] \in Seq({"hello"} \cup Sent) /\ f \in {"hello"} \cup Sent
        OBVIOUS
    <3>3. CASE told[k] = "lost"
        BY <3>1, <3>3
    <3>4. CASE told[k] # "lost"
      <4>1. Settled(queue[k], page[k], told[k]) \/ Coming(queue[k], told[k])
          BY <2>3, <3>4 DEF WillBeCurrent
      <4>2. /\ f \in Event => Coming(Append(queue[k], f), f)
            /\ f \notin Event => \/ Settled(Append(queue[k], f), page[k], told[k])
                                 \/ Coming(Append(queue[k], f), told[k])
          BY <3>2, <4>1, QueuedComesLast
      <4> QED BY <3>1, <3>4, <4>2
    <3> QED BY <3>3, <3>4
  <2>4. CASE sink[c] = k /\ writer[k] = "on" /\ ~(Len(queue[k]) < QUEUE)
    <3>1. /\ queue'[k] = queue[k] /\ page'[k] = page[k] /\ writer'[k] = writer[k]
          /\ told'[k] = IF f \in Event /\ told[k] # "lost" THEN "lost" ELSE told[k]
        BY <1>3, <2>4 DEF Send
    <3>2. CASE told'[k] = "lost"
        BY <2>4, <3>1, <3>2
    <3>3. CASE told'[k] # "lost"
      <4>1. told'[k] = told[k]
          BY <3>1, <3>3
      <4> QED BY <1>1, <3>1, <4>1
    <3> QED BY <3>2, <3>3
  <2> QED BY <2>1, <2>2, <2>3, <2>4
<1>4. ASSUME NEW j \in Conn, Publish(j) PROVE fine
  <2>1. CASE j # k
      BY <1>1, <1>4, <2>1 DEF Publish, history
  <2>2. CASE j = k
    <3>1. stage[k] = "looked" /\ page[k] = "blank" /\ writer[k] # "on"
        BY <1>4, <2>2 DEF Publish, Owned
    <3>2. /\ queue'[k] = <<"hello">> /\ page'[k] = "blank" /\ told'[k] = "dark"
          /\ writer'[k] = "on"
        BY <1>4, <2>2, <3>1 DEF Publish, Greeting, history, WillBeCurrent
    <3>3. Settled(<<"hello">>, "blank", "dark")
        BY DEF Settled, Event
    <3> QED BY <3>2, <3>3
  <2> QED BY <2>1, <2>2
<1>5. ASSUME NEW j \in Conn, Write(j) PROVE fine
  <2>1. CASE j # k
      BY <1>1, <1>5, <2>1 DEF Write, history
  <2>2. CASE j = k
    <3>1. /\ queue[k] # <<>> /\ queue'[k] = Tail(queue[k])
          /\ writer[k] = "on" /\ writer'[k] = "on" /\ told'[k] = told[k]
          /\ page'[k] = IF page[k] = "blank" THEN Shown(Head(queue[k]))
                        ELSE IF Head(queue[k]) \in Event THEN Head(queue[k]) ELSE page[k]
        BY <1>5, <2>2 DEF Write, history
    <3>2. page[k] = "blank" => Head(queue[k]) = "hello"
        BY <3>1 DEF HelloIsNext
    <3>3. /\ Head(queue[k]) \in Event => page'[k] = Head(queue[k])
          /\ Head(queue[k]) \notin Event =>
                page'[k] = page[k] \/ (page[k] = "blank" /\ page'[k] = "dark")
      <4>1. CASE page[k] = "blank"
        <5>1. Head(queue[k]) = "hello" /\ page'[k] = "dark"
            BY <3>1, <3>2, <4>1 DEF Shown
        <5> QED BY <4>1, <5>1 DEF Event
      <4>2. CASE page[k] # "blank"
        <5> HIDE DEF SocketsInv, SocketsTypeOK
        <5> DEFINE first == Head(queue[k])
        <5>1. page'[k] = IF first \in Event THEN first ELSE page[k]
            BY <3>1, <4>2
        <5> HIDE DEF first
        <5>2. /\ first \in Event => page'[k] = first
              /\ first \notin Event => page'[k] = page[k]
            BY <5>1
        <5> QED BY <5>2 DEF first
      <4> QED BY <4>1, <4>2
    <3>4. CASE told[k] # "lost"
      <4>1. Settled(queue[k], page[k], told[k]) \/ Coming(queue[k], told[k])
          BY <3>1, <3>4 DEF WillBeCurrent
      <4>2. queue[k] \in Seq({"hello"} \cup Sent)
          OBVIOUS
      <4>3. Settled(Tail(queue[k]), page'[k], told[k]) \/ Coming(Tail(queue[k]), told[k])
          BY <3>1, <3>3, <4>1, <4>2, WrittenIsShown
      <4> QED BY <3>1, <4>3
    <3> QED BY <3>1, <3>4
  <2> QED BY <2>1, <2>2
<1>6. ASSUME NEW j \in Conn, StopWriter(j) PROVE fine
  <2>1. CASE j # k
      BY <1>1, <1>6, <2>1 DEF StopWriter
  <2>2. CASE j = k
      BY <1>2, <1>6, <2>2 DEF StopWriter
  <2> QED BY <2>1, <2>2
<1>7. ASSUME UNCHANGED <<queue, writer, page, told>> PROVE fine
    BY <1>1, <1>7
<1> HIDE DEF fine
<1>8. (\E t \in Token : Authorize(t)) \/ (\E C \in SUBSET Client \ {{}} : Revoke(C)) => fine
    BY <1>7 DEF Authorize, Revoke, history
<1>9. \A j \in Conn : (\E t \in Token : LookUp(j, t)) \/ Close(j) => fine
    BY <1>7 DEF LookUp, Close, history
<1>10. \A j \in Conn : Dry(j) \/ WriteFails(j) \/ CleanUp(j) => fine
    BY <1>6 DEF Dry, WriteFails, CleanUp
<1>11. UNCHANGED socketvars => fine
    BY <1>7 DEF socketvars, history
<1>12. fine
  <2> HIDE DEF SocketsInv, SocketsTypeOK
  <2> QED BY <1>3, <1>4, <1>5, <1>8, <1>9, <1>10, <1>11 DEF Next
<1> QED BY <1>12 DEF fine

\* A board that has caught up with its queue shows the last call event sent to
\* it, or one was dropped for want of room (Streams::send_call and the writer,
\* which keeps their order).
THEOREM BoardsAreCurrent ==
    Spec => []BoardIsCurrent
<1>1. Init => WillBeCurrent
    BY DEF Init, WillBeCurrent
<1>2. SocketsInv /\ WillBeCurrent /\ [Next]_socketvars => WillBeCurrent'
    BY CurrentKept
<1>3. SocketsInv /\ WillBeCurrent => BoardIsCurrent
  <2> SUFFICES ASSUME SocketsInv, WillBeCurrent, NEW k \in Conn, writer[k] = "on",
                      queue[k] = <<>>, told[k] # "lost"
               PROVE  told[k] = page[k]
      BY DEF BoardIsCurrent
  <2>1. \A i \in 1..Len(queue[k]) : FALSE
      OBVIOUS
  <2>2. page[k] # "blank"
      BY DEF SocketsInv, HelloIsNext
  <2> QED BY <2>1, <2>2 DEF WillBeCurrent, Settled, Coming
<1> QED
    BY <1>1, <1>2, <1>3, SocketsInductive, PTL DEF Spec
===============================================================================
