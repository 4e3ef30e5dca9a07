------------------------------ MODULE CallsProofs ------------------------------
(***************************************************************************)
(* The calls of module Calls, for any routes, boards, patch tables, units  *)
(* and consoles: what a socket's task has still to do is enough, at every  *)
(* point where the locks are free, to account for each recording that is   *)
(* open, each talker that is not yet recorded and each module not yet lit. *)
(***************************************************************************)
EXTENDS Calls, RouterProofs, WellFoundedInduction

Step ==
    {NoStep} \cup [do : {"begin", "dark"}, tg : Tg, watching : SUBSET Console]
             \cup [do : {"end"}, tg : Tg]

PlaneTypes ==
    /\ online \subseteq Console
    /\ down \in [Client -> Optional(Tg)]
    /\ recording \subseteq Tg
    /\ lit \in [Console -> SUBSET Tg]
    /\ step \in [Console -> Step]

\* Whoever holds a route has a button of its channel down.
HeldOpenly == \A u \in Tg, c \in Client : Holds(u, c) => down[c] \in Joined(u)

\* While a socket's message is half served its console presses nothing else.
OneMessage ==
    \A c \in Console :
        /\ step[c].do = "begin" => keyed_by[c] \in {None, step[c].tg}
        /\ step[c].do \in {"dark", "end"} => keyed_by[c] = None

\* Somebody is there to end each recording: a talker on its channel, a unit
\* that has yet to let go, or a task that is to end that very recording.
Cause(v) ==
    \/ ~IsClear(v)
    \/ \E c \in Unit : down[c] \in Joined(v)
    \/ \E c \in Console : step[c] # NoStep /\ step[c].tg = v

OpenForCause == \A v \in recording \ astray : Cause(v)

\* A task that is to announce a call knows all who watch the route.
ToldToAll ==
    \A c \in Console :
        LET t == step[c].tg
        IN  step[c].do = "begin" /\ t \notin astray /\ Holds(t, c)
            => \A d \in online : Watches(d, t) => d \in step[c].watching

\* c has the route it pressed last.
Talks(t, c) == keyed[t] = c /\ keyed_by[c] = t

Accounted ==
    /\ TookIsChannel /\ HeldOpenly /\ OneMessage /\ OpenForCause /\ ToldToAll
    /\ TalkerIsRecorded /\ LitWhileTalking

CallsInv == TypeOK /\ PlaneTypes /\ Accounted

\* What a task has to do names the route it is about.
LEMMA StepParts ==
    ASSUME PlaneTypes, NEW c \in Console
    PROVE  /\ step[c] # NoStep => step[c].tg \in Tg
           /\ step[c].do \in {"begin", "dark", "end"} <=> step[c] # NoStep
<1>1. step[c] \in Step
    BY DEF PlaneTypes
<1> QED BY <1>1 DEF Step, NoStep

\* A channel is clear when nobody holds any of it.
LEMMA ClearMeans ==
    ASSUME TypeOK, NEW v \in Tg
    PROVE  ~IsClear(v) <=> \E u \in Joined(v), c \in Client : Holds(u, c)
<1>1. Joined(v) \subseteq Tg
    BY JoinedRoutes DEF TypeOK
<1> QED BY <1>1, RouterAssumption DEF IsClear, ClearGiven, Holds, TypeOK, Optional

\* The same of what holds after a step.
LEMMA ClearMeansNext ==
    ASSUME TypeOK, TypeOK', patches' = patches, NEW v \in Tg
    PROVE  /\ Joined(v)' = Joined(v)
           /\ IsClear(v)' <=> ClearGiven(keyed', also', v)
           /\ ~IsClear(v)' <=> \E u \in Joined(v), c \in Client : Holds(u, c)'
<1>1. Joined(v) \subseteq Tg /\ Joined(v)' = Joined(v)
    BY JoinedRoutes DEF TypeOK, Joined
<1> QED BY <1>1, RouterAssumption DEF IsClear, ClearGiven, Holds, TypeOK, Optional

-------------------------------------------------------------------------------
\* What a press does to the router, whether it is accepted or not.
LEMMA PressedDoes ==
    ASSUME TypeOK, NEW t \in Tg, NEW c \in Client, Pressed(t, c)
    PROVE  /\ UNCHANGED <<roster, patches>>
           /\ IF Outcome(t, c) \in Accepted THEN Key(t, c) ELSE UNCHANGED keying
<1>1. CASE Key(t, c)
    BY <1>1 DEF Key
<1>2. CASE KeyBusy(t, c)
    BY <1>2 DEF KeyBusy, Accepted
<1>3. CASE Outcome(t, c) \in {"Refused", "NoRoute"} /\ UNCHANGED vars
    BY <1>3 DEF vars, Accepted
<1> QED BY <1>1, <1>2, <1>3 DEF Pressed

\* A press gives routes to nobody but its client, who has the pressed route
\* when it is granted or taken over, and leaves no busy channel clear.
LEMMA PressGrants ==
    ASSUME TypeOK, TypeOK', NEW t \in Tg, NEW c \in Client, Pressed(t, c)
    PROVE  /\ \A u \in Tg : keyed'[u] \in {keyed[u], c}
           /\ \A u \in Tg, d \in Client : Holds(u, d)' => Holds(u, d) \/ (d = c /\ u \in Joined(t))
           /\ \A v \in Tg : ~IsClear(v) => ~IsClear(v)'
           /\ \A d \in Client : d # c => keyed_by'[d] = keyed_by[d]
           /\ Outcome(t, c) \in Accepted => /\ keyed_by'[c] = t
                                            /\ keyed'[t] = c => Outcome(t, c) \in StartsCall
           /\ Outcome(t, c) \notin Accepted => UNCHANGED keying
           /\ Outcome(t, c) \in Accepted \ StartsCall => ~IsClear(t)
           /\ TookIsChannel => TookIsChannel'
<1>0. patches' = patches /\ \A w \in Tg : Joined(w)' = Joined(w)
    BY PressedDoes DEF Joined
<1>3. ASSUME Outcome(t, c) \in Accepted \ StartsCall PROVE ~IsClear(t)
  <2>1. keyed[t] # None /\ t \in Joined(t)
    BY <1>3, JoinedRoutes DEF Outcome, Verdict, Kind, Accepted, StartsCall, TypeOK
  <2> QED BY <2>1 DEF IsClear, ClearGiven
<1>1. CASE Outcome(t, c) \notin Accepted
  <2>1. UNCHANGED keying
    BY <1>1, PressedDoes
  <2> QED
    BY <1>0, <1>1, <1>3, <2>1 DEF keying, Holds, IsClear, ClearGiven, Joined, TookIsChannel
<1>2. CASE Outcome(t, c) \in Accepted
  <2>0. Key(t, c)
    BY <1>2, PressedDoes
  <2> DEFINE group      == Joined(t)
             preempts   == Outcome(t, c) = "Preempted"
             armed(w)   == <<w, c>> \in pending /\ ~(preempts /\ w # t)
             verdict(w) == IF w = t THEN Outcome(t, c)
                           ELSE Verdict(w, c, Inherited(w, t, c), armed(w))
             left(w)    == IF preempts /\ w # t THEN also[w] \ {keyed[t]} ELSE also[w]
             routes(V)  == {w \in group : verdict(w) \in V}
  <2>1. keyed' = [w \in Tg |->
              IF w \in routes({"Granted", "Preempted"}) THEN c ELSE keyed[w]]
    BY <2>0 DEF Key
  <2>2. also' = [w \in Tg |->
              IF w \in group
              THEN left(w) \cup (IF verdict(w) = "Mixed" THEN {c} ELSE {})
              ELSE also[w]]
    BY <2>0 DEF Key
  <2>3. t \in group /\ group \subseteq Tg /\ verdict(t) = Outcome(t, c)
    BY JoinedRoutes DEF TypeOK
  <2>4. \A u \in Tg, d \in Client : Holds(u, d)' => Holds(u, d) \/ (d = c /\ u \in Joined(t))
    BY <2>0, KeyTakesGroup
  <2>5. keyed_by' = [keyed_by EXCEPT ![c] = t]
    BY <2>0 DEF Key
  <2>6. ASSUME keyed'[t] = c PROVE Outcome(t, c) \in StartsCall
    <3>1. CASE keyed[t] = c
      <4>1. kind[t] \in Kind \cup {"closed"}
        BY DEF TypeOK
      <4>2. Outcome(t, c) \in {"Granted", "NoRoute"}
        BY <3>1, <4>1 DEF Outcome, Verdict, Kind
      <4> QED BY <1>2, <4>2 DEF Accepted, StartsCall
    <3>2. CASE keyed[t] # c
      <4> HIDE DEF verdict
      <4> QED BY <2>1, <2>3, <2>6, <3>2 DEF StartsCall
    <3> QED BY <3>1, <3>2
  <2>7. ASSUME NEW v \in Tg, ~IsClear(v) PROVE ~IsClear(v)'
    <3>1. PICK u \in Joined(v), d \in Client : Holds(u, d)
      BY <2>7, ClearMeans
    <3>2. u \in Tg /\ Joined(u) = Joined(v)
      BY JoinedAlike DEF TypeOK
    <3>3. CASE preempts /\ u \in group
      <4>1. t \in Joined(v)
        BY <2>3, <3>2, <3>3, JoinedAlike DEF TypeOK
      <4>2. Holds(t, c)'
        <5> HIDE DEF verdict
        <5> QED BY <2>1, <2>3, <3>3 DEF Holds
      <4> QED BY <1>0, <4>1, <4>2, ClearMeansNext
    <3>4. CASE ~(preempts /\ u \in group)
      <4>1. also[u] \subseteq also'[u]
        <5> HIDE DEF verdict
        <5> QED BY <2>2, <3>2, <3>4
      <4>2. keyed'[u] \in {c, keyed[u]}
        <5> HIDE DEF verdict
        <5> QED BY <2>1, <3>2
      <4>3. Holds(u, d)' \/ Holds(u, c)'
        BY <3>1, <4>1, <4>2 DEF Holds
      <4> QED BY <1>0, <3>1, <4>3, ClearMeansNext
    <3> QED BY <3>3, <3>4
  <2>8. \A u \in Tg : keyed'[u] \in {keyed[u], c}
    <3> HIDE DEF verdict
    <3> QED BY <2>1
  <2>9. \A d \in Client : keyed_by'[d] = IF d = c THEN t ELSE keyed_by[d]
    BY <2>5 DEF TypeOK
  <2>10. TookIsChannel => TookIsChannel'
    <3>1. took' = [took EXCEPT ![c][t] = Joined(t)]
      BY <2>0 DEF Key
    <3> QED BY <1>0, <3>1 DEF TypeOK, TookIsChannel
  <2> QED BY <1>2, <1>3, <2>4, <2>6, <2>7, <2>8, <2>9, <2>10
<1> QED BY <1>1, <1>2

\* A release gives up what its client has on the channel, and moves no board.
LEMMA UnkeyDoes ==
    ASSUME TypeOK, TookIsChannel, NEW t \in Tg, NEW c \in Client, UnkeyAs(t, c)
    PROVE  /\ patches' = patches
           /\ \A u \in Tg : keyed'[u] \in {keyed[u], None} /\ also'[u] \subseteq also[u]
           /\ \A u \in Tg, d \in Client :
                 Holds(u, d)' <=> Holds(u, d) /\ ~(d = c /\ u \in Joined(t))
           /\ \A d \in Client : keyed_by'[d] = IF d = c THEN None ELSE keyed_by[d]
           /\ \A d \in Console, u \in Tg : Watches(d, u)' <=> Watches(d, u)
           /\ TookIsChannel'
<1>1. /\ GiveUp({c}, Mine(t, c)) /\ UNCHANGED <<kind, patches>>
      /\ took' = [took EXCEPT ![c][t] = {}]
      /\ keyed_by' = [keyed_by EXCEPT ![c] = None]
    BY DEF UnkeyAs
<1>2. Mine(t, c) = Joined(t)
    BY DEF Mine, TookIsChannel
<1>3. /\ keyed' = [u \in Tg |-> IF u \in Joined(t) /\ keyed[u] \in {c} THEN None ELSE keyed[u]]
      /\ also' = [u \in Tg |-> IF u \in Joined(t) THEN also[u] \ {c} ELSE also[u]]
    BY <1>1, <1>2 DEF GiveUp
<1>4. \A u \in Tg, d \in Client :
         Holds(u, d)' <=> Holds(u, d) /\ ~(d = c /\ u \in Joined(t))
    BY <1>3, RouterAssumption DEF Holds
<1>5. TookIsChannel'
  <2>1. \A w \in Tg : Joined(w)' = Joined(w)
    BY <1>1 DEF Joined
  <2> QED BY <1>1, <2>1 DEF TypeOK, TookIsChannel
<1>6. ASSUME NEW d \in Console, NEW u \in Tg PROVE Watches(d, u)' <=> Watches(d, u)
  <2>1. PICK S : DrainDeferred(S)
    BY DEF UnkeyAs
  <2>2. None \notin Member /\ d \in Client
    BY RouterAssumption DEF Client
  <2>3. ASSUME members[u][d] # None, deferred[u][d] # None
        PROVE  [members[u][d] EXCEPT !.quality = deferred[u][d]] \in Member
    <3>1. members[u][d] \in Member /\ deferred[u][d] \in Quality
      BY <2>2, <2>3 DEF TypeOK, Optional
    <3> QED BY <3>1 DEF Member
  <2>4. members'[u][d] = IF u \in S /\ members[u][d] # None /\ deferred[u][d] # None
                         THEN [members[u][d] EXCEPT !.quality = deferred[u][d]]
                         ELSE members[u][d]
    BY <2>1, <2>2 DEF DrainDeferred
  <2> QED BY <2>2, <2>3, <2>4 DEF Watches
<1> QED BY <1>1, <1>3, <1>4, <1>5, <1>6 DEF TypeOK

\* Who goes gives up everything, and is on no board.
LEMMA GoneDoes ==
    ASSUME TypeOK, TookIsChannel, NEW STATE C, GiveUp(C, Tg), ForgetPresses(C),
           patches' = patches, members' = Without(members, C)
    PROVE  /\ \A u \in Tg : keyed'[u] \in {keyed[u], None} /\ also'[u] \subseteq also[u]
           /\ \A u \in Tg, d \in Client : Holds(u, d)' <=> Holds(u, d) /\ d \notin C
           /\ \A d \in Client : keyed_by'[d] = IF d \in C THEN None ELSE keyed_by[d]
           /\ \A d \in Console, u \in Tg : Watches(d, u)' => Watches(d, u)
           /\ TookIsChannel'
<1>1. /\ keyed' = [u \in Tg |-> IF u \in Tg /\ keyed[u] \in C THEN None ELSE keyed[u]]
      /\ also' = [u \in Tg |-> IF u \in Tg THEN also[u] \ C ELSE also[u]]
    BY DEF GiveUp
<1>2. \A u \in Tg, d \in Client : Holds(u, d)' <=> Holds(u, d) /\ d \notin C
    BY <1>1, RouterAssumption DEF Holds
<1>3. TookIsChannel'
  <2>1. \A w \in Tg : Joined(w)' = Joined(w)
    BY DEF Joined
  <2> QED BY <2>1 DEF ForgetPresses, TypeOK, TookIsChannel
<1>4. \A d \in Console, u \in Tg : Watches(d, u)' => Watches(d, u)
    BY RouterAssumption DEF Watches, Without, Client
<1> QED BY <1>1, <1>2, <1>3, <1>4 DEF ForgetPresses

-------------------------------------------------------------------------------
\* A set of naturals has a least element.
LEMMA LeastThereIs ==
    ASSUME NEW S \in SUBSET Nat, S # {}
    PROVE  \E x \in S : \A y \in S : x <= y
<1> DEFINE below == OpToRel(<, Nat)
<1>1. \A x, y \in Nat : x < y => <<x, y>> \in below
    BY DEF OpToRel
<1>2. IsWellFoundedOn(below, Nat)
    BY NatLessThanWellFounded
<1> HIDE DEF below
<1>3. PICK x \in S : \A y \in S : <<y, x>> \notin below
    BY <1>2, WFMin
<1>4. ASSUME NEW y \in S PROVE x <= y
  <2>1. x \in Nat /\ y \in Nat
    OBVIOUS
  <2>2. ~(y < x)
    BY <1>1, <1>3, <2>1, Zenon
  <2> QED BY <2>1, <2>2
<1> QED BY <1>4

\* Whoever holds anything has a destination, which they hold.
LEMMA DestinationIsHeld ==
    ASSUME TypeOK, NEW c \in Client, \E t \in Tg : Holds(t, c)
    PROVE  Destination(c) \in Tg /\ Holds(Destination(c), c)
<1> DEFINE held == {t \in Tg : Holds(t, c)}
<1>1. held \in SUBSET Nat /\ held # {}
    BY CallsAssumption
<1> HIDE DEF held
<1>2. \E t \in held : \A u \in held : t <= u
    BY <1>1, LeastThereIs
<1>3. Destination(c) = IF keyed_by[c] \in held THEN keyed_by[c]
                       ELSE CHOOSE t \in held : \A u \in held : t <= u
    BY DEF Destination, held
<1>4. Destination(c) \in held
    BY <1>2, <1>3
<1> QED BY <1>4 DEF held

\* A console that watches any of a channel is told of it, on that channel.
LEMMA FirstIsWatched ==
    ASSUME TypeOK, NEW t \in Tg, NEW d
    PROVE  /\ ToldOn(d, t) \subseteq Joined(t)
           /\ (\E u \in Joined(t) : Watches(d, u)) => ToldOn(d, t) # {}
<1> DEFINE watched == {u \in Joined(t) : Watches(d, u)}
<1>1. watched \in SUBSET Tg
    BY JoinedRoutes DEF TypeOK
<1>2. ToldOn(d, t) = IF watched = {} THEN {} ELSE {FirstOf(t, watched)}
    BY DEF ToldOn
<1>3. watched # {} => FirstOf(t, watched) \in watched
    BY <1>1, CallsAssumption
<1> QED BY <1>2, <1>3

LEMMA RouterTyped ==
    ASSUME TypeOK, [CallsNext]_callvars
    PROVE  TypeOK'
<1>1. ASSUME NEW t \in Tg, NEW c \in Client, Pressed(t, c) PROVE TypeOK'
    BY <1>1, NextTypeOK DEF Pressed, Next, Talk, Press, Refuse
<1>2. ASSUME NEW t \in Tg, NEW c \in Client, UnkeyAs(t, c) PROVE TypeOK'
    BY <1>2, NextTypeOK DEF Next, Talk, Release
<1>3. CASE UnitActs
  <2>1. PICK c \in Unit : (\E t \in Tg : ApiKey(t, c) \/ ApiUnkey(t, c)) \/ TapDrops(ServerOf[c])
    BY <1>3 DEF UnitActs
  <2>2. c \in Client /\ ServerOf[c] \in Server
    BY RouterAssumption DEF Client
  <2>3. CASE TapDrops(ServerOf[c])
    BY <2>2, <2>3, NextTypeOK DEF TapDrops, Next, Leave
  <2> QED BY <1>1, <1>2, <2>1, <2>2, <2>3 DEF ApiKey, ApiUnkey
<1>4. CASE ConsoleActs
  <2>1. PICK c \in Console :
           \/ \E t \in Tg : TxKey(t, c) \/ TxUnkey(t, c)
           \/ \E S \in Boards[c] : BoardChanges(c, S)
           \/ SocketDrops(c) \/ Detach(c) \/ Reconnect(c)
    BY <1>4 DEF ConsoleActs, ButtonActs
  <2>2. c \in Client /\ Boards[c] \subseteq SUBSET Tg
    BY CallsAssumption DEF Client
  <2>3. CASE \E t \in Tg : TxKey(t, c) \/ TxUnkey(t, c)
    BY <1>1, <1>2, <2>2, <2>3 DEF TxKey, TxUnkey
  <2>4. CASE \E S \in Boards[c] : BoardChanges(c, S)
    BY <2>2, <2>4, ConsoleUpdateType DEF BoardChanges
  <2>5. CASE SocketDrops(c)
    <3>1. CASE \E t \in Tg : Holds(t, c)
      <4>1. UnkeyAs(Destination(c), c)
        BY <2>5, <3>1 DEF SocketDrops
      <4> QED BY <1>2, <2>2, <3>1, <4>1, DestinationIsHeld
    <3>2. CASE ~\E t \in Tg : Holds(t, c)
      BY <2>5, <3>2, NextTypeOK DEF SocketDrops
    <3> QED BY <3>1, <3>2
  <2>6. CASE Detach(c)
    BY <2>6, NextTypeOK DEF Detach, Next, Leave
  <2>7. CASE Reconnect(c)
    BY <2>7, NextTypeOK DEF Reconnect
  <2> QED BY <2>1, <2>3, <2>4, <2>5, <2>6, <2>7
<1>5. CASE TimePasses
    BY <1>5, NextTypeOK DEF TimePasses, Next
<1>6. CASE (\E c \in Console : TaskActs(c)) \/ UNCHANGED callvars
    BY <1>6, NextTypeOK DEF TaskActs, TxKeyTold, TxUnkeyTold, TxRecordingEnds, callvars
<1> QED BY <1>3, <1>4, <1>5, <1>6 DEF CallsNext

LEMMA PlaneTyped ==
    ASSUME TypeOK, PlaneTypes, [CallsNext]_callvars
    PROVE  PlaneTypes'
<1> USE DEF PlaneTypes, Optional
<1>0. \A t \in Tg : ConsolesOn(t) \subseteq Console
    BY DEF ConsolesOn
<1>1. ASSUME NEW t \in Tg, NEW on, AnnounceAcross(t, on) PROVE lit' \in [Console -> SUBSET Tg]
  <2>1. \A c \in Console : ToldOn(c, t) \subseteq Tg
    BY FirstIsWatched, JoinedRoutes DEF TypeOK
  <2> QED BY <1>1, <2>1 DEF AnnounceAcross
<1>2. ASSUME NEW t \in Tg, NEW on, NEW W, NEW c, AnnounceOn(t, on, W, c)
      PROVE  lit' \in [Console -> SUBSET Tg]
    BY <1>2 DEF AnnounceOn
<1>3. ASSUME NEW c \in Unit, NEW t \in Tg, ApiKey(t, c) \/ ApiUnkey(t, c) PROVE PlaneTypes'
    BY <1>1, <1>3 DEF ApiKey, ApiUnkey, Client
<1>4. ASSUME NEW c \in Console, NEW t \in Tg, TxKey(t, c) \/ TxUnkey(t, c) PROVE PlaneTypes'
  <2>1. /\ [do |-> "begin", tg |-> t, watching |-> ConsolesOn(t)] \in Step
        /\ [do |-> "dark", tg |-> t, watching |-> ConsolesOn(t)] \in Step
        /\ [do |-> "end", tg |-> t] \in Step /\ NoStep \in Step
    BY <1>0 DEF Step
  <2> QED BY <1>4, <2>1 DEF TxKey, TxUnkey, Client
<1>5. ASSUME NEW c \in Console, TaskActs(c) PROVE PlaneTypes'
  <2>1. step[c] # NoStep /\ step[c].tg \in Tg
    BY <1>5, StepParts DEF TaskActs, TxKeyTold, TxUnkeyTold, TxRecordingEnds
  <2>2. NoStep \in Step /\ [do |-> "end", tg |-> step[c].tg] \in Step
    BY <2>1 DEF Step
  <2> QED BY <1>2, <1>5, <2>1, <2>2 DEF TaskActs, TxKeyTold, TxUnkeyTold, TxRecordingEnds
<1>6. ASSUME NEW c \in Console, SocketDrops(c) PROVE PlaneTypes'
  <2>1. /\ online' = online \ {c} /\ lit' = [lit EXCEPT ![c] = {}]
        /\ down' = [down EXCEPT ![c] = None] /\ recording' = recording
    BY <1>6 DEF SocketDrops
  <2>2. \/ step' = step \/ step' = [step EXCEPT ![c] = NoStep]
        \/ /\ step' = [step EXCEPT ![c] = [do |-> "end", tg |-> Destination(c)]]
           /\ \E t \in Tg : Holds(t, c)
    BY <1>6 DEF SocketDrops
  <2>3. NoStep \in Step /\ \A t \in Tg : [do |-> "end", tg |-> t] \in Step
    BY DEF Step
  <2>4. (\E t \in Tg : Holds(t, c)) => Destination(c) \in Tg
    BY DestinationIsHeld DEF Client
  <2>5. step' \in [Console -> Step]
    BY <2>2, <2>3, <2>4
  <2> QED BY <2>1, <2>5
<1>7. ASSUME NEW c \in Console, Detach(c) \/ Reconnect(c) \/ \E S \in Boards[c] : BoardChanges(c, S)
      PROVE  PlaneTypes'
    BY <1>7 DEF Detach, Reconnect, BoardChanges
<1>8. ASSUME NEW server, TapDrops(server) PROVE PlaneTypes'
    BY <1>8 DEF TapDrops
<1>9. CASE TimePasses \/ UNCHANGED callvars
    BY <1>9 DEF TimePasses, callvars, plane
<1> QED BY <1>3, <1>4, <1>5, <1>6, <1>7, <1>8, <1>9 DEF CallsNext, UnitActs, ConsoleActs, ButtonActs

-------------------------------------------------------------------------------
\* What the steps have in common.

\* What is held or recorded, or is on a busy channel, does not come back from
\* astray.
LEMMA StaysAstray ==
    ASSUME CallsInv, NEW ACTION S, GoneAstray(S), NEW v \in astray \cup S,
           \/ v \in recording' \/ ~ClearGiven(keyed', also', v)
           \/ v \in Tg /\ (keyed'[v] # None \/ also'[v] # {})
    PROVE  v \in astray'
<1>1. v \in Tg => v \in Joined(v)
    BY JoinedRoutes DEF CallsInv, TypeOK
<1> QED BY <1>1 DEF GoneAstray, ClearGiven

\* Who holds a route keeps its channel from being clear, and astray from
\* being forgotten.
LEMMA HeldIsNotForgotten ==
    ASSUME CallsInv, TypeOK', patches' = patches, NEW ACTION S, GoneAstray(S),
           NEW v \in Tg, v \notin astray'
    PROVE  /\ ~IsClear(v)' => v \notin astray \cup S
           /\ \A c \in Client : Holds(v, c)' => v \notin astray \cup S
<1>1. ~IsClear(v)' => ~ClearGiven(keyed', also', v)
    BY ClearMeansNext DEF CallsInv
<1>2. \A c \in Client : Holds(v, c)' => keyed'[v] # None \/ also'[v] # {}
    BY RouterAssumption DEF Holds
<1> QED BY <1>1, <1>2, StaysAstray

\* Two channels have no route in common, or are the same.
LEMMA ChannelsApart ==
    ASSUME CallsInv, NEW v \in Tg, NEW t \in Tg, v \notin Joined(t)
    PROVE  Joined(v) \cap Joined(t) = {}
<1> SUFFICES ASSUME NEW u \in Joined(v), u \in Joined(t) PROVE FALSE
    OBVIOUS
<1>1. Joined(u) = Joined(v) /\ Joined(u) = Joined(t) /\ v \in Joined(v)
    BY JoinedAlike, JoinedRoutes DEF CallsInv, TypeOK
<1> QED BY <1>1

\* Holders that only leave make no channel busy.
LEMMA BusyBefore ==
    ASSUME CallsInv, TypeOK', patches' = patches, NEW v \in Tg, ~IsClear(v)',
           \A u \in Tg, d \in Client : Holds(u, d)' => Holds(u, d)
    PROVE  ~IsClear(v)
<1>1. PICK u \in Joined(v), d \in Client : Holds(u, d)'
    BY ClearMeansNext DEF CallsInv
<1>2. u \in Tg
    BY JoinedRoutes DEF CallsInv, TypeOK
<1> QED BY <1>1, <1>2, ClearMeans DEF CallsInv

\* A channel that was busy is still shown where nothing of it has gone dark.
LEMMA StillShown ==
    ASSUME CallsInv, patches' = patches, NEW v \in Tg, v \notin astray, ~IsClear(v),
           BeingTold(v) => BeingTold(v)',
           \A d \in online' : /\ d \in online
                              /\ Watches(d, v)' => Watches(d, v)
                              /\ lit[d] \cap Joined(v) \subseteq lit'[d]
    PROVE  ShownToWatchers(v)'
<1>1. Joined(v)' = Joined(v)
    BY DEF Joined
<1>2. ShownToWatchers(v)
    BY DEF CallsInv, Accounted, LitWhileTalking
<1> QED BY <1>1, <1>2 DEF ShownToWatchers

\* A press makes no talker but its own.
LEMMA PressTalks ==
    ASSUME TypeOK, TypeOK', NEW t \in Tg, NEW c \in Client, Pressed(t, c),
           NEW v \in Tg, NEW d \in Client, Talks(v, d)'
    PROVE  Talks(v, d) \/ (d = c /\ v = t /\ Outcome(t, c) \in StartsCall)
<1>1. CASE d # c
    BY <1>1, PressGrants DEF Talks
<1>2. CASE d = c /\ Outcome(t, c) \in Accepted
    BY <1>2, PressGrants DEF Talks
<1>3. CASE d = c /\ Outcome(t, c) \notin Accepted
    BY <1>3, PressGrants DEF Talks, keying
<1> QED BY <1>1, <1>2, <1>3

\* A channel that a press finds clear and makes busy is its own, and the press
\* starts a call.
LEMMA PressBusies ==
    ASSUME CallsInv, TypeOK', NEW t \in Tg, NEW c \in Client, Pressed(t, c),
           NEW v \in Tg, ~IsClear(v)'
    PROVE  ~IsClear(v) \/ (v \in Joined(t) /\ Outcome(t, c) \in StartsCall)
<1>0. patches' = patches
    BY PressedDoes DEF CallsInv
<1>1. PICK u \in Joined(v), d \in Client : Holds(u, d)'
    BY <1>0, ClearMeansNext DEF CallsInv
<1>2. u \in Tg /\ Joined(u) = Joined(v) /\ v \in Joined(v)
    BY JoinedAlike, JoinedRoutes DEF CallsInv, TypeOK
<1>3. CASE Holds(u, d)
    BY <1>1, <1>3, ClearMeans DEF CallsInv
<1>4. CASE ~Holds(u, d)
  <2>1. u \in Joined(t)
    BY <1>1, <1>2, <1>4, PressGrants DEF CallsInv
  <2>2. Joined(v) = Joined(t)
    BY <1>2, <2>1, JoinedAlike DEF CallsInv, TypeOK
  <2>3. Outcome(t, c) \in Accepted
    BY <1>1, <1>4, PressGrants DEF CallsInv, Holds, keying
  <2>4. Outcome(t, c) \notin StartsCall => ~IsClear(t)
    BY <2>3, PressGrants DEF CallsInv
  <2> QED BY <1>2, <2>2, <2>4 DEF IsClear, ClearGiven
<1> QED BY <1>3, <1>4

\* A button pressed down: who holds a route has one down, and no recording
\* loses its cause.
LEMMA ButtonPressed ==
    ASSUME CallsInv, TypeOK', NEW t \in Tg, NEW c \in Client, Pressed(t, c),
           down[c] = None, down' = [down EXCEPT ![c] = t],
           \A d \in Console : step[d] # NoStep => step'[d] = step[d]
    PROVE  HeldOpenly' /\ \A v \in Tg : Cause(v) => Cause(v)'
<1>0. /\ patches' = patches /\ \A w \in Tg : Joined(w)' = Joined(w)
      /\ \A d \in Client : down'[d] = IF d = c THEN t ELSE down[d]
    BY PressedDoes DEF CallsInv, Joined, PlaneTypes
<1>1. HeldOpenly'
  <2> SUFFICES ASSUME NEW u \in Tg, NEW d \in Client, Holds(u, d)'
               PROVE  down'[d] \in Joined(u)
    BY <1>0 DEF HeldOpenly
  <2>1. Joined(u) \subseteq Tg
    BY JoinedRoutes DEF CallsInv, TypeOK
  <2>2. CASE Holds(u, d)
    <3>1. down[d] \in Joined(u)
      BY <2>2 DEF CallsInv, Accounted, HeldOpenly
    <3> QED BY <1>0, <2>1, <3>1, RouterAssumption
  <2>3. CASE d = c /\ u \in Joined(t)
    <3>1. t \in Joined(u)
      BY <2>3, JoinedAlike, JoinedRoutes DEF CallsInv, TypeOK
    <3> QED BY <1>0, <2>3, <3>1
  <2> QED BY <2>2, <2>3, PressGrants DEF CallsInv
<1>2. ASSUME NEW v \in Tg, Cause(v) PROVE Cause(v)'
  <2>1. CASE ~IsClear(v)
    BY <2>1, PressGrants DEF CallsInv, Cause
  <2>2. CASE \E d \in Unit : down[d] \in Joined(v)
    <3>1. PICK d \in Unit : down[d] \in Joined(v)
      BY <2>2
    <3>2. d \in Client /\ d # c
      BY <3>1, JoinedRoutes, RouterAssumption DEF CallsInv, TypeOK, Client
    <3> QED BY <1>0, <3>1, <3>2 DEF Cause
  <2>3. CASE \E d \in Console : step[d] # NoStep /\ step[d].tg = v
    BY <2>3 DEF Cause
  <2> QED BY <1>2, <2>1, <2>2, <2>3 DEF Cause
<1> QED BY <1>1, <1>2

\* A button let go, and with it all that its client held: the rest of what
\* there is on other channels stays.
LEMMA ButtonReleased ==
    ASSUME CallsInv, TypeOK', NEW t \in Tg, NEW c \in Client, UnkeyAs(t, c),
           down' = [down EXCEPT ![c] = None], down[c] \in Joined(t),
           \A d \in Console : step[d] # NoStep => step'[d] = step[d]
    PROVE  HeldOpenly' /\ \A v \in Tg \ Joined(t) : Cause(v) => Cause(v)'
<1>0. /\ patches' = patches /\ \A w \in Tg : Joined(w)' = Joined(w)
      /\ \A d \in Client : down'[d] = IF d = c THEN None ELSE down[d]
      /\ \A u \in Tg, d \in Client :
            Holds(u, d)' <=> Holds(u, d) /\ ~(d = c /\ u \in Joined(t))
    BY UnkeyDoes DEF CallsInv, Accounted, Joined, PlaneTypes
<1>1. \A u \in Tg : down[c] \in Joined(u) => u \in Joined(t)
  <2> SUFFICES ASSUME NEW u \in Tg, down[c] \in Joined(u) PROVE u \in Joined(t)
    OBVIOUS
  <2>1. Joined(down[c]) = Joined(u) /\ Joined(down[c]) = Joined(t)
    BY JoinedAlike DEF CallsInv, TypeOK
  <2> QED BY <2>1, JoinedRoutes DEF CallsInv, TypeOK
<1>2. HeldOpenly'
  <2> SUFFICES ASSUME NEW u \in Tg, NEW d \in Client, Holds(u, d)'
               PROVE  down'[d] \in Joined(u)
    BY <1>0 DEF HeldOpenly
  <2>1. down[d] \in Joined(u)
    BY <1>0 DEF CallsInv, Accounted, HeldOpenly
  <2> QED BY <1>0, <1>1, <2>1
<1>3. ASSUME NEW v \in Tg \ Joined(t), Cause(v) PROVE Cause(v)'
  <2>1. CASE ~IsClear(v)
    <3>1. PICK u \in Joined(v), d \in Client : Holds(u, d)
      BY <2>1, ClearMeans DEF CallsInv
    <3>2. u \in Tg /\ u \notin Joined(t)
      <4>1. u \in Tg /\ Joined(u) = Joined(v) /\ v \in Joined(v)
        BY JoinedAlike, JoinedRoutes DEF CallsInv, TypeOK
      <4> QED BY <1>3, <4>1, JoinedAlike DEF CallsInv, TypeOK
    <3> QED BY <1>0, <3>1, <3>2, ClearMeansNext DEF CallsInv, Cause
  <2>2. CASE \E d \in Unit : down[d] \in Joined(v)
    <3>1. PICK d \in Unit : down[d] \in Joined(v)
      BY <2>2
    <3> QED BY <1>0, <1>1, <1>3, <3>1 DEF Cause, Client
  <2>3. CASE \E d \in Console : step[d] # NoStep /\ step[d].tg = v
    BY <2>3 DEF Cause
  <2> QED BY <1>3, <2>1, <2>2, <2>3 DEF Cause
<1> QED BY <1>2, <1>3

-------------------------------------------------------------------------------
\* Units.

LEMMA ApiKeyKeeps ==
    ASSUME CallsInv, TypeOK', NEW c \in Unit, NEW t \in Tg, ApiKey(t, c)
    PROVE  Accounted'
<1>0. /\ c \in Client /\ \A d \in Console : d # c /\ d \in Client
      /\ Pressed(t, c) /\ down[c] = None /\ down' = [down EXCEPT ![c] = t]
      /\ GoneAstray({}) /\ UNCHANGED <<online, step>>
      /\ IF Outcome(t, c) \in StartsCall
         THEN AnnounceAcross(t, TRUE) /\ recording' = recording \cup {t}
         ELSE UNCHANGED <<lit, recording>>
    BY RouterAssumption DEF ApiKey, Client
<1>1. /\ patches' = patches /\ members' = members
      /\ \A w \in Tg : Joined(w)' = Joined(w)
      /\ \A d, w : Watches(d, w)' = Watches(d, w)
    BY <1>0, PressedDoes DEF CallsInv, Joined, roster, Watches
<1>2. HeldOpenly' /\ \A v \in Tg : Cause(v) => Cause(v)'
    BY <1>0, ButtonPressed
<1>3. TookIsChannel'
    BY <1>0, PressGrants DEF CallsInv, Accounted
<1>4. OneMessage'
    BY <1>0, PressGrants DEF CallsInv, Accounted, OneMessage
<1>5. OpenForCause'
  <2> SUFFICES ASSUME NEW v \in recording', v \notin astray' PROVE Cause(v)'
    BY DEF OpenForCause
  <2>1. v \notin astray
    BY <1>0, StaysAstray
  <2>2. CASE v \in recording
    BY <1>2, <2>1, <2>2 DEF CallsInv, Accounted, PlaneTypes, OpenForCause
  <2>3. CASE v = t
    <3>1. down'[c] = t /\ t \in Joined(t)'
      BY <1>0, <1>1, JoinedRoutes DEF CallsInv, PlaneTypes, TypeOK
    <3> QED BY <2>3, <3>1 DEF Cause
  <2> QED BY <1>0, <2>2, <2>3
<1>6. ASSUME NEW v \in Tg, NEW d \in Client, Talks(v, d)', v \notin astray'
      PROVE  /\ v \notin astray
             /\ Talks(v, d) \/ (d = c /\ v = t /\ Outcome(t, c) \in StartsCall)
  <2>1. keyed'[v] # None
    BY <1>6, RouterAssumption DEF Talks
  <2> QED BY <1>0, <1>6, <2>1, StaysAstray, PressTalks DEF CallsInv
<1>7. ToldToAll'
  <2> SUFFICES ASSUME NEW d \in Console, step[d].do = "begin", step[d].tg \notin astray',
                      Holds(step[d].tg, d)', NEW e \in online, Watches(e, step[d].tg)
               PROVE  e \in step[d].watching
    BY <1>0, <1>1 DEF ToldToAll
  <2>1. step[d].tg \in Tg
    BY StepParts DEF CallsInv
  <2>2. step[d].tg \notin astray /\ Holds(step[d].tg, d)
    BY <1>0, <1>1, <2>1, HeldIsNotForgotten, PressGrants DEF CallsInv
  <2> QED BY <2>2 DEF CallsInv, Accounted, ToldToAll
<1>8. TalkerIsRecorded'
  <2> SUFFICES ASSUME NEW v \in Tg, v \notin astray', NEW d \in Client, Talks(v, d)'
               PROVE  v \in recording' \/ (d \in Console /\ step'[d] # NoStep)
    BY DEF TalkerIsRecorded, Talks
  <2>1. Talks(v, d) => v \in recording \/ (d \in Console /\ step[d] # NoStep)
    BY <1>6 DEF CallsInv, Accounted, TalkerIsRecorded, Talks
  <2>2. step' = step /\ recording \subseteq recording'
    BY <1>0
  <2>3. CASE Talks(v, d)
    BY <2>1, <2>2, <2>3, Zenon
  <2>4. CASE d = c /\ v = t /\ Outcome(t, c) \in StartsCall
    BY <1>0, <2>4
  <2> QED BY <1>6, <2>3, <2>4
<1>9. LitWhileTalking'
  <2> SUFFICES ASSUME NEW v \in Tg, v \notin astray', ~IsClear(v)' PROVE ShownToWatchers(v)'
    BY DEF LitWhileTalking, ShownToWatchers
  <2>1. \A d \in online : d \in Console /\ lit[d] \subseteq lit'[d]
    BY <1>0 DEF AnnounceAcross, CallsInv, PlaneTypes
  <2>2. BeingTold(v)' <=> BeingTold(v)
    BY <1>0, <1>1 DEF BeingTold
  <2>3. CASE ~IsClear(v)
    <3>1. v \notin astray
      BY <1>0, <1>1, HeldIsNotForgotten
    <3> QED BY <1>0, <1>1, <2>1, <2>2, <2>3, <3>1, StillShown
  <2>4. CASE v \in Joined(t) /\ Outcome(t, c) \in StartsCall
    <3> SUFFICES ASSUME NEW d \in online, Watches(d, v) PROVE lit'[d] \cap Joined(v) # {}
      BY <1>0, <1>1 DEF ShownToWatchers
    <3>1. Joined(v) = Joined(t)
      BY <2>4, JoinedAlike DEF CallsInv, TypeOK
    <3>2. ToldOn(d, t) # {} /\ ToldOn(d, t) \subseteq Joined(t)
      BY <2>1, <2>4, FirstIsWatched DEF CallsInv
    <3>3. ToldOn(d, t) \subseteq lit'[d]
      BY <1>0, <2>1, <2>4 DEF AnnounceAcross
    <3> QED BY <3>1, <3>2, <3>3
  <2> QED BY <1>0, <2>3, <2>4, PressBusies
<1> QED
    BY <1>2, <1>3, <1>4, <1>5, <1>7, <1>8, <1>9 DEF Accounted

LEMMA ApiUnkeyKeeps ==
    ASSUME CallsInv, TypeOK', NEW c \in Unit, NEW t \in Tg, ApiUnkey(t, c)
    PROVE  Accounted'
<1> DEFINE S == Orphaned(t) \cup (IF CallOver(t) THEN LeftLit(t) ELSE {})
<1>0. /\ c \in Client /\ \A d \in Console : d # c /\ d \in Client
      /\ down[c] = t /\ UnkeyAs(t, c) /\ down' = [down EXCEPT ![c] = None]
      /\ recording' = IF RecordingOver(t) THEN recording \ {t} ELSE recording
      /\ IF CallOver(t) THEN AnnounceAcross(t, FALSE) ELSE UNCHANGED lit
      /\ GoneAstray(S) /\ UNCHANGED <<online, step>>
    BY RouterAssumption DEF ApiUnkey, Client
<1>3. Orphaned(t) \subseteq S
    OBVIOUS
<1> HIDE DEF S
<1>1. /\ patches' = patches
      /\ \A w \in Tg : Joined(w)' = Joined(w) /\ Joined(w) \subseteq Tg /\ w \in Joined(w)
      /\ \A d \in Client : keyed_by'[d] = IF d = c THEN None ELSE keyed_by[d]
      /\ \A u \in Tg : keyed'[u] \in {keyed[u], None}
      /\ \A u \in Tg, d \in Client : Holds(u, d)' => Holds(u, d)
      /\ \A d \in Console, w \in Tg : Watches(d, w)' <=> Watches(d, w)
      /\ TookIsChannel'
    BY <1>0, UnkeyDoes, JoinedRoutes DEF CallsInv, Accounted, Joined, TypeOK
<1>2. HeldOpenly' /\ \A v \in Tg \ Joined(t) : Cause(v) => Cause(v)'
    BY <1>0, <1>1, ButtonReleased
<1>4. OneMessage'
    BY <1>0, <1>1 DEF CallsInv, Accounted, OneMessage
<1>5. OpenForCause'
  <2> SUFFICES ASSUME NEW v \in recording', v \notin astray', ~Cause(v)' PROVE FALSE
    BY DEF OpenForCause
  <2>1. v \notin astray /\ v \notin Orphaned(t) /\ v \in recording /\ v \in Tg
    BY <1>0, <1>3, StaysAstray DEF CallsInv, PlaneTypes
  <2>2. v \in Joined(t)
    BY <1>2, <2>1 DEF CallsInv, Accounted, OpenForCause
  <2>3. IsClear(v)' /\ Joined(v) = Joined(t) /\ v \in Joined(v)
    BY <1>1, <2>1, <2>2, JoinedAlike DEF Cause, CallsInv, TypeOK
  <2>4. RecordingOver(v)
    BY <1>1, <2>1, <2>3 DEF IsClear, ClearGiven, RecordingOver
  <2>5. \A d \in Unit : down'[d] # v
    BY <1>1, <2>1, <2>3 DEF Cause
  <2>6. v # t => v \in Orphaned(t)
    BY <2>2, <2>4, <2>5 DEF Orphaned, Rest
  <2> QED BY <1>0, <2>1, <2>4, <2>6
<1>6. ASSUME NEW v \in Tg, NEW d \in Client, Talks(v, d)', v \notin astray'
      PROVE  v \notin astray /\ Talks(v, d) /\ d # c /\ keyed'[v] # None
  <2>1. keyed'[v] # None /\ keyed_by'[d] # None
    BY <1>6, RouterAssumption DEF Talks
  <2> QED BY <1>0, <1>1, <1>6, <2>1, StaysAstray DEF Talks
<1>7. ToldToAll'
  <2> SUFFICES ASSUME NEW d \in Console, NEW v, v = step[d].tg, step[d].do = "begin",
                      v \notin astray', Holds(v, d)', NEW e \in online, Watches(e, v)'
               PROVE  e \in step[d].watching
    BY <1>0 DEF ToldToAll, Holds, Watches
  <2>1. v \in Tg /\ e \in Console /\ d \in Client
    BY StepParts DEF CallsInv, PlaneTypes, Client
  <2>2. v \notin astray /\ Holds(v, d)
    BY <1>0, <1>1, <2>1, HeldIsNotForgotten
  <2> QED BY <1>1, <2>1, <2>2 DEF CallsInv, Accounted, ToldToAll
<1>8. TalkerIsRecorded'
  <2> SUFFICES ASSUME NEW v \in Tg, v \notin astray', NEW d \in Client, Talks(v, d)'
               PROVE  v \in recording' \/ (d \in Console /\ step'[d] # NoStep)
    BY DEF TalkerIsRecorded, Talks
  <2>1. RecordingOver(t) => v # t
    BY <1>6 DEF RecordingOver
  <2> QED BY <1>0, <1>6, <2>1 DEF CallsInv, Accounted, TalkerIsRecorded, Talks
<1>9. LitWhileTalking'
  <2> SUFFICES ASSUME NEW v \in Tg, v \notin astray', ~IsClear(v)' PROVE ShownToWatchers(v)'
    BY DEF LitWhileTalking, ShownToWatchers
  <2>1. v \notin astray /\ ~IsClear(v)
    BY <1>0, <1>1, HeldIsNotForgotten, BusyBefore
  <2>2. BeingTold(v)' <=> BeingTold(v)
    BY <1>0, <1>1 DEF BeingTold
  <2>3. CallOver(t) => Joined(v) \cap Joined(t) = {}
    BY <1>1, ChannelsApart, ClearMeansNext, JoinedAlike DEF CallsInv, TypeOK, CallOver, ClearGiven
  <2>4. \A d \in online : lit[d] \cap Joined(v) \subseteq lit'[d]
    <3>1. \A d \in online : d \in Console /\ ToldOn(d, t) \subseteq Joined(t)
      BY FirstIsWatched DEF CallsInv, PlaneTypes
    <3> QED BY <1>0, <2>3, <3>1 DEF AnnounceAcross
  <2> QED BY <1>0, <1>1, <2>1, <2>2, <2>4, StillShown DEF CallsInv, PlaneTypes
<1> QED
    BY <1>1, <1>2, <1>4, <1>5, <1>7, <1>8, <1>9 DEF Accounted

LEMMA TapDropsKeeps ==
    ASSUME CallsInv, TypeOK', NEW server \in Server, TapDrops(server)
    PROVE  Accounted'
<1> DEFINE gone == {c \in Client : ServerOf[c] = server}
<1>0. /\ GiveUp(gone, Tg) /\ ForgetPresses(gone) /\ patches' = patches
      /\ members' = Without(members, gone)
      /\ UNCHANGED <<online, down, recording, lit, step>> /\ GoneAstray({})
    BY DEF TapDrops, DropServer
<1>1. \A c \in gone : c \in Unit
    BY RouterAssumption DEF Client
<1>2. \A c \in Console : c \in Client
    BY DEF Client
<1> HIDE DEF gone
<1>3. /\ \A w \in Tg : Joined(w)' = Joined(w)
      /\ \A u \in Tg : keyed'[u] \in {keyed[u], None}
      /\ \A u \in Tg, d \in Client : Holds(u, d)' <=> Holds(u, d) /\ d \notin gone
      /\ \A d \in Client : keyed_by'[d] = IF d \in gone THEN None ELSE keyed_by[d]
      /\ \A d \in Console, u \in Tg : Watches(d, u)' => Watches(d, u)
      /\ TookIsChannel'
    BY <1>0, GoneDoes DEF CallsInv, Accounted, Joined
<1>4. HeldOpenly'
    BY <1>0, <1>3 DEF CallsInv, Accounted, HeldOpenly
<1>5. OneMessage'
    BY <1>0, <1>2, <1>3 DEF CallsInv, Accounted, OneMessage
<1>6. OpenForCause'
  <2> SUFFICES ASSUME NEW v \in recording, v \notin astray' PROVE Cause(v)'
    BY <1>0 DEF OpenForCause
  <2>1. v \notin astray /\ v \in Tg
    BY <1>0, StaysAstray DEF CallsInv, PlaneTypes
  <2>2. CASE ~IsClear(v)
    <3>1. PICK u \in Joined(v), d \in Client : Holds(u, d)
      BY <2>1, <2>2, ClearMeans DEF CallsInv
    <3>2. u \in Tg /\ Joined(u) = Joined(v)
      BY <2>1, JoinedAlike DEF CallsInv, TypeOK
    <3>3. CASE d \in gone
      <4>1. down[d] \in Joined(v)
        BY <3>1, <3>2 DEF CallsInv, Accounted, HeldOpenly
      <4> QED BY <1>0, <1>1, <1>3, <2>1, <3>3, <4>1 DEF Cause
    <3>4. CASE d \notin gone
      BY <1>0, <1>3, <2>1, <3>1, <3>2, <3>4, ClearMeansNext DEF CallsInv, Cause
    <3> QED BY <3>3, <3>4
  <2>3. CASE IsClear(v)
    BY <1>0, <1>3, <2>1, <2>3 DEF CallsInv, Accounted, OpenForCause, Cause
  <2> QED BY <2>2, <2>3
<1>7. ASSUME NEW v \in Tg, NEW d \in Client, Talks(v, d)', v \notin astray'
      PROVE  v \notin astray /\ Talks(v, d)
  <2>1. keyed'[v] # None /\ keyed_by'[d] # None
    BY <1>7, RouterAssumption DEF Talks
  <2> QED BY <1>0, <1>3, <1>7, <2>1, StaysAstray DEF Talks
<1>8. ToldToAll'
  <2> SUFFICES ASSUME NEW d \in Console, NEW v, v = step[d].tg, step[d].do = "begin",
                      v \notin astray', Holds(v, d)', NEW e \in online, Watches(e, v)'
               PROVE  e \in step[d].watching
    BY <1>0 DEF ToldToAll, Holds, Watches
  <2>1. v \in Tg /\ e \in Console /\ d \in Client
    BY StepParts DEF CallsInv, PlaneTypes, Client
  <2>2. v \notin astray /\ Holds(v, d)
    BY <1>0, <1>3, <2>1, HeldIsNotForgotten
  <2> QED BY <1>3, <2>1, <2>2 DEF CallsInv, Accounted, ToldToAll
<1>9. TalkerIsRecorded'
    BY <1>0, <1>7 DEF CallsInv, Accounted, TalkerIsRecorded, Talks
<1>10. LitWhileTalking'
  <2> SUFFICES ASSUME NEW v \in Tg, v \notin astray', ~IsClear(v)' PROVE ShownToWatchers(v)'
    BY DEF LitWhileTalking, ShownToWatchers
  <2>1. v \notin astray /\ ~IsClear(v)
    BY <1>0, <1>3, HeldIsNotForgotten, BusyBefore
  <2>2. BeingTold(v)' <=> BeingTold(v)
    BY <1>0, <1>3 DEF BeingTold
  <2> QED BY <1>0, <1>3, <2>1, <2>2, StillShown DEF CallsInv, PlaneTypes
<1> QED
    BY <1>3, <1>4, <1>5, <1>6, <1>8, <1>9, <1>10 DEF Accounted

-------------------------------------------------------------------------------
\* Consoles, under the router's lock.

LEMMA TxKeyKeeps ==
    ASSUME CallsInv, TypeOK', NEW c \in Console, NEW t \in Tg, TxKey(t, c)
    PROVE  Accounted'
<1> DEFINE begin == [do |-> "begin", tg |-> t, watching |-> ConsolesOn(t)]
<1>0. /\ \A d \in Console : d \in Client
      /\ Pressed(t, c) /\ down[c] = None /\ down' = [down EXCEPT ![c] = t]
      /\ GoneAstray({}) /\ UNCHANGED <<online, recording, lit>>
      /\ step[c] = NoStep
      /\ step' = [step EXCEPT ![c] = IF Outcome(t, c) \in Accepted THEN begin ELSE NoStep]
    BY DEF TxKey, Client
<1>1. /\ patches' = patches /\ members' = members
      /\ \A w \in Tg : Joined(w)' = Joined(w)
      /\ \A d, w : Watches(d, w)' = Watches(d, w)
    BY <1>0, PressedDoes DEF CallsInv, Joined, roster, Watches
<1>2. /\ \A d \in Console : d # c => step'[d] = step[d]
      /\ step'[c] = IF Outcome(t, c) \in Accepted THEN begin ELSE NoStep
    BY <1>0 DEF CallsInv, PlaneTypes
<1>3. HeldOpenly' /\ \A v \in Tg : Cause(v) => Cause(v)'
    BY <1>0, <1>2, ButtonPressed
<1>4. TookIsChannel'
    BY <1>0, PressGrants DEF CallsInv, Accounted
<1>5. begin.do = "begin" /\ begin.tg = t /\ begin.watching = ConsolesOn(t)
      /\ NoStep.do = "nothing" /\ begin # NoStep
    BY DEF NoStep
<1> HIDE DEF begin
<1>6. OneMessage'
  <2> SUFFICES ASSUME NEW d \in Console
               PROVE  /\ step'[d].do = "begin" => keyed_by'[d] \in {None, step'[d].tg}
                      /\ step'[d].do \in {"dark", "end"} => keyed_by'[d] = None
    BY DEF OneMessage
  <2>1. CASE d = c
    BY <1>0, <1>2, <1>5, <2>1, PressGrants DEF CallsInv
  <2>2. CASE d # c
    BY <1>0, <1>2, <2>2, PressGrants DEF CallsInv, Accounted, OneMessage
  <2> QED BY <2>1, <2>2
<1>7. OpenForCause'
  <2> SUFFICES ASSUME NEW v \in recording, v \notin astray' PROVE Cause(v)'
    BY <1>0 DEF OpenForCause
  <2>1. v \notin astray /\ v \in Tg
    BY <1>0, StaysAstray DEF CallsInv, PlaneTypes
  <2> QED BY <1>3, <2>1 DEF CallsInv, Accounted, OpenForCause
<1>8. ASSUME NEW v \in Tg, NEW d \in Client, Talks(v, d)', v \notin astray'
      PROVE  /\ v \notin astray
             /\ Talks(v, d) \/ (d = c /\ v = t /\ step'[c] = begin)
  <2>1. keyed'[v] # None
    BY <1>8, RouterAssumption DEF Talks
  <2>2. Outcome(t, c) \in StartsCall => step'[c] = begin
    BY <1>2 DEF StartsCall, Accepted
  <2> QED BY <1>0, <1>8, <2>1, <2>2, StaysAstray, PressTalks DEF CallsInv
<1>9. ToldToAll'
  <2> SUFFICES ASSUME NEW d \in Console, NEW v, v = step'[d].tg, step'[d].do = "begin",
                      v \notin astray', Holds(v, d)',
                      NEW e \in online, Watches(e, v)
               PROVE  e \in step'[d].watching
    BY <1>0, <1>1 DEF ToldToAll
  <2>1. e \in Console
    BY DEF CallsInv, PlaneTypes
  <2>2. CASE d = c
    BY <1>2, <1>5, <2>1, <2>2 DEF ConsolesOn
  <2>3. CASE d # c
    <3>1. step'[d] = step[d] /\ v \in Tg
      <4>1. step[d] # NoStep
        BY <1>2, <1>5, <2>3
      <4> QED BY <1>2, <2>3, <4>1, StepParts DEF CallsInv
    <3>2. v \notin astray /\ Holds(v, d)
      BY <1>0, <1>1, <2>3, <3>1, HeldIsNotForgotten, PressGrants DEF CallsInv, Client
    <3> QED BY <3>1, <3>2 DEF CallsInv, Accounted, ToldToAll
  <2> QED BY <2>2, <2>3
<1>10. ASSUME NEW v \in Tg, v \notin astray', NEW d \in Client, Talks(v, d)'
       PROVE  \/ v \notin astray /\ Talks(v, d) /\ (d \in Console => step[d] = step'[d])
              \/ d \in Console /\ step'[d] # NoStep
    BY <1>0, <1>2, <1>5, <1>8, <1>10
<1>11. TalkerIsRecorded'
    BY <1>0, <1>10 DEF CallsInv, Accounted, TalkerIsRecorded, Talks
<1>12. LitWhileTalking'
  <2> SUFFICES ASSUME NEW v \in Tg, v \notin astray', ~IsClear(v)', ~BeingTold(v)'
               PROVE  ShownToWatchers(v)'
    BY DEF LitWhileTalking, ShownToWatchers
  <2>1. v \notin astray
    BY <1>0, <1>1, HeldIsNotForgotten
  <2>2. BeingTold(v) => BeingTold(v)'
    <3>1. NoStep.do # "begin"
      BY DEF NoStep
    <3> QED BY <1>0, <1>1, <1>2, <3>1 DEF BeingTold
  <2>3. ~IsClear(v)
    <3>1. v \in Joined(t) /\ Outcome(t, c) \in StartsCall => BeingTold(v)'
      <4>1. Outcome(t, c) \in StartsCall => step'[c] = begin
        BY <1>2 DEF StartsCall, Accepted
      <4>2. v \in Joined(t) => t \in Joined(v)'
        BY <1>1, JoinedAlike, JoinedRoutes DEF CallsInv, TypeOK
      <4> QED BY <1>5, <4>1, <4>2 DEF BeingTold
    <3> QED BY <1>0, <3>1, PressBusies
  <2> QED BY <1>0, <1>1, <2>1, <2>2, <2>3, StillShown DEF CallsInv, PlaneTypes
<1> QED
    BY <1>3, <1>4, <1>6, <1>7, <1>9, <1>11, <1>12 DEF Accounted

\* What every release of a console leaves: what is told and recorded later is
\* with its task, the others are where they were.
LEMMA ConsoleLetsGo ==
    ASSUME CallsInv, TypeOK', NEW c \in Console, NEW t \in Tg, UnkeyAs(t, c),
           down' = [down EXCEPT ![c] = None], down[c] \in Joined(t), step[c] = NoStep,
           NEW next, step' = [step EXCEPT ![c] = next], next.do # "begin",
           UNCHANGED recording, online' \subseteq online,
           \A e \in online' : lit'[e] = lit[e],
           NEW ACTION S, GoneAstray(S),
           \A v \in recording \cap Joined(t) : v \in S \/ Cause(v)'
    PROVE  Accounted'
<1>0. /\ \A d \in Console : d \in Client
      /\ \A d \in Console : d # c => step'[d] = step[d]
      /\ step'[c] = next
    BY DEF Client, CallsInv, PlaneTypes
<1>1. /\ patches' = patches /\ \A w \in Tg : Joined(w)' = Joined(w)
      /\ \A u \in Tg, d \in Client : Holds(u, d)' => Holds(u, d)
      /\ \A d \in Client : keyed_by'[d] = IF d = c THEN None ELSE keyed_by[d]
      /\ \A u \in Tg : keyed'[u] \in {keyed[u], None}
      /\ \A d \in Console, w \in Tg : Watches(d, w)' <=> Watches(d, w)
      /\ TookIsChannel'
    BY <1>0, UnkeyDoes DEF CallsInv, Accounted, Joined
<1>2. HeldOpenly' /\ \A v \in Tg \ Joined(t) : Cause(v) => Cause(v)'
    BY <1>0, ButtonReleased
<1>3. OneMessage'
  <2> SUFFICES ASSUME NEW d \in Console
               PROVE  /\ step'[d].do = "begin" => keyed_by'[d] \in {None, step'[d].tg}
                      /\ step'[d].do \in {"dark", "end"} => keyed_by'[d] = None
    BY DEF OneMessage
  <2>1. CASE d = c
    BY <1>0, <1>1, <2>1
  <2>2. CASE d # c
    BY <1>0, <1>1, <2>2 DEF CallsInv, Accounted, OneMessage
  <2> QED BY <2>1, <2>2
<1>4. OpenForCause'
  <2> SUFFICES ASSUME NEW v \in recording, v \notin astray' PROVE Cause(v)'
    BY DEF OpenForCause
  <2>1. v \notin astray /\ v \notin S /\ v \in Tg
    BY StaysAstray DEF CallsInv, PlaneTypes
  <2> QED BY <1>2, <2>1 DEF CallsInv, Accounted, OpenForCause
<1>5. ASSUME NEW v \in Tg, NEW d \in Client, Talks(v, d)', v \notin astray'
      PROVE  v \notin astray /\ Talks(v, d) /\ d # c
  <2>1. keyed'[v] # None /\ keyed_by'[d] # None
    BY <1>5, RouterAssumption DEF Talks
  <2> QED BY <1>1, <1>5, <2>1, StaysAstray DEF Talks
<1>6. ToldToAll'
  <2> SUFFICES ASSUME NEW d \in Console, NEW v, v = step'[d].tg, step'[d].do = "begin",
                      v \notin astray', Holds(v, d)',
                      NEW e \in online', Watches(e, v)'
               PROVE  e \in step'[d].watching
    BY DEF ToldToAll, Watches
  <2>1. e \in Console /\ e \in online
    BY DEF CallsInv, PlaneTypes
  <2>2. step'[d] = step[d] /\ v \in Tg /\ d \in Client
    BY <1>0, StepParts DEF CallsInv
  <2>3. v \notin astray /\ Holds(v, d)
    BY <1>1, <2>2, HeldIsNotForgotten
  <2> QED BY <1>1, <2>1, <2>2, <2>3 DEF CallsInv, Accounted, ToldToAll
<1>7. TalkerIsRecorded'
    BY <1>0, <1>5 DEF CallsInv, Accounted, TalkerIsRecorded, Talks
<1>8. LitWhileTalking'
  <2> SUFFICES ASSUME NEW v \in Tg, v \notin astray', ~IsClear(v)' PROVE ShownToWatchers(v)'
    BY DEF LitWhileTalking, ShownToWatchers
  <2>1. v \notin astray /\ ~IsClear(v)
    BY <1>1, HeldIsNotForgotten, BusyBefore
  <2>2. BeingTold(v) => BeingTold(v)'
    <3>1. NoStep.do # "begin"
      BY DEF NoStep
    <3> QED BY <1>0, <1>1, <3>1 DEF BeingTold
  <2>3. \A e \in online' : e \in online /\ e \in Console
    BY DEF CallsInv, PlaneTypes
  <2> QED BY <1>1, <2>1, <2>2, <2>3, StillShown
<1> QED
    BY <1>1, <1>2, <1>3, <1>4, <1>6, <1>7, <1>8 DEF Accounted

LEMMA TxUnkeyKeeps ==
    ASSUME CallsInv, TypeOK', NEW c \in Console, NEW t \in Tg, TxUnkey(t, c)
    PROVE  Accounted'
<1> DEFINE dark == [do |-> "dark", tg |-> t, watching |-> ConsolesOn(t)]
           end  == [do |-> "end", tg |-> t]
           next == IF CallOver(t) THEN dark ELSE IF RecordingOver(t) THEN end ELSE NoStep
           S    == IF CallOver(t) THEN Rest(t) ELSE Orphaned(t)
<1>1. /\ c \in Client /\ step[c] = NoStep /\ down[c] = t /\ UnkeyAs(t, c)
      /\ down' = [down EXCEPT ![c] = None]
      /\ step' = [step EXCEPT ![c] = next]
      /\ UNCHANGED <<online, recording, lit>> /\ GoneAstray(S)
    BY DEF TxUnkey, Client
<1>2. /\ dark.do = "dark" /\ dark.tg = t /\ end.do = "end" /\ NoStep.do = "nothing"
      /\ dark # NoStep
    BY DEF NoStep
<1>3. next.do # "begin" /\ (CallOver(t) => next = dark)
    BY <1>2
<1> HIDE DEF dark, next
<1>4. step'[c] = next
    BY <1>1 DEF CallsInv, PlaneTypes
<1>5. patches' = patches /\ t \in Joined(t)
    BY <1>1, UnkeyDoes, JoinedRoutes DEF CallsInv, Accounted, TypeOK
<1>6. ASSUME NEW v \in recording \cap Joined(t), ~Cause(v)' PROVE v \in S
  <2>1. v \in Tg /\ Joined(v) = Joined(t)
    BY <1>5, <1>6, JoinedAlike DEF CallsInv, TypeOK
  <2>2. CallOver(t)
    BY <1>5, <1>6, <2>1, ClearMeansNext DEF CallsInv, Cause, CallOver, ClearGiven
  <2>3. v # t
    BY <1>2, <1>3, <1>4, <1>6, <2>2 DEF Cause
  <2> QED BY <1>6, <2>2, <2>3 DEF Rest
<1> HIDE DEF S
<1> QED BY <1>1, <1>3, <1>5, <1>6, ConsoleLetsGo

LEMMA SocketDropsKeeps ==
    ASSUME CallsInv, TypeOK', NEW c \in Console, SocketDrops(c)
    PROVE  Accounted'
<1>1. /\ c \in Client /\ step[c] = NoStep /\ online' = online \ {c}
      /\ lit' = [lit EXCEPT ![c] = {}] /\ down' = [down EXCEPT ![c] = None]
      /\ UNCHANGED recording
    BY DEF SocketDrops, Client
<1>2. \A e \in online' : e \in online /\ e # c /\ lit'[e] = lit[e]
    BY <1>1 DEF CallsInv, PlaneTypes
<1>3. CASE \E t \in Tg : Holds(t, c)
  <2> DEFINE t    == Destination(c)
             end  == [do |-> "end", tg |-> t]
             next == IF RecordingOver(t) THEN end ELSE NoStep
  <2>1. /\ UnkeyAs(t, c) /\ GoneAstray(Joined(t))
        /\ step' = [step EXCEPT ![c] = next]
    BY <1>3 DEF SocketDrops
  <2>2. t \in Tg /\ Holds(t, c)
    BY <1>1, <1>3, DestinationIsHeld DEF CallsInv
  <2>3. next.do # "begin"
    BY DEF NoStep
  <2>4. down[c] \in Joined(t)
    BY <1>1, <2>2 DEF CallsInv, Accounted, HeldOpenly
  <2>5. online' \subseteq online
    BY <1>2
  <2> HIDE DEF next, t
  <2> QED BY <1>1, <1>2, <2>1, <2>2, <2>3, <2>4, <2>5, ConsoleLetsGo
<1>4. CASE ~\E t \in Tg : Holds(t, c)
  <2>1. UNCHANGED <<kind, keying, roster, patches, pending, identity, step>> /\ GoneAstray({})
    BY <1>4 DEF SocketDrops, vars
  <2>2. /\ UNCHANGED <<keyed, also, keyed_by, took, members, patches, step>>
        /\ \A d \in Client : d # c => down'[d] = down[d]
    BY <1>1, <2>1 DEF keying, roster, CallsInv, PlaneTypes
  <2>3. /\ \A w \in Tg : Joined(w)' = Joined(w) /\ IsClear(w)' = IsClear(w)
        /\ \A d, w : Watches(d, w)' = Watches(d, w) /\ Holds(w, d)' = Holds(w, d)
        /\ \A d, w : Talks(w, d)' = Talks(w, d)
    BY <2>2 DEF Joined, IsClear, ClearGiven, Watches, Holds, Talks
  <2>4. ASSUME NEW v, v \in astray,
               v \in recording \/ (v \in Tg /\ (keyed[v] # None \/ also[v] # {} \/ ~IsClear(v)))
        PROVE  v \in astray'
    BY <1>1, <2>1, <2>2, <2>4, StaysAstray DEF IsClear, ClearGiven
  <2>5. TookIsChannel' /\ OneMessage'
    BY <2>2, <2>3 DEF CallsInv, Accounted, TookIsChannel, OneMessage
  <2>6. HeldOpenly'
    BY <1>4, <2>2, <2>3 DEF CallsInv, Accounted, HeldOpenly
  <2>7. OpenForCause'
    <3>1. \A d \in Unit : d \in Client /\ d # c
      BY RouterAssumption DEF Client
    <3>2. \A v \in recording : v \in Tg
      BY DEF CallsInv, PlaneTypes
    <3>3. \A v \in Tg : Cause(v) => Cause(v)'
      BY <2>2, <2>3, <3>1 DEF Cause
    <3> QED BY <1>1, <2>4, <3>2, <3>3 DEF CallsInv, Accounted, OpenForCause
  <2>8. \A v \in Tg, d \in Client : Talks(v, d) => keyed[v] # None
    BY RouterAssumption DEF Talks
  <2>9. ToldToAll'
    <3> SUFFICES ASSUME NEW d \in Console, NEW v, v = step[d].tg, step[d].do = "begin",
                        v \notin astray', Holds(v, d), NEW e \in online', Watches(e, v)
                 PROVE  e \in step[d].watching
      BY <2>2, <2>3 DEF ToldToAll
    <3>1. v \in Tg /\ d # None
      BY StepParts, RouterAssumption DEF CallsInv, Client
    <3>2. v \notin astray
      BY <2>4, <3>1 DEF Holds
    <3> QED BY <1>2, <3>2 DEF CallsInv, Accounted, ToldToAll
  <2>10. TalkerIsRecorded'
    BY <1>1, <2>2, <2>4, <2>8 DEF CallsInv, Accounted, TalkerIsRecorded, Talks
  <2>11. LitWhileTalking'
    <3> SUFFICES ASSUME NEW v \in Tg, v \notin astray', ~IsClear(v)' PROVE ShownToWatchers(v)'
      BY DEF LitWhileTalking, ShownToWatchers
    <3>1. v \notin astray /\ ~IsClear(v)
      BY <2>3, <2>4
    <3>2. BeingTold(v)' <=> BeingTold(v)
      BY <2>2, <2>3 DEF BeingTold
    <3> QED BY <1>2, <2>2, <2>3, <3>1, <3>2, StillShown
  <2> QED BY <2>5, <2>6, <2>7, <2>9, <2>10, <2>11 DEF Accounted
<1> QED BY <1>3, <1>4

LEMMA DetachKeeps ==
    ASSUME CallsInv, TypeOK', NEW c \in Console, Detach(c)
    PROVE  Accounted'
<1> DEFINE S == UNION {Joined(t) : t \in {u \in Tg : Holds(u, c)}}
<1>0. /\ GiveUp({c}, Tg) /\ ForgetPresses({c}) /\ patches' = patches
      /\ members' = Without(members, {c}) /\ online' = online \ {c}
      /\ lit' = [lit EXCEPT ![c] = {}] /\ down' = [down EXCEPT ![c] = None]
      /\ UNCHANGED <<recording, step>> /\ GoneAstray(S)
    BY DEF Detach, ForgetClient
<1>1. /\ \A e \in online' : e \in online /\ e \in Console /\ e # c /\ lit'[e] = lit[e]
      /\ \A d \in Client : d # c => down'[d] = down[d]
    BY <1>0 DEF CallsInv, PlaneTypes
<1>2. \A d \in Console : d \in Client
    BY DEF Client
<1>3. /\ \A w \in Tg : Joined(w)' = Joined(w)
      /\ \A u \in Tg : keyed'[u] \in {keyed[u], None}
      /\ \A u \in Tg, d \in Client : Holds(u, d)' <=> Holds(u, d) /\ d # c
      /\ \A d \in Client : keyed_by'[d] = IF d = c THEN None ELSE keyed_by[d]
      /\ \A d \in Console, u \in Tg : Watches(d, u)' => Watches(d, u)
      /\ TookIsChannel'
    BY <1>0, GoneDoes DEF CallsInv, Accounted, Joined
<1>4. HeldOpenly'
    BY <1>1, <1>3 DEF CallsInv, Accounted, HeldOpenly
<1>5. OneMessage'
    BY <1>0, <1>2, <1>3 DEF CallsInv, Accounted, OneMessage
<1>6. OpenForCause'
  <2> SUFFICES ASSUME NEW v \in recording, v \notin astray' PROVE Cause(v)'
    BY <1>0 DEF OpenForCause
  <2>1. v \notin astray /\ v \in Tg /\ v \notin S
    <3> HIDE DEF S
    <3> QED BY <1>0, StaysAstray DEF CallsInv, PlaneTypes
  <2>2. CASE ~IsClear(v)
    <3>1. PICK u \in Joined(v), d \in Client : Holds(u, d)
      BY <2>1, <2>2, ClearMeans DEF CallsInv
    <3>2. u \in Tg /\ Joined(u) = Joined(v) /\ v \in Joined(v)
      BY <2>1, JoinedAlike, JoinedRoutes DEF CallsInv, TypeOK
    <3>3. d # c
      BY <2>1, <3>1, <3>2
    <3> QED BY <1>0, <1>3, <2>1, <3>1, <3>2, <3>3, ClearMeansNext DEF CallsInv, Cause
  <2>3. CASE IsClear(v)
    <3>1. \A d \in Unit : d \in Client /\ d # c
      BY RouterAssumption DEF Client
    <3> QED BY <1>0, <1>1, <1>3, <2>1, <2>3, <3>1 DEF CallsInv, Accounted, OpenForCause, Cause
  <2> QED BY <2>2, <2>3
<1> HIDE DEF S
<1>7. ASSUME NEW v \in Tg, NEW d \in Client, Talks(v, d)', v \notin astray'
      PROVE  v \notin astray /\ Talks(v, d)
  <2>1. keyed'[v] # None /\ keyed_by'[d] # None
    BY <1>7, RouterAssumption DEF Talks
  <2> QED BY <1>0, <1>3, <1>7, <2>1, StaysAstray DEF Talks
<1>8. ToldToAll'
  <2> SUFFICES ASSUME NEW d \in Console, NEW v, v = step[d].tg, step[d].do = "begin",
                      v \notin astray', Holds(v, d)',
                      NEW e \in online', Watches(e, v)'
               PROVE  e \in step[d].watching
    BY <1>0 DEF ToldToAll, Watches
  <2>1. v \in Tg
    BY StepParts DEF CallsInv
  <2>2. v \notin astray /\ Holds(v, d)
    BY <1>0, <1>2, <1>3, <2>1, HeldIsNotForgotten
  <2> QED BY <1>1, <1>3, <2>1, <2>2 DEF CallsInv, Accounted, ToldToAll
<1>9. TalkerIsRecorded'
    BY <1>0, <1>7 DEF CallsInv, Accounted, TalkerIsRecorded, Talks
<1>10. LitWhileTalking'
  <2> SUFFICES ASSUME NEW v \in Tg, v \notin astray', ~IsClear(v)' PROVE ShownToWatchers(v)'
    BY DEF LitWhileTalking, ShownToWatchers
  <2>1. v \notin astray /\ ~IsClear(v)
    BY <1>0, <1>3, HeldIsNotForgotten, BusyBefore
  <2>2. BeingTold(v)' <=> BeingTold(v)
    BY <1>0, <1>3 DEF BeingTold
  <2> QED BY <1>0, <1>1, <1>3, <2>1, <2>2, StillShown
<1> QED
    BY <1>3, <1>4, <1>5, <1>6, <1>8, <1>9, <1>10 DEF Accounted

-------------------------------------------------------------------------------
\* Steps that leave the router's grants alone: what a task does once it has the
\* other locks, and boards that change.

\* What holds of the grants holds on, as far as the buttons and routes go.
LEMMA StillGranted ==
    ASSUME CallsInv, UNCHANGED <<keyed, also, keyed_by, took, patches, down>>,
           NEW ACTION S, GoneAstray(S)
    PROVE  /\ TookIsChannel' /\ HeldOpenly'
           /\ \A w \in Tg : Joined(w)' = Joined(w) /\ IsClear(w)' = IsClear(w)
           /\ \A v \in recording' : v \notin astray' => v \notin astray /\ v \notin S
           /\ \A v \in Tg : ~IsClear(v) /\ v \notin astray' => v \notin astray /\ v \notin S
           /\ \A v \in Tg, d \in Client : Holds(v, d) => ~IsClear(v)
           /\ \A v \in Tg, d \in Client : Talks(v, d) /\ v \notin astray' =>
                 v \notin astray /\ v \notin S /\ ~IsClear(v)
<1>1. \A w \in Tg : Joined(w)' = Joined(w) /\ IsClear(w)' = IsClear(w) /\ w \in Joined(w)
    BY JoinedRoutes DEF CallsInv, TypeOK, Joined, IsClear, ClearGiven
<1>2. \A v \in Tg, d \in Client : Talks(v, d) => keyed'[v] # None /\ ~IsClear(v)
    BY <1>1, RouterAssumption DEF Talks, IsClear, ClearGiven
<1>3. \A v \in Tg, d \in Client : Holds(v, d) => ~IsClear(v)
    BY <1>1, RouterAssumption DEF Holds, IsClear, ClearGiven
<1>4. \A v \in Tg : ~IsClear(v) => ~ClearGiven(keyed', also', v)
    BY DEF IsClear, ClearGiven
<1> QED
    BY <1>1, <1>2, <1>3, <1>4, StaysAstray
    DEF CallsInv, Accounted, TookIsChannel, HeldOpenly, Holds

LEMMA TxKeyToldKeeps ==
    ASSUME CallsInv, NEW c \in Console, TxKeyTold(c)
    PROVE  Accounted'
<1> DEFINE t == step[c].tg
           S == IF Holds(t, c) THEN FarSide(t) ELSE Joined(t)
<1>0. /\ step[c].do = "begin" /\ recording' = recording \cup {t}
      /\ AnnounceOn(t, TRUE, step[c].watching, c)
      /\ step' = [step EXCEPT ![c] = NoStep]
      /\ UNCHANGED <<kind, keying, roster, patches, pending, identity, online, down>>
      /\ GoneAstray(S)
    BY DEF TxKeyTold, vars
<1>1. /\ t \in Tg /\ step'[c] = NoStep
      /\ \A d \in Console : d # c => step'[d] = step[d]
    BY <1>0, StepParts DEF CallsInv, PlaneTypes
<1>2. UNCHANGED <<keyed, also, keyed_by, took, members, patches, online, down>>
    BY <1>0 DEF keying, roster
<1> HIDE DEF S, t
<1>3. /\ TookIsChannel' /\ HeldOpenly'
      /\ \A w \in Tg : Joined(w)' = Joined(w) /\ IsClear(w)' = IsClear(w)
      /\ \A v \in recording' : v \notin astray' => v \notin astray /\ v \notin S
      /\ \A v \in Tg : ~IsClear(v) /\ v \notin astray' => v \notin astray /\ v \notin S
      /\ \A v \in Tg, d \in Client : Holds(v, d) => ~IsClear(v)
      /\ \A v \in Tg, d \in Client : Talks(v, d) /\ v \notin astray' => v \notin astray
    BY <1>0, <1>2, StillGranted
<1>4. /\ NoStep.do = "nothing"
      /\ \A d, w : Watches(d, w)' = Watches(d, w) /\ Talks(w, d)' = Talks(w, d)
      /\ \A d, w : Holds(w, d)' = Holds(w, d)
    BY <1>2 DEF NoStep, Watches, Talks, Holds
<1>5. OneMessage'
    BY <1>1, <1>2, <1>4 DEF CallsInv, Accounted, OneMessage
<1>6. OpenForCause'
  <2> SUFFICES ASSUME NEW v \in recording', v \notin astray' PROVE Cause(v)'
    BY DEF OpenForCause
  <2>1. v \notin astray /\ v \notin S /\ v \in Tg
    BY <1>0, <1>1, <1>3 DEF CallsInv, PlaneTypes
  <2>2. CASE v \in Joined(t)
    <3>1. Holds(t, c) /\ t \in Joined(v)
      BY <1>1, <2>1, <2>2, JoinedAlike, JoinedRoutes DEF S, CallsInv, TypeOK
    <3>2. ~IsClear(v)
      BY <2>1, <3>1, ClearMeans DEF CallsInv, Client
    <3> QED BY <1>3, <2>1, <3>2 DEF Cause
  <2>3. CASE v \notin Joined(t)
    <3>1. v # t
      BY <1>1, <2>3, JoinedRoutes DEF CallsInv, TypeOK
    <3>2. Cause(v)
      BY <1>0, <2>1, <3>1 DEF CallsInv, Accounted, OpenForCause
    <3> QED BY <1>1, <1>2, <1>3, <2>1, <3>1, <3>2 DEF Cause, t
  <2> QED BY <2>2, <2>3
<1>7. ToldToAll'
  <2> SUFFICES ASSUME NEW d \in Console, NEW v, v = step'[d].tg, step'[d].do = "begin",
                      v \notin astray', Holds(v, d), NEW e \in online, Watches(e, v)
               PROVE  e \in step'[d].watching
    BY <1>2, <1>4 DEF ToldToAll
  <2>1. d # c /\ step'[d] = step[d] /\ v \in Tg /\ d \in Client
    BY <1>1, <1>4, StepParts DEF CallsInv, Client
  <2>2. v \notin astray
    BY <1>3, <2>1
  <2> QED BY <2>1, <2>2 DEF CallsInv, Accounted, ToldToAll
<1>8. ASSUME NEW v \in Tg, NEW d \in Client, Talks(v, d), v \notin astray'
      PROVE  /\ v \notin astray
             /\ d = c => v = t
             /\ d # c /\ d \in Console => step'[d] = step[d]
  <2>1. v \in Tg /\ v # None
    BY RouterAssumption
  <2> QED BY <1>0, <1>1, <1>3, <1>8, <2>1 DEF CallsInv, Accounted, OneMessage, Talks, t
<1>9. TalkerIsRecorded'
  <2> SUFFICES ASSUME NEW v \in Tg, v \notin astray', NEW d \in Client, Talks(v, d)
               PROVE  v \in recording' \/ (d \in Console /\ step'[d] # NoStep)
    BY <1>4 DEF TalkerIsRecorded, Talks
  <2> QED BY <1>0, <1>8 DEF CallsInv, Accounted, TalkerIsRecorded, Talks
<1>10. LitWhileTalking'
  <2> SUFFICES ASSUME NEW v \in Tg, v \notin astray', ~IsClear(v)' PROVE ShownToWatchers(v)'
    BY DEF LitWhileTalking, ShownToWatchers
  <2>1. ~IsClear(v) /\ v \notin astray /\ v \notin S /\ Joined(v)' = Joined(v)
    BY <1>3
  <2>2. \A e \in online : e \in Console /\ lit[e] \subseteq lit'[e]
    BY <1>0 DEF AnnounceOn, CallsInv, PlaneTypes
  <2>3. CASE v \notin Joined(t)
    <3>1. BeingTold(v) => BeingTold(v)'
      <4>1. t \notin Joined(v)
        BY <1>1, <2>3, JoinedAlike, JoinedRoutes DEF CallsInv, TypeOK
      <4> QED BY <1>1, <2>1, <4>1 DEF BeingTold, t
    <3> QED BY <1>2, <1>4, <2>1, <2>2, <3>1, StillShown
  <2>4. CASE v \in Joined(t)
    <3> SUFFICES ASSUME NEW e \in online, Watches(e, v) PROVE lit'[e] \cap Joined(v) # {}
      BY <1>2, <1>4, <2>1 DEF ShownToWatchers
    <3>1. Holds(t, c) /\ v \notin FarSide(t)
      BY <2>1, <2>4 DEF S
    <3>2. Joined(v) = Joined(t) /\ t \in Joined(t)
      BY <1>1, <2>4, JoinedAlike, JoinedRoutes DEF CallsInv, TypeOK
    <3>3. CASE v = t
      <4>1. e \in step[c].watching
        BY <1>0, <2>1, <3>1, <3>3 DEF CallsInv, Accounted, ToldToAll, t
      <4> QED BY <1>0, <2>2, <3>2, <3>3, <4>1 DEF AnnounceOn
    <3>4. CASE v # t
      BY <2>4, <3>1, <3>2, <3>4 DEF FarSide, Rest
    <3> QED BY <3>3, <3>4
  <2> QED BY <2>3, <2>4
<1> QED
    BY <1>3, <1>5, <1>6, <1>7, <1>9, <1>10 DEF Accounted

LEMMA TaskEndsKeeps ==
    ASSUME CallsInv, NEW c \in Console, TxUnkeyTold(c) \/ TxRecordingEnds(c)
    PROVE  Accounted'
<1> DEFINE t == step[c].tg
           S == IF TxUnkeyTold(c) THEN (IF IsClear(t) THEN {} ELSE Joined(t))
                ELSE (IF TalkersOn(t) = {} THEN {} ELSE Joined(t))
<1>0. /\ step[c].do \in {"dark", "end"} /\ GoneAstray(S)
      /\ UNCHANGED <<kind, keying, roster, patches, pending, identity, online, down>>
      /\ \/ /\ AnnounceOn(t, FALSE, step[c].watching, c) /\ recording' = recording
            /\ step' = [step EXCEPT ![c] = [do |-> "end", tg |-> t]]
            /\ S = IF IsClear(t) THEN {} ELSE Joined(t)
         \/ /\ lit' = lit /\ recording' = recording \ {t}
            /\ step' = [step EXCEPT ![c] = NoStep]
            /\ S = IF TalkersOn(t) = {} THEN {} ELSE Joined(t)
  <2>1. CASE TxUnkeyTold(c)
    BY <2>1 DEF TxUnkeyTold, vars
  <2>2. CASE ~TxUnkeyTold(c)
    BY <2>2 DEF TxRecordingEnds, vars
  <2> QED BY <2>1, <2>2
<1> HIDE DEF S
<1>1. /\ t \in Tg /\ t \in Joined(t)
      /\ \A d \in Console : d # c => step'[d] = step[d]
      /\ \/ step'[c] = [do |-> "end", tg |-> t] /\ recording' = recording
         \/ step'[c] = NoStep /\ recording' = recording \ {t}
    BY <1>0, StepParts, JoinedRoutes DEF CallsInv, PlaneTypes, TypeOK
<1>2. UNCHANGED <<keyed, also, keyed_by, took, members, patches, online, down>>
    BY <1>0 DEF keying, roster
<1> HIDE DEF t
<1>3. /\ TookIsChannel' /\ HeldOpenly'
      /\ \A w \in Tg : Joined(w)' = Joined(w) /\ IsClear(w)' = IsClear(w)
      /\ \A v \in recording' : v \notin astray' => v \notin astray /\ v \notin S
      /\ \A v \in Tg : ~IsClear(v) /\ v \notin astray' => v \notin astray /\ v \notin S
      /\ \A v \in Tg, d \in Client : Holds(v, d) => ~IsClear(v)
      /\ \A v \in Tg, d \in Client : Talks(v, d) /\ v \notin astray' =>
            v \notin astray /\ v \notin S /\ ~IsClear(v)
    BY <1>0, <1>2, StillGranted
<1>4. /\ step'[c].do \in {"end", "nothing"}
      /\ step'[c] # NoStep => step'[c].tg = t
      /\ recording' # recording \ {t} => step'[c] # NoStep
    BY <1>1 DEF NoStep
<1>5. /\ \A d, w : Watches(d, w)' = Watches(d, w) /\ Talks(w, d)' = Talks(w, d)
      /\ \A d, w : Holds(w, d)' = Holds(w, d)
    BY <1>2 DEF Watches, Talks, Holds
<1>6. keyed_by[c] = None
    BY <1>0 DEF CallsInv, Accounted, OneMessage
<1>7. OneMessage'
    BY <1>1, <1>2, <1>4, <1>6 DEF CallsInv, Accounted, OneMessage
<1>8. OpenForCause'
  <2> SUFFICES ASSUME NEW v \in recording', v \notin astray' PROVE Cause(v)'
    BY DEF OpenForCause
  <2>1. v \notin astray /\ v \in recording /\ v \in Tg
    BY <1>1, <1>3 DEF CallsInv, PlaneTypes
  <2>2. Cause(v)
    BY <2>1 DEF CallsInv, Accounted, OpenForCause
  <2>3. ASSUME NEW d \in Console, step[d] # NoStep, step[d].tg = v
        PROVE  step'[d] # NoStep /\ step'[d].tg = v
    BY <1>1, <1>4, <2>3 DEF t
  <2> QED BY <1>2, <1>3, <2>1, <2>2, <2>3 DEF Cause
<1>9. ToldToAll'
  <2> SUFFICES ASSUME NEW d \in Console, NEW v, v = step'[d].tg, step'[d].do = "begin",
                      v \notin astray', Holds(v, d), NEW e \in online, Watches(e, v)
               PROVE  e \in step'[d].watching
    BY <1>2, <1>5 DEF ToldToAll
  <2>1. d # c
    BY <1>4
  <2>2. step'[d] = step[d] /\ v \in Tg /\ d \in Client
    BY <1>1, <2>1, StepParts DEF CallsInv, Client
  <2>3. v \notin astray
    BY <1>3, <2>2
  <2> QED BY <2>2, <2>3 DEF CallsInv, Accounted, ToldToAll
<1>10. ASSUME NEW v \in Tg, NEW d \in Client, Talks(v, d), v \notin astray'
       PROVE  /\ v \notin astray /\ d # c /\ (d \in Console => step'[d] = step[d])
              /\ v \in recording => v \in recording'
  <2>1. v \notin astray /\ v \notin S /\ ~IsClear(v) /\ d # c
    BY <1>3, <1>6, <1>10, RouterAssumption DEF Talks
  <2>2. d \in TalkersOn(v)
    BY <1>10 DEF TalkersOn, Holds, Talks
  <2>3. v \in recording => v \in recording'
    BY <1>0, <1>1, <2>1, <2>2
  <2> QED BY <1>1, <2>1, <2>3
<1>11. TalkerIsRecorded'
  <2> SUFFICES ASSUME NEW v \in Tg, v \notin astray', NEW d \in Client, Talks(v, d)
               PROVE  v \in recording' \/ (d \in Console /\ step'[d] # NoStep)
    BY <1>5 DEF TalkerIsRecorded, Talks
  <2> QED BY <1>10 DEF CallsInv, Accounted, TalkerIsRecorded, Talks
<1>12. LitWhileTalking'
  <2> SUFFICES ASSUME NEW v \in Tg, v \notin astray', ~IsClear(v)' PROVE ShownToWatchers(v)'
    BY DEF LitWhileTalking, ShownToWatchers
  <2>1. ~IsClear(v) /\ v \notin astray /\ v \notin S /\ Joined(v)' = Joined(v)
    BY <1>3
  <2>2. BeingTold(v) => BeingTold(v)'
    BY <1>0, <1>1, <2>1 DEF BeingTold
  <2>3. \A d \in online : lit[d] \cap Joined(v) \subseteq lit'[d]
    <3>1. ASSUME AnnounceOn(t, FALSE, step[c].watching, c), S = IF IsClear(t) THEN {} ELSE Joined(t)
          PROVE  t \notin Joined(v)
      <4> SUFFICES ASSUME t \in Joined(v) PROVE FALSE
        OBVIOUS
      <4>1. Joined(t) = Joined(v) /\ v \in Joined(v)
        BY JoinedAlike, JoinedRoutes DEF CallsInv, TypeOK
      <4> QED BY <2>1, <3>1, <4>1 DEF IsClear, ClearGiven
    <3>2. \A d \in online : d \in Console
      BY DEF CallsInv, PlaneTypes
    <3> QED BY <1>0, <3>1, <3>2 DEF AnnounceOn
  <2> QED BY <1>2, <1>5, <2>1, <2>2, <2>3, StillShown
<1> QED
    BY <1>3, <1>7, <1>8, <1>9, <1>11, <1>12 DEF Accounted

\* Who starts to watch during a call puts its channel astray.
LEMMA BoardsKeep ==
    ASSUME CallsInv, UNCHANGED <<keyed, also, keyed_by, took, patches, down, recording, step>>,
           MissesWhatIsUp
    PROVE  Accounted'
<1> DEFINE S == {t \in Tg : ~IsClear(t)}
<1>1. GoneAstray(S)
    BY DEF MissesWhatIsUp
<1>2. S = {t \in Tg : ~IsClear(t)}
    OBVIOUS
<1> HIDE DEF S
<1>3. /\ TookIsChannel' /\ HeldOpenly'
      /\ \A w \in Tg : Joined(w)' = Joined(w) /\ IsClear(w)' = IsClear(w)
      /\ \A v \in recording' : v \notin astray' => v \notin astray
      /\ \A v \in Tg : IsClear(v) \/ v \in astray'
      /\ \A v \in Tg, d \in Client : Holds(v, d) => ~IsClear(v)
      /\ \A v \in Tg, d \in Client : ~(Talks(v, d) /\ v \notin astray')
    BY <1>1, <1>2, StillGranted
<1>4. OneMessage'
    BY DEF CallsInv, Accounted, OneMessage
<1>5. OpenForCause'
  <2>1. \A v \in recording : v \in Tg
    BY DEF CallsInv, PlaneTypes
  <2> QED BY <1>3, <2>1 DEF CallsInv, Accounted, OpenForCause, Cause
<1>6. ToldToAll'
  <2> SUFFICES ASSUME NEW d \in Console, step[d].do = "begin", step[d].tg \notin astray',
                      Holds(step[d].tg, d)
               PROVE  FALSE
    BY DEF ToldToAll, Holds
  <2> QED BY <1>3, StepParts DEF CallsInv, Client
<1>7. TalkerIsRecorded' /\ LitWhileTalking'
    BY <1>3 DEF TalkerIsRecorded, LitWhileTalking, ShownToWatchers, Talks
<1> QED
    BY <1>3, <1>4, <1>5, <1>6, <1>7 DEF Accounted

\* Time passes for refusals only.
LEMMA IdleKeeps ==
    ASSUME CallsInv, TimePasses \/ UNCHANGED callvars
    PROVE  Accounted'
<1>1. UNCHANGED <<keyed, also, keyed_by, took, members, patches, plane>>
    BY DEF TimePasses, Clock, WindowElapses, callvars, vars, keying, roster
<1>2. UNCHANGED <<online, down, recording, lit, step, astray>>
    BY <1>1 DEF plane
<1> QED
    BY <1>1, <1>2 DEF CallsInv, Accounted, TookIsChannel, HeldOpenly, Holds, Joined, OneMessage,
       OpenForCause, Cause, IsClear, ClearGiven, ToldToAll, Watches, TalkerIsRecorded,
       LitWhileTalking, ShownToWatchers, BeingTold

-------------------------------------------------------------------------------
LEMMA AccountedPreserved ==
    ASSUME CallsInv, TypeOK', [CallsNext]_callvars
    PROVE  Accounted'
<1>1. CASE UnitActs
  <2>1. PICK c \in Unit : (\E t \in Tg : ApiKey(t, c) \/ ApiUnkey(t, c)) \/ TapDrops(ServerOf[c])
    BY <1>1 DEF UnitActs
  <2>2. ServerOf[c] \in Server
    BY RouterAssumption DEF Client
  <2> QED BY <2>1, <2>2, ApiKeyKeeps, ApiUnkeyKeeps, TapDropsKeeps
<1>2. CASE ConsoleActs
  <2>1. PICK c \in Console :
           \/ \E t \in Tg : TxKey(t, c) \/ TxUnkey(t, c)
           \/ \E S \in Boards[c] : BoardChanges(c, S)
           \/ SocketDrops(c) \/ Detach(c) \/ Reconnect(c)
    BY <1>2 DEF ConsoleActs, ButtonActs
  <2>2. CASE (\E S \in Boards[c] : BoardChanges(c, S)) \/ Reconnect(c)
    <3>1. UNCHANGED <<keyed, also, keyed_by, took, patches, down, recording, step>>
      BY <2>2 DEF BoardChanges, Reconnect, ConsoleUpdate, keying, vars
    <3>2. MissesWhatIsUp
      BY <2>2 DEF BoardChanges, Reconnect
    <3> QED BY <3>1, <3>2, BoardsKeep
  <2> QED BY <2>1, <2>2, TxKeyKeeps, TxUnkeyKeeps, SocketDropsKeeps, DetachKeeps
<1>3. CASE \E c \in Console : TaskActs(c)
    BY <1>3, TxKeyToldKeeps, TaskEndsKeeps DEF TaskActs
<1>4. CASE TimePasses \/ UNCHANGED callvars
    BY <1>4, IdleKeeps
<1> QED BY <1>1, <1>2, <1>3, <1>4 DEF CallsNext

LEMMA CallsInductive ==
    CallsSpec => []CallsInv
<1>1. CallsInit => CallsInv
  <2> SUFFICES ASSUME CallsInit PROVE CallsInv
    OBVIOUS
  <2>1. TypeOK /\ PlaneTypes
    <3>1. PICK board \in [Console -> SUBSET Tg] :
             members = [t \in Tg |-> [c \in Client |->
                 IF c \in Console /\ t \in board[c]
                 THEN [listen |-> TRUE, quality |-> 100] ELSE None]]
      BY DEF CallsInit
    <3>2. [listen |-> TRUE, quality |-> 100] \in Member
      BY RouterAssumption DEF Member
    <3>3. members \in [Tg -> [Client -> Optional(Member)]]
      BY <3>1, <3>2 DEF Optional
    <3>4. TypeOK
      BY <3>3, RouterAssumption DEF CallsInit, TypeOK, Optional, Client
    <3>5. PlaneTypes
      BY DEF CallsInit, PlaneTypes, Optional, Step
    <3> QED BY <3>4, <3>5
  <2>2. \A u \in Tg, c \in Client : ~Holds(u, c) /\ keyed[u] # c
    BY RouterAssumption DEF CallsInit, Holds
  <2>3. \A c \in Console : step[c].do = "nothing"
    BY DEF CallsInit, NoStep
  <2>4. \A c \in Console : c \in Client
    BY DEF Client
  <2>5. TookIsChannel /\ OpenForCause
    BY DEF CallsInit, TookIsChannel, OpenForCause
  <2>6. LitWhileTalking
    <3>1. \A v \in Tg : Joined(v) \subseteq Tg
      BY <2>1, JoinedRoutes DEF TypeOK
    <3>2. \A v \in Tg : IsClear(v)
      BY <2>1, <2>2, <3>1, ClearMeans
    <3> QED BY <3>2 DEF LitWhileTalking, ShownToWatchers
  <2> QED BY <2>1, <2>2, <2>3, <2>4, <2>5, <2>6
          DEF CallsInv, Accounted, HeldOpenly, OneMessage, ToldToAll, TalkerIsRecorded
<1>2. CallsInv /\ [CallsNext]_callvars => CallsInv'
  <2> SUFFICES ASSUME CallsInv, [CallsNext]_callvars PROVE CallsInv'
    OBVIOUS
  <2>1. TypeOK' /\ PlaneTypes'
    BY RouterTyped, PlaneTyped DEF CallsInv
  <2> QED BY <2>1, AccountedPreserved DEF CallsInv
<1> QED
    BY <1>1, <1>2, PTL DEF CallsSpec

\* A recording that is open has somebody talking, or yet to let go, or a task
\* that is to end it, unless its channel has gone astray (release_key: "or the
\* call stays open forever and never appears in recall at all").
THEOREM EveryRecordingIsOfACall ==
    CallsSpec => []RecordingIsOfACall
<1>1. CallsInv => RecordingIsOfACall
  <2> SUFFICES ASSUME CallsInv, NEW v \in recording \ astray
               PROVE  ~IsClear(v) \/ Unfinished(v)
    BY DEF RecordingIsOfACall
  <2>1. v \in Tg /\ v \in Joined(v) /\ Cause(v)
    BY JoinedRoutes DEF CallsInv, Accounted, OpenForCause, PlaneTypes, TypeOK
  <2> QED BY <2>1 DEF Cause, Unfinished, Client
<1> QED
    BY <1>1, CallsInductive, PTL

\* Whoever has the route they pressed is being recorded, or their own message is
\* still being served, however releases, drops and board changes interleave.
THEOREM EveryTalkerIsRecorded ==
    CallsSpec => []TalkerIsRecorded
<1>1. CallsInv => TalkerIsRecorded
    BY DEF CallsInv, Accounted
<1> QED
    BY <1>1, CallsInductive, PTL

\* While anybody transmits on a channel, once the press is told, every page that
\* watches any side of it has a module of it lit, unless the route has gone
\* astray: the far side of a console's press is among those (Released: "a module
\* must stay lit while either is talking").
THEOREM ModulesStayLit ==
    CallsSpec => []LitWhileTalking
<1>1. CallsInv => LitWhileTalking
    BY DEF CallsInv, Accounted
<1> QED
    BY <1>1, CallsInductive, PTL
===============================================================================
