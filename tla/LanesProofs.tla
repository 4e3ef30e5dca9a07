------------------------------ MODULE LanesProofs ------------------------------
(***************************************************************************)
(* What the deadband of a listener's lane costs, for every set of routes,  *)
(* clients, patch tables and qualities: no report is lost, and nobody is   *)
(* rendered more than one lane beside what was last told of their link.    *)
(***************************************************************************)
EXTENDS RouterLanes, RouterProofs

\* What a member is rendered with, against what was told.
Beside(served, told_) ==
    \/ served = told_
    \/ /\ Muted(LaneOf(served)) = Muted(LaneOf(told_))
       /\ LaneOf(served) - LaneOf(told_) \in -LANE_STEP..LANE_STEP

LanesInv == TypeOK /\ NothingToldIsLost /\ OneLaneBehind

LEMMA OneLaneBehindIsBeside ==
    OneLaneBehind <=> \A t \in Tg, c \in Client :
        members[t][c] # None => Beside(members[t][c].quality, told[t][c])
BY DEF OneLaneBehind, Beside

\* A step that tells nothing of a link brings no member, changes nothing that is
\* known, and renders a member as before or at what is known.
KeepsWhatIsKnown ==
    \A t \in Tg, c \in Client : members'[t][c] # None =>
        /\ members[t][c] # None
        /\ Known(t, c)' = Known(t, c)
        /\ members'[t][c].quality \in {members[t][c].quality, Known(t, c)}

LEMMA DrainKeeps ==
    ASSUME TypeOK, NEW ACTION S, DrainDeferred(S)
    PROVE  KeepsWhatIsKnown
<1> SUFFICES ASSUME NEW t \in Tg, NEW c \in Client, members'[t][c] # None
             PROVE  /\ members[t][c] # None
                    /\ Known(t, c)' = Known(t, c)
                    /\ members'[t][c].quality \in {members[t][c].quality, Known(t, c)}
    BY DEF KeepsWhatIsKnown
<1>1. /\ members'[t][c] = IF t \in S /\ members[t][c] # None /\ deferred[t][c] # None
                          THEN [members[t][c] EXCEPT !.quality = deferred[t][c]]
                          ELSE members[t][c]
      /\ deferred'[t][c] = IF t \in S THEN None ELSE deferred[t][c]
    BY DEF DrainDeferred
<1>2. members[t][c] # None
    BY <1>1
<1>3. members[t][c] \in Member
    BY <1>2 DEF TypeOK, Optional
<1>4. CASE t \in S /\ deferred[t][c] # None
  <2>1. members'[t][c].quality = deferred[t][c] /\ deferred'[t][c] = None
    BY <1>1, <1>2, <1>3, <1>4 DEF Member
  <2> QED BY <1>2, <1>4, <2>1 DEF Known
<1>5. CASE ~(t \in S /\ deferred[t][c] # None)
  <2>1. members'[t][c] = members[t][c] /\ deferred'[t][c] = deferred[t][c]
    BY <1>1, <1>5
  <2> QED BY <1>2, <2>1 DEF Known
<1> QED BY <1>4, <1>5

LEMMA WithoutKeeps ==
    ASSUME NEW C, members' = Without(members, C),
           deferred' \in {deferred, Without(deferred, C)}
    PROVE  KeepsWhatIsKnown
BY DEF KeepsWhatIsKnown, Without, Known

LEMMA OtherKeeps ==
    ASSUME TypeOK, Other \/ Teardown
    PROVE  KeepsWhatIsKnown
<1>1. CASE UNCHANGED <<members, deferred>>
    BY <1>1 DEF KeepsWhatIsKnown, Known
<1>2. ASSUME NEW t \in Tg, NEW c \in Client, Key(t, c) \/ KeyBusy(t, c) PROVE KeepsWhatIsKnown
    BY <1>1, <1>2 DEF Key, KeyBusy, roster
<1>3. ASSUME NEW t \in Tg, NEW c \in Client, UnkeyAs(t, c) PROVE KeepsWhatIsKnown
    BY <1>3, DrainKeeps DEF UnkeyAs
<1>4. ASSUME NEW t \in Tg, Unkey(t) PROVE KeepsWhatIsKnown
    BY <1>4, DrainKeeps DEF Unkey
<1>5. CASE Plan
  <2>1. ASSUME NEW t \in Tg, Close(t) PROVE KeepsWhatIsKnown
    BY <2>1 DEF Close, KeepsWhatIsKnown, Known, TypeOK
  <2>2. ASSUME ~\E t \in Tg : Close(t) PROVE KeepsWhatIsKnown
    BY <1>1, <1>5, <2>2 DEF Plan, Open, OpenConventional, SetPatches, roster
  <2> QED BY <2>1, <2>2
<1>6. CASE Arrive \/ Clock
    BY <1>1, <1>6 DEF Arrive, Clock, Bind, WindowElapses, roster
<1>7. ASSUME NEW s \in Session, Unbind(s) PROVE KeepsWhatIsKnown
    BY <1>7, WithoutKeeps DEF Unbind
<1>8. ASSUME NEW server \in Server, DropServer(server) PROVE KeepsWhatIsKnown
    BY <1>8, WithoutKeeps DEF DropServer
<1>9. ASSUME NEW c \in Console, ForgetClient(c) PROVE KeepsWhatIsKnown
    BY <1>9, WithoutKeeps DEF ForgetClient
<1> QED
    BY <1>2, <1>3, <1>4, <1>5, <1>6, <1>7, <1>8, <1>9
       DEF Other, Talk, Press, Refuse, Release, Teardown, Leave

\* A report is in force or parked, and parked only one lane away; what is known
\* of everybody else stays as it was handed in.
LEMMA ReportIsKept ==
    ASSUME NEW S \in SUBSET Tg, NEW c \in Client, NEW listen \in BOOLEAN, NEW quality \in Quality,
           NEW STATE was, was \in [Tg -> [Client -> Optional(Member)]],
           NEW STATE parked, parked \in [Tg -> [Client -> Optional(Quality)]],
           SetMembers(S, c, listen, quality, was, parked)
    PROVE  /\ \A t \in S : /\ members'[t][c] # None => Known(t, c)' = quality
                           /\ Beside(members'[t][c].quality, quality)
           /\ \A t \in Tg, d \in Client : t \notin S \/ d # c =>
                 members'[t][d] = was[t][d] /\ deferred'[t][d] = parked[t][d]
<1> DEFINE held(t)   == /\ was[t][c] # None
                        /\ ~IsClear(t)
                        /\ JittersOneLane(was[t][c].quality, quality)
           served(t) == IF held(t) THEN was[t][c].quality ELSE quality
<1>1. /\ members' = [t \in Tg |->
              IF t \in S
              THEN [was[t] EXCEPT ![c] = [listen |-> listen, quality |-> served(t)]]
              ELSE was[t]]
      /\ deferred' = [t \in Tg |->
              IF t \in S
              THEN [parked[t] EXCEPT ![c] = IF held(t) THEN quality ELSE None]
              ELSE parked[t]]
    BY DEF SetMembers, Parked
<1>2. ASSUME NEW t \in S
      PROVE  (members'[t][c] # None => Known(t, c)' = quality) /\ Beside(members'[t][c].quality, quality)
  <2>1. quality # None
    BY RouterAssumption
  <2>2. CASE held(t)
    <3>1. members'[t][c].quality = was[t][c].quality /\ deferred'[t][c] = quality
      BY <1>1, <2>2
    <3>2. Beside(was[t][c].quality, quality)
      BY <2>2 DEF JittersOneLane, Beside, LANE_STEP
    <3> QED BY <2>1, <3>1, <3>2 DEF Known
  <2>3. CASE ~held(t)
    <3>1. members'[t][c].quality = quality /\ deferred'[t][c] = None
      BY <1>1, <2>3
    <3> QED BY <3>1 DEF Known, Beside
  <2> QED BY <2>2, <2>3
<1>3. ASSUME NEW t \in Tg, NEW d \in Client, t \notin S \/ d # c
      PROVE  members'[t][d] = was[t][d] /\ deferred'[t][d] = parked[t][d]
  <2> HIDE DEF held, served
  <2> QED BY <1>1, <1>3
<1> QED BY <1>2, <1>3

-------------------------------------------------------------------------------
LEMMA StepIsOfRouter ==
    ASSUME LanesNext
    PROVE  Next
BY DEF LanesNext, Reported, Other, Next, Subscribe

\* A report of one client's link, on any number of routes, from a table that may
\* have lost that client beforehand.
LEMMA ReportPreserves ==
    ASSUME LanesInv, NEW S \in SUBSET Tg, NEW c \in Client, NEW listen \in BOOLEAN,
           NEW quality \in Quality, NEW C \in SUBSET {c},
           SetMembers(S, c, listen, quality, Without(members, C), Without(deferred, C)),
           Hears(S, c, quality)
    PROVE  NothingToldIsLost' /\ OneLaneBehind'
<1> DEFINE was    == Without(members, C)
           parked == Without(deferred, C)
<1>1. /\ was \in [Tg -> [Client -> Optional(Member)]]
      /\ parked \in [Tg -> [Client -> Optional(Quality)]]
    BY WithoutType DEF LanesInv, TypeOK
<1>2. \A t \in Tg, d \in Client :
         (was[t][d] = members[t][d] /\ parked[t][d] = deferred[t][d]) \/ was[t][d] = None
    BY DEF Without
<1>3. SetMembers(S, c, listen, quality, was, parked)
    OBVIOUS
<1> HIDE DEF was, parked
<1>4. /\ \A t \in S : /\ members'[t][c] # None => Known(t, c)' = quality
                      /\ Beside(members'[t][c].quality, quality)
      /\ \A t \in Tg, d \in Client : t \notin S \/ d # c =>
            members'[t][d] = was[t][d] /\ deferred'[t][d] = parked[t][d]
    BY <1>1, <1>3, ReportIsKept
<1>5. ASSUME NEW t \in Tg, NEW d \in Client, members'[t][d] # None
      PROVE  Known(t, d)' = told'[t][d] /\ Beside(members'[t][d].quality, told'[t][d])
  <2>1. told'[t][d] = IF t \in S /\ d = c THEN quality ELSE told[t][d]
    BY <1>5 DEF Hears
  <2>2. CASE t \in S /\ d = c
    BY <1>4, <1>5, <2>1, <2>2
  <2>3. CASE ~(t \in S /\ d = c)
    <3>1. members'[t][d] = members[t][d] /\ deferred'[t][d] = deferred[t][d]
      BY <1>2, <1>4, <1>5, <2>3
    <3>2. Known(t, d)' = Known(t, d)
      BY <3>1 DEF Known
    <3> QED BY <1>5, <2>1, <2>3, <3>1, <3>2, OneLaneBehindIsBeside
            DEF LanesInv, NothingToldIsLost
  <2> QED BY <2>2, <2>3
<1> QED BY <1>5 DEF NothingToldIsLost, OneLaneBehind, Beside

LEMMA LanesPreserved ==
    ASSUME LanesInv, [LanesNext]_lanevars
    PROVE  LanesInv'
<1>1. TypeOK'
  <2>1. [Next]_vars
    BY StepIsOfRouter DEF lanevars
  <2> QED BY <2>1, NextTypeOK DEF LanesInv
<1>2. \A f \in [Tg -> [Client -> Optional(Member)]] : Without(f, {}) = f
    BY DEF Without
<1>3. \A f \in [Tg -> [Client -> Optional(Quality)]] : Without(f, {}) = f
    BY DEF Without
<1>4. ASSUME NEW t \in Tg, NEW c \in Unit \cap Subscriber, NEW q \in Quality,
             SetMember(t, c, TRUE, q), Hears({t}, c, q)
      PROVE  NothingToldIsLost' /\ OneLaneBehind'
  <2>1. SetMembers({t}, c, TRUE, q, Without(members, {}), Without(deferred, {}))
    BY <1>2, <1>3, <1>4 DEF SetMember, LanesInv, TypeOK
  <2>2. c \in Client /\ {t} \in SUBSET Tg /\ {} \in SUBSET {c} /\ TRUE \in BOOLEAN
    BY DEF Client
  <2> QED BY <1>4, <2>1, <2>2, ReportPreserves
<1>5. ASSUME NEW c \in Console \cap Subscriber, NEW S \in SUBSET Tg,
             ConsoleUpdate(c, S), Hears(S, c, 100)
      PROVE  NothingToldIsLost' /\ OneLaneBehind'
  <2>1. c \in Client /\ 100 \in Quality /\ {c} \in SUBSET {c} /\ TRUE \in BOOLEAN
    BY RouterAssumption DEF Client
  <2>2. SetMembers(S, c, TRUE, 100, Without(members, {c}), Without(deferred, {c}))
    BY <1>5 DEF ConsoleUpdate
  <2> QED BY <1>5, <2>1, <2>2, ReportPreserves
<1>6. ASSUME Other \/ Teardown, Unheard PROVE NothingToldIsLost' /\ OneLaneBehind'
  <2>1. KeepsWhatIsKnown
    BY <1>6, OtherKeeps DEF LanesInv
  <2>2. ASSUME NEW t \in Tg, NEW d \in Client, members'[t][d] # None
        PROVE  Known(t, d)' = told'[t][d] /\ Beside(members'[t][d].quality, told'[t][d])
    <3>1. told'[t][d] = told[t][d]
      BY <1>6, <2>2 DEF Unheard, Hears
    <3>2. /\ members[t][d] # None /\ Known(t, d)' = Known(t, d)
          /\ members'[t][d].quality \in {members[t][d].quality, Known(t, d)}
      BY <2>1, <2>2 DEF KeepsWhatIsKnown
    <3>3. Known(t, d) = told[t][d] /\ Beside(members[t][d].quality, told[t][d])
      BY <3>2, OneLaneBehindIsBeside DEF LanesInv, NothingToldIsLost
    <3> QED BY <3>1, <3>2, <3>3 DEF Beside
  <2> QED BY <2>2 DEF NothingToldIsLost, OneLaneBehind, Beside
<1>7. CASE UNCHANGED lanevars
    BY <1>1, <1>7 DEF LanesInv, NothingToldIsLost, OneLaneBehind, Known, lanevars, vars, roster
<1> QED
    BY <1>1, <1>4, <1>5, <1>6, <1>7 DEF LanesInv, LanesNext, Reported

LEMMA LanesInductive ==
    LanesSpec => []LanesInv
<1>1. LanesInit => LanesInv
    BY InitTypeOK DEF LanesInit, Init, LanesInv, NothingToldIsLost, OneLaneBehind
<1>2. LanesInv /\ [LanesNext]_lanevars => LanesInv'
    BY LanesPreserved
<1> QED
    BY <1>1, <1>2, PTL DEF LanesSpec

\* No report of a link is lost or overruled by an older one: what was last told
\* of a member is in force, or parked for the end of the call (Router::set_member
\* and Router::drain_deferred).
THEOREM NoReportIsLost ==
    LanesSpec => []NothingToldIsLost
<1>1. LanesInv => NothingToldIsLost
    BY DEF LanesInv
<1> QED
    BY <1>1, LanesInductive, PTL

\* A listener is rendered at most one lane beside what was last told of their
\* link, and silent exactly if that says so (Router::jitters_one_lane), however
\* long the link wanders and however many calls end meanwhile.
THEOREM DeadbandCostsOneLane ==
    LanesSpec => []OneLaneBehind
<1>1. LanesInv => OneLaneBehind
    BY DEF LanesInv
<1> QED
    BY <1>1, LanesInductive, PTL

-------------------------------------------------------------------------------
\* A release drains routes of channels that it leaves clear, and no other.
LEMMA DrainedAreClear ==
    ASSUME TypeOK, NEW t \in Tg, NEW c \in Client, UnkeyAs(t, c),
           NEW u \in Drained(t, c, keyed', also')
    PROVE  u \in Tg /\ IsClear(u)'
<1>1. PICK v \in Mine(t, c) : ClearGiven(keyed', also', v) /\ u \in Joined(v)
    BY DEF Drained
<1>2. v \in Tg
    BY JoinedRoutes DEF Mine, TypeOK
<1>3. u \in Tg /\ Joined(u) = Joined(v)
    BY <1>1, <1>2, JoinedAlike DEF TypeOK
<1>4. \A w \in Tg : Joined(w)' = Joined(w)
    BY DEF UnkeyAs, Joined
<1> QED BY <1>1, <1>3, <1>4 DEF ClearGiven, IsClear

\* It drains every channel that it makes clear.
LEMMA ClearedAreDrained ==
    ASSUME TypeOK, NEW t \in Tg, NEW c \in Client, UnkeyAs(t, c),
           NEW u \in Tg, ~IsClear(u), IsClear(u)'
    PROVE  u \in Drained(t, c, keyed', also')
<1>1. PICK v \in Joined(u) : keyed[v] # None \/ also[v] # {}
    BY DEF IsClear, ClearGiven
<1>2. v \in Tg /\ Joined(v) = Joined(u) /\ u \in Joined(v)
    BY JoinedAlike, JoinedRoutes DEF TypeOK
<1>3. \A w \in Tg : Joined(w)' = Joined(w)
    BY DEF UnkeyAs, Joined
<1>4. \A w \in Joined(u) : keyed'[w] = None /\ also'[w] = {}
    BY <1>3 DEF IsClear, ClearGiven
<1>5. v \in Mine(t, c)
    BY <1>1, <1>2, <1>4 DEF UnkeyAs, GiveUp, TypeOK
<1>6. ClearGiven(keyed', also', v)
    BY <1>2, <1>4 DEF ClearGiven
<1> QED BY <1>2, <1>5, <1>6 DEF Drained

-------------------------------------------------------------------------------
\* A console listens at full quieting, and nothing is parked for it.
ConsolesAreFull ==
    \A t \in Tg, c \in Console :
        deferred[t][c] = None /\ (members[t][c] # None => members[t][c].quality = 100)

LEMMA FullPreserved ==
    ASSUME TypeOK, ConsolesAreFull, [Next]_vars
    PROVE  ConsolesAreFull'
<1> USE DEF ConsolesAreFull
<1>1. CASE UNCHANGED <<members, deferred>>
    BY <1>1
<1>2. ASSUME NEW ACTION S, DrainDeferred(S) PROVE ConsolesAreFull'
    BY <1>2 DEF DrainDeferred, Client
<1>3. ASSUME NEW STATE C, members' = Without(members, C),
             deferred' \in {deferred, Without(deferred, C)}
      PROVE  ConsolesAreFull'
    BY <1>3 DEF Without, Client
<1>4. ASSUME NEW t \in Tg, NEW u \in Unit, NEW l \in BOOLEAN, NEW q \in Quality,
             SetMember(t, u, l, q)
      PROVE  ConsolesAreFull'
  <2>1. \A r \in Tg, c \in Console : members'[r][c] = members[r][c] /\ deferred'[r][c] = deferred[r][c]
    <3>1. \A c \in Console : c \in Client /\ c # u
      BY RouterAssumption DEF Client
    <3>2. \A r \in Tg : DOMAIN members[r] = Client /\ DOMAIN deferred[r] = Client
      BY DEF TypeOK
    <3>3. \A r \in Tg : /\ \E x : members'[r] \in {members[r], [members[r] EXCEPT ![u] = x]}
                        /\ \E y : deferred'[r] \in {deferred[r], [deferred[r] EXCEPT ![u] = y]}
      BY <1>4 DEF SetMember, SetMembers
    <3> QED BY <3>1, <3>2, <3>3
  <2> QED BY <2>1
<1>5. ASSUME NEW d \in Console, NEW S \in SUBSET Tg, ConsoleUpdate(d, S)
      PROVE  ConsolesAreFull'
  <2> DEFINE was    == Without(members, {d})
             parked == Without(deferred, {d})
  <2>1. \A t \in Tg, c \in Console :
           /\ was[t][c] = (IF c = d THEN None ELSE members[t][c])
           /\ parked[t][c] = (IF c = d THEN None ELSE deferred[t][c])
    BY DEF Without, Client
  <2>2. /\ was \in [Tg -> [Client -> Optional(Member)]]
        /\ parked \in [Tg -> [Client -> Optional(Quality)]]
    BY WithoutType DEF TypeOK
  <2>3. SetMembers(S, d, TRUE, 100, was, parked)
    BY <1>5 DEF ConsoleUpdate
  <2> HIDE DEF was, parked
  <2>4. ASSUME NEW t \in Tg, NEW c \in Console
        PROVE  \/ members'[t][c] = was[t][c] /\ deferred'[t][c] = parked[t][c]
               \/ members'[t][c].quality = 100 /\ deferred'[t][c] = None
    BY <2>1, <2>2, <2>3 DEF SetMembers, Parked, Client
  <2> QED BY <2>1, <2>4
<1>6. ASSUME NEW t \in Tg, NEW c \in Client, Key(t, c) \/ KeyBusy(t, c) PROVE ConsolesAreFull'
    BY <1>1, <1>6 DEF Key, KeyBusy, roster
<1>7. ASSUME NEW t \in Tg, NEW c \in Client, UnkeyAs(t, c) PROVE ConsolesAreFull'
    BY <1>2, <1>7 DEF UnkeyAs
<1>8. ASSUME NEW t \in Tg, Unkey(t) PROVE ConsolesAreFull'
    BY <1>2, <1>8 DEF Unkey
<1>9. ASSUME NEW t \in Tg, Close(t) PROVE ConsolesAreFull'
    BY <1>9 DEF Close, TypeOK, Client
<1>10. CASE Plan /\ ~\E t \in Tg : Close(t)
    BY <1>1, <1>10 DEF Plan, Open, OpenConventional, SetPatches, roster
<1>11. CASE Arrive \/ Clock \/ UNCHANGED vars
    BY <1>1, <1>11 DEF Arrive, Clock, Bind, WindowElapses, vars, roster
<1>12. ASSUME NEW s \in Session, Unbind(s) PROVE ConsolesAreFull'
    BY <1>3, <1>12 DEF Unbind
<1>13. ASSUME NEW server \in Server, DropServer(server) PROVE ConsolesAreFull'
    BY <1>3, <1>13 DEF DropServer
<1>14. ASSUME NEW c \in Console, ForgetClient(c) PROVE ConsolesAreFull'
    BY <1>3, <1>14 DEF ForgetClient
<1> QED
    BY <1>4, <1>5, <1>6, <1>7, <1>8, <1>9, <1>10, <1>11, <1>12, <1>13, <1>14
       DEF Next, Talk, Press, Refuse, Release, Teardown, Subscribe, Plan, Leave

\* What LaneHoldsMidCall asks of a step.
HeldMidCall ==
    \A t \in Tg, c \in Client :
        ~IsClear(t) /\ ~IsClear(t)' /\ members[t][c] # None /\ members'[t][c] # None
        => ~JittersOneLane(members[t][c].quality, members'[t][c].quality)

LEMMA StayingIsNoJitter ==
    ASSUME NEW q \in Quality
    PROVE  ~JittersOneLane(q, q)
<1>1. q \in Int
    BY RouterAssumption
<1>2. LaneOf(q) \in Int
    BY <1>1 DEF LaneOf, LANE_STEP, DECODE_FLOOR
<1> QED BY <1>2 DEF JittersOneLane, LANE_STEP

LEMMA HeldStep ==
    ASSUME TypeOK, ConsolesAreFull, [Next]_vars
    PROVE  HeldMidCall
<1> DEFINE stays(t, c) == members'[t][c] = members[t][c]
<1>1. \A t \in Tg, c \in Client :
         members[t][c] # None => members[t][c].quality \in Quality
    BY DEF TypeOK, Optional, Member
<1>2. ASSUME \A t \in Tg, c \in Client :
                 members'[t][c] # None => stays(t, c) \/ IsClear(t)'
      PROVE  HeldMidCall
    BY <1>1, <1>2, StayingIsNoJitter DEF HeldMidCall
<1>3. ASSUME NEW t \in Tg, NEW u \in Unit, NEW l \in BOOLEAN, NEW q \in Quality,
             SetMember(t, u, l, q)
      PROVE  HeldMidCall
  <2> SUFFICES ASSUME NEW r \in Tg, NEW c \in Client, ~IsClear(r),
                      members[r][c] # None, members'[r][c] # None
               PROVE  ~JittersOneLane(members[r][c].quality, members'[r][c].quality)
    BY DEF HeldMidCall
  <2> DEFINE held == JittersOneLane(members[t][u].quality, q)
  <2>1. CASE r = t /\ c = u
    <3>1. members'[r][c].quality = IF held THEN members[t][u].quality ELSE q
      BY <1>3, <2>1 DEF SetMember, SetMembers, TypeOK
    <3> HIDE DEF held
    <3>2. CASE held
      BY <1>1, <2>1, <3>1, <3>2, StayingIsNoJitter
    <3>3. CASE ~held
      BY <2>1, <3>1, <3>3 DEF held
    <3> QED BY <3>2, <3>3
  <2>2. CASE ~(r = t /\ c = u)
    <3>1. members'[r][c] = members[r][c]
      BY <1>3, <2>2 DEF SetMember, SetMembers, TypeOK
    <3> QED BY <1>1, <3>1, StayingIsNoJitter
  <2> QED BY <2>1, <2>2
<1>4. ASSUME NEW d \in Console, NEW S \in SUBSET Tg, ConsoleUpdate(d, S)
      PROVE  HeldMidCall
  <2> SUFFICES ASSUME NEW r \in Tg, NEW c \in Client,
                      members[r][c] # None, members'[r][c] # None
               PROVE  ~JittersOneLane(members[r][c].quality, members'[r][c].quality)
    BY DEF HeldMidCall
  <2> DEFINE was == Without(members, {d})
  <2>1. was[r][c] = IF c = d THEN None ELSE members[r][c]
    BY DEF Without
  <2>2. was \in [Tg -> [Client -> Optional(Member)]]
    BY WithoutType DEF TypeOK
  <2>3. SetMembers(S, d, TRUE, 100, was, Without(deferred, {d}))
    BY <1>4 DEF ConsoleUpdate
  <2> HIDE DEF was
  <2>4. CASE c = d
    <3>1. members'[r][c].quality = 100
      BY <2>1, <2>2, <2>3, <2>4 DEF SetMembers
    <3>2. members[r][c].quality = 100
      BY <2>4 DEF ConsolesAreFull
    <3> QED BY <1>1, <3>1, <3>2, StayingIsNoJitter
  <2>5. CASE c # d
    <3>1. members'[r][c] = members[r][c]
      BY <2>1, <2>2, <2>3, <2>5 DEF SetMembers
    <3> QED BY <1>1, <3>1, StayingIsNoJitter
  <2> QED BY <2>4, <2>5
<1>5. CASE members' = members
    BY <1>2, <1>5
<1>6. ASSUME NEW t \in Tg, NEW c \in Client, UnkeyAs(t, c) PROVE HeldMidCall
  <2>1. \A u \in Tg, d \in Client :
           u \notin Drained(t, c, keyed', also') => members'[u][d] = members[u][d]
    BY <1>6 DEF UnkeyAs, DrainDeferred
  <2> QED BY <1>2, <1>6, <2>1, DrainedAreClear
<1>7. ASSUME NEW t \in Tg, Unkey(t) PROVE HeldMidCall
  <2>1. \A u \in Tg, d \in Client :
           members'[u][d] = members[u][d] \/ (u \in Joined(t) /\ ClearGiven(keyed', also', t))
    BY <1>7 DEF Unkey, DrainDeferred
  <2>2. \A w \in Tg : Joined(w)' = Joined(w)
    BY <1>7 DEF Unkey, Joined
  <2>3. ASSUME NEW u \in Joined(t), ClearGiven(keyed', also', t) PROVE IsClear(u)'
    <3>1. u \in Tg /\ Joined(u) = Joined(t)
      BY JoinedAlike DEF TypeOK
    <3> QED BY <2>2, <2>3, <3>1 DEF ClearGiven, IsClear
  <2> QED BY <1>2, <2>1, <2>3
<1>8. ASSUME NEW t \in Tg, Close(t) PROVE HeldMidCall
    BY <1>2, <1>8 DEF Close, TypeOK
<1>9. CASE Plan /\ ~\E t \in Tg : Close(t)
    BY <1>5, <1>9 DEF Plan, Open, OpenConventional, SetPatches, roster
<1>10. CASE Press \/ Refuse \/ Arrive \/ Clock \/ UNCHANGED vars
    BY <1>5, <1>10 DEF Press, Refuse, Arrive, Clock, Key, KeyBusy, Bind, WindowElapses, vars, roster
<1>11. ASSUME NEW STATE C, members' = Without(members, C) PROVE HeldMidCall
    BY <1>2, <1>11 DEF Without
<1>12. CASE Leave
    BY <1>11, <1>12 DEF Leave, Unbind, DropServer, ForgetClient
<1> QED
    BY <1>3, <1>4, <1>6, <1>7, <1>8, <1>9, <1>10, <1>12
       DEF Next, Talk, Release, Teardown, Subscribe, Plan

\* While a channel stays busy nobody who listens on it is moved to the lane next
\* to theirs, whoever else presses, lets go, is reported or leaves, and however
\* the patches change (Route::deferred, applied only by drain_deferred).
THEOREM NobodyIsMovedMidCall ==
    Spec => LaneHoldsMidCall
<1> DEFINE inv == TypeOK /\ ConsolesAreFull
<1>1. Init => inv
    BY InitTypeOK DEF Init, ConsolesAreFull, Client
<1>2. inv /\ [Next]_vars => inv'
    BY NextTypeOK, FullPreserved
<1>3. inv /\ [Next]_vars => [HeldMidCall]_vars
    BY HeldStep
<1> QED BY <1>1, <1>2, <1>3, PTL DEF Spec, LaneHoldsMidCall, HeldMidCall

-------------------------------------------------------------------------------
\* An unkey that names nobody drains every channel that it makes clear.
LEMMA UnkeyDrains ==
    ASSUME TypeOK, NEW t \in Tg, Unkey(t), NEW u \in Tg, ~IsClear(u), IsClear(u)'
    PROVE  u \in Joined(t) /\ ClearGiven(keyed', also', t)
<1>1. PICK v \in Joined(u) : keyed[v] # None \/ also[v] # {}
    BY DEF IsClear, ClearGiven
<1>2. v \in Tg /\ Joined(v) = Joined(u) /\ u \in Joined(v)
    BY JoinedAlike, JoinedRoutes DEF TypeOK
<1>3. \A w \in Tg : Joined(w)' = Joined(w)
    BY DEF Unkey, Joined
<1>4. \A w \in Joined(u) : keyed'[w] = None /\ also'[w] = {}
    BY <1>3 DEF IsClear, ClearGiven
<1>5. v = t
    BY <1>1, <1>2, <1>4 DEF Unkey, GiveUp, TypeOK
<1> QED BY <1>2, <1>4, <1>5 DEF ClearGiven

\* What ReleaseCatchesUp asks of a step.
CaughtUp ==
    \A t \in Tg, c \in Client :
        /\ ~IsClear(t) /\ IsClear(t)'
        /\ members'[t][c] # None /\ members'[t][c].quality # told'[t][c]
        => ~(Release \/ Teardown)

LEMMA CatchUpStep ==
    ASSUME LanesInv, LanesNext
    PROVE  CaughtUp
<1> SUFFICES ASSUME NEW u \in Tg, NEW d \in Client, ~IsClear(u), IsClear(u)',
                    members'[u][d] # None, Release \/ Teardown
             PROVE  members'[u][d].quality = told'[u][d]
    BY DEF CaughtUp
<1>1. ~Reported
  <2>1. Reported => UNCHANGED <<keyed, also, patches>>
    BY DEF Reported, SetMember, ConsoleUpdate, keying
  <2> QED BY <2>1 DEF IsClear, ClearGiven, Joined
<1>2. told'[u][d] = told[u][d]
    BY <1>1 DEF LanesNext, Unheard, Hears
<1>3. members'[u][d] = IF members[u][d] # None /\ deferred[u][d] # None
                       THEN [members[u][d] EXCEPT !.quality = deferred[u][d]]
                       ELSE members[u][d]
  <2>1. ASSUME NEW t \in Tg, NEW c \in Client, UnkeyAs(t, c)
        PROVE  members'[u][d] = IF members[u][d] # None /\ deferred[u][d] # None
                                THEN [members[u][d] EXCEPT !.quality = deferred[u][d]]
                                ELSE members[u][d]
    <3>1. u \in Drained(t, c, keyed', also')
      BY <2>1, ClearedAreDrained DEF LanesInv
    <3> QED BY <2>1, <3>1 DEF UnkeyAs, DrainDeferred
  <2>2. ASSUME NEW t \in Tg, Unkey(t)
        PROVE  members'[u][d] = IF members[u][d] # None /\ deferred[u][d] # None
                                THEN [members[u][d] EXCEPT !.quality = deferred[u][d]]
                                ELSE members[u][d]
    <3>1. u \in Joined(t) /\ ClearGiven(keyed', also', t)
      BY <2>2, UnkeyDrains DEF LanesInv
    <3> QED BY <2>2, <3>1 DEF Unkey, DrainDeferred
  <2> QED BY <2>1, <2>2 DEF Release, Teardown
<1>4. members[u][d] # None /\ members[u][d] \in Member
    BY <1>3 DEF LanesInv, TypeOK, Optional
<1>5. Known(u, d) = told[u][d]
    BY <1>4 DEF LanesInv, NothingToldIsLost
<1>6. members'[u][d].quality = Known(u, d)
    BY <1>3, <1>4 DEF Known, Member
<1> QED BY <1>2, <1>5, <1>6

\* A release that makes a channel clear leaves every listener of every route of
\* it at exactly what was last told ("the next transmission starts on exactly
\* lane_of of the last quality the node was told", the comment on drain_deferred).
THEOREM ReleaseIsExact ==
    LanesSpec => ReleaseCatchesUp
<1>1. LanesInv /\ [LanesNext]_lanevars => [CaughtUp]_lanevars
    BY CatchUpStep
<1> QED
    BY <1>1, LanesInductive, PTL DEF LanesSpec, ReleaseCatchesUp, CaughtUp
===============================================================================
