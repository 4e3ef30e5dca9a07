----------------------------- MODULE RouterProofs -----------------------------
(***************************************************************************)
(* Theorems about the router, for every set of routes, clients, patch      *)
(* tables and qualities.                                                   *)
(***************************************************************************)
EXTENDS RouterSteady, FiniteSetTheorems, TLAPS

(* A channel is a set of routes that contains the route it is asked about. *)
LEMMA JoinedRoutes ==
    ASSUME patches \in PatchTables, NEW t \in Tg
    PROVE  Joined(t) \subseteq Tg /\ t \in Joined(t)
  BY DEF Joined, JoinedIn

(* Being joined is mutual, and what is joined is joined to the same routes: *)
(* a channel is the same whichever of its routes is asked.                  *)
LEMMA JoinedAlike ==
    ASSUME patches \in PatchTables, NEW v \in Tg, NEW u \in Joined(v)
    PROVE  u \in Tg /\ Joined(u) = Joined(v)
<1>1. \A t \in Tg : Joined(t) =
         {w \in Tg : \A S \in SUBSET Tg : t \in S /\ ClosedUnder(patches, S) => w \in S}
    BY DEF Joined, JoinedIn
<1>2. u \in Tg
    BY <1>1
<1>3. v \in Joined(u)
  <2> SUFFICES ASSUME NEW S \in SUBSET Tg, u \in S, ClosedUnder(patches, S), v \notin S
               PROVE  FALSE
    BY <1>1, <1>2
  <2> DEFINE rest == Tg \ S
  <2>1. ClosedUnder(patches, rest)
    BY RouterAssumption DEF ClosedUnder
  <2>2. v \in rest /\ u \notin rest /\ rest \in SUBSET Tg
    OBVIOUS
  <2> HIDE DEF rest
  <2> QED BY <1>1, <2>1, <2>2
<1>4. Joined(u) \subseteq Joined(v) /\ Joined(v) \subseteq Joined(u)
    BY <1>1, <1>2, <1>3
<1> QED BY <1>2, <1>4

(* Only a console can be told to insist, or take a route from a unit, and  *)
(* only on a talkgroup a unit holds.                                       *)
LEMMA VerdictOfConsole ==
    ASSUME NEW t \in Tg, NEW c \in Client, NEW STATE holder, NEW STATE armed,
           kind[t] \in Kind \cup {"closed"},
           Verdict(t, c, holder, armed) \in {"Busy", "Preempted"}
    PROVE  /\ IsConsole(c) /\ ~IsConsole(holder)
           /\ kind[t] = "P25" /\ holder \notin {c, None}
  BY DEF Verdict, Contested, OnFrequency, Kind

(* A route is granted only when it is free or already the client's.        *)
LEMMA VerdictGranted ==
    ASSUME NEW t \in Tg, NEW c \in Client, NEW STATE holder, NEW STATE armed,
           kind[t] \in Kind \cup {"closed"},
           Verdict(t, c, holder, armed) = "Granted"
    PROVE  holder \in {c, None}
  BY DEF Verdict, Contested, OnFrequency, Kind

LEMMA ConsolesAreConsoles ==
    ASSUME NEW c \in Client
    PROVE  IsConsole(c) <=> c \in Console
  BY RouterAssumption DEF IsConsole

-------------------------------------------------------------------------------
(* Type correctness.                                                       *)

LEMMA InitTypeOK == ASSUME Init PROVE TypeOK
  BY RouterAssumption DEF Init, TypeOK, Optional, Client

LEMMA SetMembersType ==
    ASSUME TypeOK, NEW S \in SUBSET Tg, NEW c \in Client,
           NEW listen \in BOOLEAN, NEW quality \in Quality,
           NEW STATE was, was \in [Tg -> [Client -> Optional(Member)]],
           NEW STATE parked, parked \in [Tg -> [Client -> Optional(Quality)]],
           SetMembers(S, c, listen, quality, was, parked)
    PROVE  /\ kind' \in [Tg -> Kind \cup {"closed"}]
           /\ members' \in [Tg -> [Client -> Optional(Member)]]
           /\ deferred' \in [Tg -> [Client -> Optional(Quality)]]
<1> DEFINE held(t)   == /\ was[t][c] # None
                        /\ ~IsClear(t)
                        /\ JittersOneLane(was[t][c].quality, quality)
           served(t) == IF held(t) THEN was[t][c].quality ELSE quality
<1>1. kind' \in [Tg -> Kind \cup {"closed"}]
  BY RouterAssumption DEF SetMembers, TypeOK
<1>2. \A t \in Tg : served(t) \in Quality
  BY DEF Optional, Member
<1>3. \A t \in Tg : [listen |-> listen, quality |-> served(t)] \in Member
  BY <1>2 DEF Member
<1> HIDE DEF served
<1>4. members' = [t \in Tg |->
              IF t \in S
              THEN [was[t] EXCEPT ![c] = [listen |-> listen, quality |-> served(t)]]
              ELSE was[t]]
  BY DEF SetMembers, served
<1>5. members' \in [Tg -> [Client -> Optional(Member)]]
  BY <1>3, <1>4 DEF Optional
<1>6. deferred' = [t \in Tg |->
              IF t \in S
              THEN [parked[t] EXCEPT ![c] = Parked(held(t), quality, @)]
              ELSE parked[t]]
  BY DEF SetMembers
<1> HIDE DEF held
<1>7. deferred' \in [Tg -> [Client -> Optional(Quality)]]
  BY <1>6 DEF Optional, Parked
<1> QED BY <1>1, <1>5, <1>7

LEMMA WithoutType ==
    ASSUME NEW CONSTANT V, NEW STATE f, f \in [Tg -> [Client -> Optional(V)]], NEW STATE C
    PROVE  Without(f, C) \in [Tg -> [Client -> Optional(V)]]
  BY DEF Without, Optional

LEMMA DrainType ==
    ASSUME TypeOK, NEW ACTION S, DrainDeferred(S)
    PROVE  /\ members' \in [Tg -> [Client -> Optional(Member)]]
           /\ deferred' \in [Tg -> [Client -> Optional(Quality)]]
<1>1. ASSUME NEW t \in Tg, NEW c \in Client,
             members[t][c] # None, deferred[t][c] # None
      PROVE  [members[t][c] EXCEPT !.quality = deferred[t][c]] \in Member
  <2>1. members[t][c] \in Member
    BY <1>1 DEF TypeOK, Optional
  <2>2. deferred[t][c] \in Quality
    BY <1>1 DEF TypeOK, Optional
  <2> QED BY <2>1, <2>2 DEF Member
<1>2. members' \in [Tg -> [Client -> Optional(Member)]]
  BY <1>1 DEF DrainDeferred, TypeOK, Optional
<1>3. deferred' \in [Tg -> [Client -> Optional(Quality)]]
  BY DEF DrainDeferred, TypeOK, Optional
<1> QED BY <1>2, <1>3

LEMMA GiveUpType ==
    ASSUME TypeOK, NEW STATE C, NEW STATE S, GiveUp(C, S)
    PROVE  /\ keyed' \in [Tg -> Optional(Client)]
           /\ also' \in [Tg -> SUBSET Client]
<1>1. keyed' \in [Tg -> Optional(Client)]
  BY DEF GiveUp, TypeOK, Optional
<1>2. also' \in [Tg -> SUBSET Client]
  BY DEF GiveUp, TypeOK
<1> QED BY <1>1, <1>2

LEMMA ForgetPressesType ==
    ASSUME TypeOK, NEW STATE C, ForgetPresses(C)
    PROVE  /\ keyed_by' \in [Client -> Optional(Tg)]
           /\ took' \in [Client -> [Tg -> SUBSET Tg]]
<1>1. keyed_by' \in [Client -> Optional(Tg)]
  BY DEF ForgetPresses, TypeOK, Optional
<1>2. took' \in [Client -> [Tg -> SUBSET Tg]]
  BY DEF ForgetPresses, TypeOK
<1> QED BY <1>1, <1>2

LEMMA ConsoleUpdateType ==
    ASSUME TypeOK, NEW c \in Client, NEW S \in SUBSET Tg, ConsoleUpdate(c, S)
    PROVE  TypeOK'
<1>1. /\ kind' \in [Tg -> Kind \cup {"closed"}]
      /\ members' \in [Tg -> [Client -> Optional(Member)]]
      /\ deferred' \in [Tg -> [Client -> Optional(Quality)]]
  <2>1. /\ Without(members, {c}) \in [Tg -> [Client -> Optional(Member)]]
        /\ Without(deferred, {c}) \in [Tg -> [Client -> Optional(Quality)]]
    BY WithoutType DEF TypeOK
  <2>2. SetMembers(S, c, TRUE, 100, Without(members, {c}), Without(deferred, {c}))
    BY DEF ConsoleUpdate
  <2>3. 100 \in Quality
    BY RouterAssumption
  <2> QED BY <2>1, <2>2, <2>3, SetMembersType
<1> QED BY <1>1 DEF ConsoleUpdate, TypeOK, keying, identity

(* What the code's types say of every table is preserved by every step.    *)
LEMMA NextTypeOK == ASSUME TypeOK, [Next]_vars PROVE TypeOK'
<1> USE DEF Optional
<1>1. ASSUME NEW t \in Tg, NEW c \in Client, Key(t, c) PROVE TypeOK'
  <2> DEFINE group      == Joined(t)
             preempts   == Outcome(t, c) = "Preempted"
             armed(u)   == <<u, c>> \in pending /\ ~(preempts /\ u # t)
             verdict(u) == IF u = t THEN Outcome(t, c)
                           ELSE Verdict(u, c, Inherited(u, t, c), armed(u))
             left(u)    == IF preempts /\ u # t THEN also[u] \ {keyed[t]} ELSE also[u]
             routes(V)  == {u \in group : verdict(u) \in V}
             spent      == {u \in group : preempts \/ verdict(u) = "Preempted"}
  <2>1. group \subseteq Tg
    BY JoinedRoutes DEF TypeOK
  <2>2. /\ keyed' = [u \in Tg |->
              IF u \in routes({"Granted", "Preempted"}) THEN c ELSE keyed[u]]
        /\ also' = [u \in Tg |->
              IF u \in group
              THEN left(u) \cup (IF verdict(u) = "Mixed" THEN {c} ELSE {})
              ELSE also[u]]
        /\ pending' = (pending \ (spent \X {c})) \cup (routes({"Busy"}) \X {c})
        /\ took' = [took EXCEPT ![c][t] = group]
        /\ keyed_by' = [keyed_by EXCEPT ![c] = t]
        /\ UNCHANGED <<kind, roster, patches, identity>>
    BY <1>1 DEF Key
  <2>3. \A u \in group : verdict(u) = "Busy" => c \in Console
    <3> SUFFICES ASSUME NEW u \in group, verdict(u) = "Busy" PROVE IsConsole(c)
      BY ConsolesAreConsoles
    <3>1. kind[u] \in Kind \cup {"closed"}
      BY <2>1 DEF TypeOK
    <3>2. CASE u = t
      <4>1. Verdict(t, c, keyed[t], <<t, c>> \in pending) = "Busy"
        BY <3>2 DEF Outcome
      <4> QED BY <4>1, <3>1, <3>2, VerdictOfConsole
    <3>3. CASE u # t
      <4>1. Verdict(u, c, Inherited(u, t, c), armed(u)) = "Busy"
        BY <3>3
      <4> HIDE DEF verdict
      <4> QED BY <4>1, <3>1, <2>1, VerdictOfConsole
    <3> QED BY <3>2, <3>3
  <2>4. \A u \in Tg : left(u) \subseteq Client
    BY DEF TypeOK
  <2> HIDE DEF group, preempts, verdict, left, spent
  <2>5. keyed' \in [Tg -> Optional(Client)]
    BY <2>2 DEF TypeOK
  <2>6. also' \in [Tg -> SUBSET Client]
    BY <2>2, <2>4 DEF TypeOK
  <2>7. pending' \subseteq Tg \X Console
    BY <2>1, <2>2, <2>3 DEF TypeOK
  <2>8. took' \in [Client -> [Tg -> SUBSET Tg]]
    BY <2>1, <2>2 DEF TypeOK
  <2>9. keyed_by' \in [Client -> Optional(Tg)]
    BY <2>2 DEF TypeOK
  <2> QED BY <2>2, <2>5, <2>6, <2>7, <2>8, <2>9 DEF TypeOK, roster, identity
<1>2. ASSUME NEW t \in Tg, NEW c \in Client, KeyBusy(t, c) PROVE TypeOK'
  <2>1. Verdict(t, c, keyed[t], <<t, c>> \in pending) = "Busy"
    BY <1>2 DEF KeyBusy, Outcome
  <2>2. c \in Console
    BY <2>1, VerdictOfConsole, ConsolesAreConsoles DEF TypeOK
  <2> QED BY <1>2, <2>2 DEF KeyBusy, TypeOK, keying, roster, identity
<1>3. ASSUME NEW t \in Tg, NEW c \in Client, UnkeyAs(t, c) PROVE TypeOK'
  <2>1. keyed' \in [Tg -> Optional(Client)] /\ also' \in [Tg -> SUBSET Client]
    BY <1>3, GiveUpType DEF UnkeyAs
  <2>2. /\ members' \in [Tg -> [Client -> Optional(Member)]]
        /\ deferred' \in [Tg -> [Client -> Optional(Quality)]]
    BY <1>3, DrainType DEF UnkeyAs
  <2> QED BY <1>3, <2>1, <2>2 DEF UnkeyAs, TypeOK, identity
<1>4. ASSUME NEW t \in Tg, Unkey(t) PROVE TypeOK'
  <2>1. keyed' \in [Tg -> Optional(Client)] /\ also' \in [Tg -> SUBSET Client]
    BY <1>4, GiveUpType DEF Unkey
  <2>2. /\ members' \in [Tg -> [Client -> Optional(Member)]]
        /\ deferred' \in [Tg -> [Client -> Optional(Quality)]]
    BY <1>4, DrainType DEF Unkey
  <2> QED BY <1>4, <2>1, <2>2 DEF Unkey, TypeOK, identity
<1>5. ASSUME NEW t \in Tg, NEW c \in Client, NEW l \in BOOLEAN, NEW q \in Quality,
             SetMember(t, c, l, q)
      PROVE  TypeOK'
  <2>1. /\ kind' \in [Tg -> Kind \cup {"closed"}]
        /\ members' \in [Tg -> [Client -> Optional(Member)]]
        /\ deferred' \in [Tg -> [Client -> Optional(Quality)]]
    <3>1. /\ members \in [Tg -> [Client -> Optional(Member)]]
          /\ deferred \in [Tg -> [Client -> Optional(Quality)]]
      BY DEF TypeOK
    <3>2. SetMembers({t}, c, l, q, members, deferred)
      BY <1>5 DEF SetMember
    <3>3. {t} \in SUBSET Tg
      OBVIOUS
    <3> HIDE DEF Optional
    <3> QED BY <3>1, <3>2, <3>3, SetMembersType
  <2> QED BY <1>5, <2>1 DEF SetMember, TypeOK, keying, identity
<1>6. ASSUME NEW c \in Client, NEW S \in SUBSET Tg, ConsoleUpdate(c, S) PROVE TypeOK'
  BY <1>6, ConsoleUpdateType
<1>7. ASSUME NEW t \in Tg, Open(t) PROVE TypeOK'
  BY <1>7 DEF Open, TypeOK, Kind, keying, roster, identity
<1>8. ASSUME NEW t \in Tg, NEW am \in BOOLEAN, OpenConventional(t, am) PROVE TypeOK'
  BY <1>8 DEF OpenConventional, TypeOK, Kind, keying, roster, identity
<1>9. ASSUME NEW t \in Tg, Close(t) PROVE TypeOK'
  <2>1. /\ kind' \in [Tg -> Kind \cup {"closed"}]
        /\ keyed' \in [Tg -> Optional(Client)]
        /\ also' \in [Tg -> SUBSET Client]
    BY <1>9 DEF Close, TypeOK
  <2>2. /\ members' \in [Tg -> [Client -> Optional(Member)]]
        /\ deferred' \in [Tg -> [Client -> Optional(Quality)]]
    BY <1>9 DEF Close, TypeOK
  <2> QED BY <1>9, <2>1, <2>2 DEF Close, TypeOK, identity
<1>10. ASSUME NEW table \in PatchTables, SetPatches(table) PROVE TypeOK'
  BY <1>10 DEF SetPatches, TypeOK, keying, roster, identity
<1>11. ASSUME NEW s \in Session, NEW c \in Unit, Bind(s, c) PROVE TypeOK'
  BY <1>11 DEF Bind, TypeOK, Client, keying, roster
<1>12. ASSUME NEW s \in Session, Unbind(s) PROVE TypeOK'
  <2> DEFINE c == sessionClient[s]
  <2>1. /\ sessionClient' = [sessionClient EXCEPT ![s] = None]
        /\ clientSession' = [clientSession EXCEPT ![c] = None]
        /\ members' = Without(members, {c})
        /\ GiveUp({c}, Tg)
        /\ ForgetPresses({c})
        /\ UNCHANGED <<kind, deferred, patches, pending>>
    BY <1>12 DEF Unbind
  <2> HIDE DEF c
  <2>2. members' \in [Tg -> [Client -> Optional(Member)]]
    BY <2>1, WithoutType DEF TypeOK
  <2>3. keyed' \in [Tg -> Optional(Client)] /\ also' \in [Tg -> SUBSET Client]
    BY <2>1, GiveUpType
  <2>4. /\ keyed_by' \in [Client -> Optional(Tg)]
        /\ took' \in [Client -> [Tg -> SUBSET Tg]]
    BY <2>1, ForgetPressesType
  <2> QED BY <2>1, <2>2, <2>3, <2>4 DEF TypeOK
<1>13. ASSUME NEW server \in Server, DropServer(server) PROVE TypeOK'
  <2> DEFINE gone == {c \in Client : ServerOf[c] = server}
  <2>1. /\ sessionClient' = [s \in Session |->
              IF SessionServer[s] = server THEN None ELSE sessionClient[s]]
        /\ clientSession' = [c \in Client |->
              IF c \in gone THEN None ELSE clientSession[c]]
        /\ members' = Without(members, gone)
        /\ GiveUp(gone, Tg)
        /\ ForgetPresses(gone)
        /\ UNCHANGED <<kind, deferred, patches, pending>>
    BY <1>13 DEF DropServer
  <2> HIDE DEF gone
  <2>2. members' \in [Tg -> [Client -> Optional(Member)]]
    BY <2>1, WithoutType DEF TypeOK
  <2>3. keyed' \in [Tg -> Optional(Client)] /\ also' \in [Tg -> SUBSET Client]
    BY <2>1, GiveUpType
  <2>4. /\ keyed_by' \in [Client -> Optional(Tg)]
        /\ took' \in [Client -> [Tg -> SUBSET Tg]]
    BY <2>1, ForgetPressesType
  <2> QED BY <2>1, <2>2, <2>3, <2>4 DEF TypeOK
<1>14. ASSUME NEW c \in Client, ForgetClient(c) PROVE TypeOK'
  <2>1. /\ members' \in [Tg -> [Client -> Optional(Member)]]
        /\ deferred' \in [Tg -> [Client -> Optional(Quality)]]
    BY <1>14, WithoutType DEF ForgetClient, TypeOK
  <2>2. keyed' \in [Tg -> Optional(Client)] /\ also' \in [Tg -> SUBSET Client]
    BY <1>14, GiveUpType DEF ForgetClient
  <2>3. /\ keyed_by' \in [Client -> Optional(Tg)]
        /\ took' \in [Client -> [Tg -> SUBSET Tg]]
    BY <1>14, ForgetPressesType DEF ForgetClient
  <2> QED BY <1>14, <2>1, <2>2, <2>3 DEF ForgetClient, TypeOK, identity
<1>15. ASSUME NEW t \in Tg, NEW c \in Console, WindowElapses(t, c) PROVE TypeOK'
  BY <1>15 DEF WindowElapses, TypeOK, keying, roster, identity
<1>16. ASSUME UNCHANGED vars PROVE TypeOK'
  BY <1>16 DEF vars, TypeOK, keying, roster, identity
<1> QED
  BY <1>1, <1>2, <1>3, <1>4, <1>5, <1>6, <1>7, <1>8, <1>9, <1>10, <1>11, <1>12,
     <1>13, <1>14, <1>15, <1>16
  DEF Next, Talk, Press, Refuse, Release, Teardown, Subscribe, Plan, Arrive, Leave,
      Clock, Client

(* Whatever is asked of the router, its tables keep their types; in        *)
(* particular only consoles are ever remembered as refused.                *)
THEOREM TypeCorrect == Spec => []TypeOK
<1>1. Init => TypeOK
  BY InitTypeOK
<1>2. TypeOK /\ [Next]_vars => TypeOK'
  BY NextTypeOK
<1> QED BY <1>1, <1>2, PTL DEF Spec

-------------------------------------------------------------------------------
(* Nobody is keyed for ever.                                               *)

LEMMA GiveUpKeepsOthers ==
    ASSUME TypeOK, NEW STATE C, NEW STATE S, GiveUp(C, S),
           NEW u \in Tg, NEW d \in Client, Holds(u, d)'
    PROVE  Holds(u, d) /\ ~(u \in S /\ d \in C)
<1>1. keyed' = [t \in Tg |-> IF t \in S /\ keyed[t] \in C THEN None ELSE keyed[t]]
  BY DEF GiveUp
<1>2. also' = [t \in Tg |-> IF t \in S THEN also[t] \ C ELSE also[t]]
  BY DEF GiveUp
<1>3. keyed'[u] = d \/ d \in also'[u]
  BY DEF Holds
<1>4. d # None
  BY RouterAssumption
<1> QED BY <1>1, <1>2, <1>3, <1>4 DEF Holds

LEMMA KeyTakesGroup ==
    ASSUME TypeOK, NEW t \in Tg, NEW c \in Client, Key(t, c),
           NEW u \in Tg, NEW d \in Client, Holds(u, d)'
    PROVE  Holds(u, d) \/ (d = c /\ u \in Joined(t))
<1> DEFINE group      == Joined(t)
           preempts   == Outcome(t, c) = "Preempted"
           armed(w)   == <<w, c>> \in pending /\ ~(preempts /\ w # t)
           verdict(w) == IF w = t THEN Outcome(t, c)
                         ELSE Verdict(w, c, Inherited(w, t, c), armed(w))
           left(w)    == IF preempts /\ w # t THEN also[w] \ {keyed[t]} ELSE also[w]
           routes(V)  == {w \in group : verdict(w) \in V}
<1>1. keyed' = [w \in Tg |->
            IF w \in routes({"Granted", "Preempted"}) THEN c ELSE keyed[w]]
  BY DEF Key
<1>2. also' = [w \in Tg |->
            IF w \in group
            THEN left(w) \cup (IF verdict(w) = "Mixed" THEN {c} ELSE {})
            ELSE also[w]]
  BY DEF Key
<1>3. left(u) \subseteq also[u]
  OBVIOUS
<1>4. keyed'[u] = d \/ d \in also'[u]
  BY DEF Holds
<1> HIDE DEF verdict, left, preempts
<1>5. CASE keyed'[u] = d
  BY <1>1, <1>5 DEF Holds
<1>6. CASE d \in also'[u]
  BY <1>2, <1>3, <1>6 DEF Holds
<1> QED BY <1>4, <1>5, <1>6

(* With no route pressed again before it is let go, every route a client   *)
(* holds stays covered by the record of one of its presses, through any    *)
(* patch made or torn down meanwhile.                                      *)
LEMMA HeldByPressStep ==
    ASSUME TypeOK, HeldByPress, [PressOnceNext]_vars PROVE HeldByPress'
<1> SUFFICES ASSUME NEW u \in Tg, NEW d \in Client, Holds(u, d)'
             PROVE  \E w \in Tg : u \in took'[d][w]
  BY DEF HeldByPress
<1>0. took \in [Client -> [Tg -> SUBSET Tg]]
  BY DEF TypeOK
<1>1. ASSUME NEW t \in Tg, NEW c \in Client, took[c][t] = {}, Key(t, c)
      PROVE  \E w \in Tg : u \in took'[d][w]
  <2>1. took' = [took EXCEPT ![c][t] = Joined(t)]
    BY <1>1 DEF Key
  <2>2. CASE Holds(u, d)
    <3>1. PICK w \in Tg : u \in took[d][w]
      BY <2>2 DEF HeldByPress
    <3>2. took'[d][w] = took[d][w]
      BY <1>0, <1>1, <2>1, <3>1
    <3> QED BY <3>1, <3>2
  <2>3. CASE d = c /\ u \in Joined(t)
    BY <1>0, <2>1, <2>3
  <2> QED BY <1>1, <2>2, <2>3, KeyTakesGroup
<1>2. ASSUME NEW t \in Tg, NEW c \in Client, UnkeyAs(t, c)
      PROVE  \E w \in Tg : u \in took'[d][w]
  <2>1. Holds(u, d) /\ ~(u \in Mine(t, c) /\ d = c)
    BY <1>2, GiveUpKeepsOthers DEF UnkeyAs
  <2>2. PICK w \in Tg : u \in took[d][w]
    BY <2>1 DEF HeldByPress
  <2>3. ~(d = c /\ w = t)
    BY <2>1, <2>2 DEF Mine
  <2>4. took' = [took EXCEPT ![c][t] = {}]
    BY <1>2 DEF UnkeyAs
  <2> QED BY <1>0, <2>2, <2>3, <2>4
<1>3. ASSUME NEW t \in Tg, Unkey(t)
      PROVE  \E w \in Tg : u \in took'[d][w]
  <2>1. Holds(u, d)
    BY <1>3, GiveUpKeepsOthers DEF Unkey
  <2> QED BY <1>3, <2>1 DEF Unkey, HeldByPress
<1>4. ASSUME NEW t \in Tg, Close(t)
      PROVE  \E w \in Tg : u \in took'[d][w]
  <2>1. Holds(u, d)
    BY <1>4, RouterAssumption DEF Close, Holds, TypeOK
  <2> QED BY <1>4, <2>1 DEF Close, HeldByPress
<1>5. ASSUME NEW STATE C, GiveUp(C, Tg), ForgetPresses(C)
      PROVE  \E w \in Tg : u \in took'[d][w]
  <2>1. Holds(u, d) /\ d \notin C
    BY <1>5, GiveUpKeepsOthers
  <2>2. took'[d] = took[d]
    BY <1>5, <2>1 DEF ForgetPresses
  <2> QED BY <2>1, <2>2 DEF HeldByPress
<1>6. ASSUME UNCHANGED <<keyed, also, took>>
      PROVE  \E w \in Tg : u \in took'[d][w]
  BY <1>6 DEF HeldByPress, Holds
<1>7. ASSUME Leave PROVE \E w \in Tg : u \in took'[d][w]
  <2>1. ASSUME NEW s \in Session, Unbind(s) PROVE \E w \in Tg : u \in took'[d][w]
    BY <1>5, <2>1 DEF Unbind
  <2>2. ASSUME NEW server \in Server, DropServer(server)
        PROVE  \E w \in Tg : u \in took'[d][w]
    BY <1>5, <2>2 DEF DropServer
  <2>3. ASSUME NEW c \in Console, ForgetClient(c) PROVE \E w \in Tg : u \in took'[d][w]
    BY <1>5, <2>3 DEF ForgetClient
  <2> QED BY <1>7, <2>1, <2>2, <2>3 DEF Leave
<1>8. Refuse \/ Subscribe \/ Arrive \/ Clock \/ UNCHANGED vars
      => UNCHANGED <<keyed, also, took>>
  BY DEF Refuse, KeyBusy, Subscribe, SetMember, ConsoleUpdate, Arrive, Bind, Clock,
         WindowElapses, vars, keying
<1>9. ASSUME Plan PROVE UNCHANGED <<keyed, also, took>> \/ \E t \in Tg : Close(t)
  BY <1>9 DEF Plan, Open, OpenConventional, SetPatches, keying
<1> QED
  BY <1>1, <1>2, <1>3, <1>4, <1>6, <1>7, <1>8, <1>9
  DEF PressOnceNext, Release, Teardown

LEMMA PressOnceIsNext == PressOnceNext => Next
  BY DEF PressOnceNext, Next, Talk, Press

(* Every route a client holds is given back by the release of a press that *)
(* is still on record, whatever patches come and go: Router::took does     *)
(* what its comment says, as long as no held route is pressed again.       *)
THEOREM NobodyKeyedForEver == PressOnceSpec => []HeldByPress
<1>1. Init => TypeOK /\ HeldByPress
  BY InitTypeOK, RouterAssumption DEF Init, HeldByPress, Holds
<1>2. TypeOK /\ HeldByPress /\ [PressOnceNext]_vars => (TypeOK /\ HeldByPress)'
  BY NextTypeOK, HeldByPressStep, PressOnceIsNext
<1> QED BY <1>1, <1>2, PTL DEF PressOnceSpec

-------------------------------------------------------------------------------
(* The floor of every route follows the grant protocol.                    *)

LEMMA GiveUpClears ==
    ASSUME NEW STATE C, NEW STATE S, GiveUp(C, S)
    PROVE  \E R \in SUBSET Tg : Grant!Clear(R)
<1> DEFINE R == {t \in Tg : t \in S /\ keyed[t] \in C}
<1>1. keyed' = [t \in Tg |-> IF t \in R THEN None ELSE keyed[t]]
  BY DEF GiveUp
<1> HIDE DEF R
<1>2. Grant!Clear(R)
  BY <1>1 DEF Grant!Clear
<1>3. R \in SUBSET Tg
  BY DEF R
<1> QED BY <1>2, <1>3

LEMMA KeyTakes ==
    ASSUME TypeOK, NEW t \in Tg, NEW c \in Client, Key(t, c)
    PROVE  \E R \in SUBSET Tg : Grant!Take(c, R)
<1> DEFINE group      == Joined(t)
           preempts   == Outcome(t, c) = "Preempted"
           armed(w)   == <<w, c>> \in pending /\ ~(preempts /\ w # t)
           verdict(w) == IF w = t THEN Outcome(t, c)
                         ELSE Verdict(w, c, Inherited(w, t, c), armed(w))
           routes(V)  == {w \in group : verdict(w) \in V}
           won        == routes({"Granted", "Preempted"})
           R          == {w \in won : keyed[w] # c}
<1>1. keyed' = [w \in Tg |-> IF w \in won THEN c ELSE keyed[w]]
  BY DEF Key
<1>2. won \subseteq Tg
  BY JoinedRoutes DEF TypeOK
<1>3. \A w \in Tg : keyed[w] = None \/ keyed[w] \in Client
  BY DEF TypeOK, Optional
<1>4. \A w \in Tg : kind[w] \in Kind \cup {"closed"}
  BY DEF TypeOK
<1>5. ASSUME Outcome(t, c) = "Preempted"
      PROVE  c \in Console /\ keyed[t] \in Client /\ keyed[t] \notin Console
  <2>1. Verdict(t, c, keyed[t], <<t, c>> \in pending) = "Preempted"
    BY <1>5 DEF Outcome
  <2>2. IsConsole(c) /\ ~IsConsole(keyed[t]) /\ keyed[t] # None
    BY <2>1, <1>4, VerdictOfConsole
  <2> QED BY <2>2, <1>3, ConsolesAreConsoles
<1>6. ASSUME NEW w \in R
      PROVE  keyed[w] = None \/ (c \in Console /\ keyed[w] \notin Console)
  <2>0. w \in Tg /\ keyed[w] # c
    BY <1>2
  <2>1. CASE w = t
    <3>1. Outcome(t, c) \in {"Granted", "Preempted"}
      BY <2>1
    <3>2. CASE Outcome(t, c) = "Granted"
      <4>1. Verdict(t, c, keyed[t], <<t, c>> \in pending) = "Granted"
        BY <3>2 DEF Outcome
      <4> QED BY <4>1, <1>4, <2>0, <2>1, VerdictGranted
    <3>3. CASE Outcome(t, c) = "Preempted"
      BY <3>3, <2>1, <1>5
    <3> QED BY <3>1, <3>2, <3>3
  <2>2. CASE w # t
    <3> DEFINE heir == Inherited(w, t, c)
    <3>1. Verdict(w, c, heir, armed(w)) \in {"Granted", "Preempted"}
      BY <2>2
    <3>2. heir = keyed[w] \/ (Outcome(t, c) = "Preempted" /\ keyed[w] = keyed[t])
      BY DEF Inherited
    <3>3. CASE Outcome(t, c) = "Preempted" /\ keyed[w] = keyed[t]
      BY <3>3, <1>5
    <3>4. CASE heir = keyed[w]
      <4> HIDE DEF heir, armed
      <4>1. CASE Verdict(w, c, heir, armed(w)) = "Granted"
        BY <4>1, <3>4, <2>0, <1>4, VerdictGranted
      <4>2. CASE Verdict(w, c, heir, armed(w)) = "Preempted"
        <5>1. IsConsole(c) /\ ~IsConsole(heir) /\ heir # None
          BY <4>2, <2>0, <1>4, VerdictOfConsole
        <5> QED BY <5>1, <3>4, <2>0, <1>3, ConsolesAreConsoles
      <4> QED BY <4>1, <4>2, <3>1
    <3> QED BY <3>2, <3>3, <3>4
  <2> QED BY <2>1, <2>2
<1> HIDE DEF won
<1>7. keyed' = [w \in Tg |-> IF w \in R THEN c ELSE keyed[w]]
  <2>1. keyed \in [Tg -> Optional(Client)]
    BY DEF TypeOK
  <2> QED BY <1>1, <2>1
<1>8. Grant!Take(c, R)
  BY <1>6, <1>7 DEF Grant!Take
<1>9. R \in SUBSET Tg
  BY <1>2
<1> HIDE DEF R
<1> QED BY <1>8, <1>9

LEMMA NextIsGrantStep == ASSUME TypeOK, [Next]_vars PROVE [Grant!Next]_keyed
<1>1. ASSUME NEW t \in Tg, NEW c \in Client, Key(t, c) PROVE Grant!Next
  BY <1>1, KeyTakes DEF Grant!Next
<1>2. ASSUME NEW t \in Tg, NEW c \in Client, UnkeyAs(t, c) PROVE Grant!Next
  BY <1>2, GiveUpClears DEF UnkeyAs, Grant!Next
<1>3. ASSUME NEW t \in Tg, Unkey(t) PROVE Grant!Next
  BY <1>3, GiveUpClears DEF Unkey, Grant!Next
<1>4. ASSUME NEW t \in Tg, Close(t) PROVE Grant!Next
  <2>1. keyed' = [u \in Tg |-> IF u \in {t} THEN None ELSE keyed[u]]
    BY <1>4 DEF Close, TypeOK
  <2>2. Grant!Clear({t})
    BY <2>1 DEF Grant!Clear
  <2> QED BY <2>2 DEF Grant!Next
<1>5. ASSUME Leave PROVE Grant!Next
  <2>1. ASSUME NEW s \in Session, Unbind(s) PROVE Grant!Next
    BY <2>1, GiveUpClears DEF Unbind, Grant!Next
  <2>2. ASSUME NEW server \in Server, DropServer(server) PROVE Grant!Next
    BY <2>2, GiveUpClears DEF DropServer, Grant!Next
  <2>3. ASSUME NEW c \in Console, ForgetClient(c) PROVE Grant!Next
    BY <2>3, GiveUpClears DEF ForgetClient, Grant!Next
  <2> QED BY <1>5, <2>1, <2>2, <2>3 DEF Leave
<1>6. ASSUME Plan PROVE UNCHANGED keyed \/ \E t \in Tg : Close(t)
  BY <1>6 DEF Plan, Open, OpenConventional, SetPatches, keying
<1>7. Refuse \/ Subscribe \/ Arrive \/ Clock \/ UNCHANGED vars => UNCHANGED keyed
  BY DEF Refuse, KeyBusy, Subscribe, SetMember, ConsoleUpdate, Arrive, Bind, Clock,
         WindowElapses, vars, keying
<1> QED
  BY <1>1, <1>2, <1>3, <1>4, <1>5, <1>6, <1>7
  DEF Next, Talk, Press, Release, Teardown

(* The router implements the abstract grant protocol: through every        *)
(* handler, patch and drop, a held route changes hands directly only from  *)
(* a unit to dispatch.                                                     *)
THEOREM RouterImplementsGrant == Spec => GrantSpec
<1>1. Init => Grant!Init
  BY DEF Init, Grant!Init
<1>2. TypeOK /\ [Next]_vars => [Grant!Next]_keyed
  BY NextIsGrantStep
<1> QED BY <1>1, <1>2, TypeCorrect, PTL DEF Spec, GrantSpec, Grant!Spec

-------------------------------------------------------------------------------
(***************************************************************************)
(* Digital does not double: on any patched channel of talkgroups at most   *)
(* one client transmits.                                                   *)
(***************************************************************************)

\* A press that is on record took exactly the channel as it still is.
TookIsChannel == \A c \in Client, t \in Tg : took[c][t] \in {{}, Joined(t)}

\* Nobody holds a route that is closed, and nobody is mixed in on a talkgroup.
NoneOnClosed == \A t \in Tg : kind[t] = "closed" => keyed[t] = None
SingleOnTrunked == \A t \in Tg : kind[t] \in {"P25", "closed"} => also[t] = {}

\* The open routes of a digital channel have one holder between them, or none.
Uniform ==
    \A t \in Tg : Digital(t) =>
        \A u, v \in Joined(t) :
            kind[u] # "closed" /\ kind[v] # "closed" => keyed[u] = keyed[v]

Shape == TookIsChannel /\ NoneOnClosed /\ SingleOnTrunked /\ Uniform

DigitalInv == TypeOK /\ HeldByPress /\ Shape

\* With every button up nobody holds anything.
LEMMA NobodyHoldsWithButtonsUp ==
    ASSUME TypeOK, HeldByPress, ButtonsUp, NEW t \in Tg
    PROVE  keyed[t] = None /\ also[t] = {}
<1>1. \A c \in Client : ~Holds(t, c)
    BY DEF HeldByPress, ButtonsUp
<1> QED BY <1>1 DEF Holds, TypeOK, Optional

-------------------------------------------------------------------------------
\* A press finds a digital channel free, or its own, or takes it over whole.
LEMMA KeyShape ==
    ASSUME DigitalInv, NEW t \in Tg, NEW c \in Client, Key(t, c)
    PROVE  Shape'
<1> DEFINE group      == Joined(t)
           preempts   == Outcome(t, c) = "Preempted"
           armed(w)   == <<w, c>> \in pending /\ ~(preempts /\ w # t)
           verdict(w) == IF w = t THEN Outcome(t, c)
                         ELSE Verdict(w, c, Inherited(w, t, c), armed(w))
           left(w)    == IF preempts /\ w # t THEN also[w] \ {keyed[t]} ELSE also[w]
           routes(V)  == {w \in group : verdict(w) \in V}
<1>1. keyed' = [w \in Tg |->
            IF w \in routes({"Granted", "Preempted"}) THEN c ELSE keyed[w]]
    BY DEF Key
<1>2. also' = [w \in Tg |->
            IF w \in group
            THEN left(w) \cup (IF verdict(w) = "Mixed" THEN {c} ELSE {})
            ELSE also[w]]
    BY DEF Key
<1>3. took' = [took EXCEPT ![c][t] = group] /\ kind' = kind /\ patches' = patches
    BY DEF Key
<1>4. \A w \in Tg : Joined(w)' = Joined(w) /\ Digital(w)' = Digital(w)
    BY <1>3 DEF Joined, Digital
<1>5. group \subseteq Tg /\ t \in group
    BY JoinedRoutes DEF DigitalInv, TypeOK
<1>6. \A w \in group : verdict(w) = Verdict(w, c, IF w = t THEN keyed[t] ELSE Inherited(w, t, c),
                                            IF w = t THEN <<t, c>> \in pending ELSE armed(w))
    BY DEF Outcome
<1>7. \A w \in group : /\ kind[w] = "closed" => verdict(w) = "NoRoute"
                       /\ verdict(w) = "Mixed" => kind[w] = "AM"
    BY <1>5, <1>6 DEF Verdict, Contested, OnFrequency, Kind, DigitalInv, TypeOK
<1>8. TookIsChannel'
    BY <1>3, <1>4 DEF DigitalInv, TypeOK, Shape, TookIsChannel
<1>9. NoneOnClosed'
  <2> HIDE DEF verdict
  <2> QED BY <1>1, <1>3, <1>7 DEF DigitalInv, Shape, NoneOnClosed
<1>10. SingleOnTrunked'
  <2> HIDE DEF verdict
  <2>1. \A w \in Tg : left(w) \subseteq also[w]
    OBVIOUS
  <2> QED BY <1>2, <1>3, <1>7, <2>1 DEF DigitalInv, Shape, SingleOnTrunked
<1>11. Uniform'
  <2> SUFFICES ASSUME NEW r \in Tg, Digital(r), NEW u \in Joined(r), NEW v \in Joined(r),
                      kind[u] # "closed", kind[v] # "closed"
               PROVE  keyed'[u] = keyed'[v]
    BY <1>3, <1>4 DEF Uniform
  <2>1. u \in Tg /\ v \in Tg /\ Joined(u) = Joined(r) /\ Joined(v) = Joined(r)
        /\ u \in Joined(u) /\ v \in Joined(v)
    BY JoinedAlike, JoinedRoutes DEF DigitalInv, TypeOK
  <2>2. keyed[u] = keyed[v]
    BY DEF DigitalInv, Shape, Uniform
  <2>3. CASE u \notin group
    <3>1. v \notin group
      BY <2>1, <2>3, JoinedAlike DEF DigitalInv, TypeOK
    <3> QED BY <1>1, <2>1, <2>2, <2>3, <3>1
  <2>4. CASE u \in group
    <3>1. Joined(r) = group /\ v \in group
      BY <2>1, <2>4, JoinedAlike DEF DigitalInv, TypeOK
    <3>2. Outcome(t, c) \in Accepted /\ kind[t] = "P25"
      <4>1. Outcome(t, c) \in Accepted
        BY DEF Key
      <4>2. kind[t] \in {"P25", "closed"}
        BY <1>5, <3>1 DEF Digital
      <4> QED BY <1>5, <1>7, <4>1, <4>2 DEF Accepted
    <3>3. \A w \in group : kind[w] # "closed" => kind[w] = "P25" /\ keyed[w] = keyed[t]
      BY <1>5, <3>1, <3>2 DEF Digital, DigitalInv, Shape, Uniform
    <3>4. \/ Outcome(t, c) = "Granted" /\ keyed[t] \in {c, None}
          \/ Outcome(t, c) = "Preempted"
      BY <3>2 DEF Outcome, Verdict, Contested, Accepted, Kind
    <3>5. ASSUME NEW w \in group, kind[w] # "closed"
          PROVE  verdict(w) \in {"Granted", "Preempted"}
      <4>1. CASE w = t
        BY <3>4, <4>1
      <4>2. CASE w # t
        <5>1. verdict(w) = Verdict(w, c, Inherited(w, t, c), armed(w))
          BY <4>2
        <5>2. Inherited(w, t, c) \in {c, None}
          BY <3>3, <3>4, <3>5 DEF Inherited
        <5>3. kind[w] = "P25"
          BY <3>3, <3>5
        <5> HIDE DEF verdict, armed
        <5> QED BY <5>1, <5>2, <5>3 DEF Verdict, Kind
      <4> QED BY <4>1, <4>2
    <3> HIDE DEF verdict
    <3> QED BY <1>1, <2>1, <2>4, <3>1, <3>5
  <2> QED BY <2>3, <2>4
<1> QED BY <1>8, <1>9, <1>10, <1>11 DEF Shape

\* What is given up on a digital channel is the whole of it, or nothing.
LEMMA GiveUpShape ==
    ASSUME DigitalInv, NEW STATE C, NEW STATE S, GiveUp(C, S), UNCHANGED <<kind, patches>>,
           \A t \in Tg : \A u \in Joined(t) : t \in S <=> u \in S
    PROVE  NoneOnClosed' /\ SingleOnTrunked' /\ Uniform'
<1>1. /\ keyed' = [t \in Tg |-> IF t \in S /\ keyed[t] \in C THEN None ELSE keyed[t]]
      /\ also' = [t \in Tg |-> IF t \in S THEN also[t] \ C ELSE also[t]]
    BY DEF GiveUp
<1>2. \A w \in Tg : Joined(w)' = Joined(w) /\ Digital(w)' = Digital(w)
    BY DEF Joined, Digital
<1>3. NoneOnClosed' /\ SingleOnTrunked'
    BY <1>1 DEF DigitalInv, Shape, NoneOnClosed, SingleOnTrunked
<1>4. Uniform'
  <2> SUFFICES ASSUME NEW t \in Tg, Digital(t), NEW u \in Joined(t), NEW v \in Joined(t),
                      kind[u] # "closed", kind[v] # "closed"
               PROVE  keyed'[u] = keyed'[v]
    BY <1>2 DEF Uniform
  <2>1. keyed[u] = keyed[v]
    BY DEF DigitalInv, Shape, Uniform
  <2>2. u \in Tg /\ v \in Tg /\ v \in Joined(u)
    BY JoinedAlike, JoinedRoutes DEF DigitalInv, TypeOK
  <2> QED BY <1>1, <2>1, <2>2
<1> QED BY <1>3, <1>4

LEMMA UnkeyShape ==
    ASSUME DigitalInv, NEW t \in Tg, NEW c \in Client, UnkeyAs(t, c)
    PROVE  Shape'
<1>1. /\ GiveUp({c}, Mine(t, c)) /\ UNCHANGED <<kind, patches>>
      /\ took' = [took EXCEPT ![c][t] = {}]
    BY DEF UnkeyAs
<1>2. Mine(t, c) = Joined(t)
    BY DEF Mine, DigitalInv, Shape, TookIsChannel
<1>3. ASSUME NEW r \in Tg, NEW u \in Joined(r)
      PROVE  r \in Joined(t) <=> u \in Joined(t)
    BY <1>3, JoinedAlike, JoinedRoutes DEF DigitalInv, TypeOK
<1>4. TookIsChannel'
  <2>1. \A w \in Tg : Joined(w)' = Joined(w)
    BY <1>1 DEF Joined
  <2> QED BY <1>1, <2>1 DEF DigitalInv, TypeOK, Shape, TookIsChannel
<1> QED BY <1>1, <1>2, <1>3, <1>4, GiveUpShape DEF Shape

LEMMA LeaveShape ==
    ASSUME DigitalInv, NEW STATE C, GiveUp(C, Tg), ForgetPresses(C), UNCHANGED <<kind, patches>>
    PROVE  Shape'
<1>1. NoneOnClosed' /\ SingleOnTrunked' /\ Uniform'
  <2>1. \A t \in Tg : Joined(t) \subseteq Tg
    BY JoinedRoutes DEF DigitalInv, TypeOK
  <2> QED BY <2>1, GiveUpShape
<1>2. TookIsChannel'
  <2>1. \A w \in Tg : Joined(w)' = Joined(w)
    BY DEF Joined
  <2> QED BY <2>1 DEF ForgetPresses, DigitalInv, TypeOK, Shape, TookIsChannel
<1> QED BY <1>1, <1>2 DEF Shape

\* What leaves kinds, patches and grants alone.
LEMMA IdleShape ==
    ASSUME DigitalInv, UNCHANGED <<kind, patches, keyed, also, took>>
    PROVE  Shape'
BY DEF DigitalInv, Shape, TookIsChannel, NoneOnClosed, SingleOnTrunked, Uniform, Digital, Joined

\* Routes and patches that change between calls find no grant to split.
LEMMA QuietShape ==
    ASSUME DigitalInv, TypeOK', ButtonsUp, took' = took,
           \A t \in Tg : keyed'[t] = keyed[t] \/ keyed'[t] = None,
           \A t \in Tg : also'[t] = also[t] \/ also'[t] = {}
    PROVE  Shape'
<1>1. \A t \in Tg : keyed'[t] = None /\ also'[t] = {}
    BY NobodyHoldsWithButtonsUp DEF DigitalInv
<1>2. \A t \in Tg : (Joined(t))' \subseteq Tg
    BY DEF TypeOK, Joined, JoinedIn
<1>3. TookIsChannel'
    BY DEF TookIsChannel, ButtonsUp
<1> QED BY <1>1, <1>2, <1>3 DEF Shape, NoneOnClosed, SingleOnTrunked, Uniform

-------------------------------------------------------------------------------
LEMMA ShapePreserved ==
    ASSUME DigitalInv, TypeOK', [SteadyNext]_vars
    PROVE  Shape'
<1>1. ASSUME NEW t \in Tg, NEW c \in Client, Key(t, c) PROVE Shape'
    BY <1>1, KeyShape
<1>2. ASSUME NEW t \in Tg, NEW c \in Client, UnkeyAs(t, c) PROVE Shape'
    BY <1>2, UnkeyShape
<1>3. CASE Refuse \/ Arrive \/ Clock \/ UNCHANGED vars
  <2>1. UNCHANGED <<kind, patches, keyed, also, took>>
    BY <1>3 DEF Refuse, Arrive, Clock, KeyBusy, Bind, WindowElapses, keying, vars
  <2> QED BY <2>1, IdleShape
<1>4. CASE Leave
  <2>1. ASSUME NEW s \in Session, Unbind(s) PROVE Shape'
    BY <2>1, LeaveShape DEF Unbind
  <2>2. ASSUME NEW server \in Server, DropServer(server) PROVE Shape'
    BY <2>2, LeaveShape DEF DropServer
  <2>3. ASSUME NEW c \in Console, ForgetClient(c) PROVE Shape'
    BY <2>3, LeaveShape DEF ForgetClient
  <2> QED BY <1>4, <2>1, <2>2, <2>3 DEF Leave
<1>5. ASSUME Subscribe \/ Plan
      PROVE  took' = took /\ (UNCHANGED <<keyed, also>> \/ \E t \in Tg : Close(t))
    BY <1>5 DEF Subscribe, Plan, SetMember, ConsoleUpdate, Open, Close, OpenConventional,
       SetPatches, keying
<1>6. ASSUME NEW t \in Tg, Close(t)
      PROVE  /\ \A u \in Tg : keyed'[u] = keyed[u] \/ keyed'[u] = None
             /\ \A u \in Tg : also'[u] = also[u] \/ also'[u] = {}
             /\ kind' = kind => UNCHANGED <<keyed, also>>
  <2>1. /\ keyed' = [keyed EXCEPT ![t] = None] /\ also' = [also EXCEPT ![t] = {}]
        /\ kind' = [kind EXCEPT ![t] = "closed"]
    BY <1>6 DEF Close
  <2>2. /\ keyed \in [Tg -> Optional(Client)] /\ also \in [Tg -> SUBSET Client]
        /\ kind \in [Tg -> Kind \cup {"closed"}]
    BY DEF DigitalInv, TypeOK
  <2>3. ASSUME kind' = kind PROVE UNCHANGED <<keyed, also>>
    <3>1. kind[t] = "closed"
      BY <2>1, <2>2, <2>3
    <3>2. keyed[t] = None /\ also[t] = {}
      BY <3>1 DEF DigitalInv, Shape, NoneOnClosed, SingleOnTrunked
    <3> QED BY <2>1, <2>2, <3>2
  <2> QED BY <2>1, <2>2, <2>3
<1>7. CASE (Subscribe \/ Plan) /\ ButtonsUp
    BY <1>5, <1>6, <1>7, QuietShape
<1>8. CASE (Subscribe \/ Plan) /\ UNCHANGED <<kind, patches>>
    BY <1>5, <1>6, <1>8, IdleShape
<1> QED
    BY <1>1, <1>2, <1>3, <1>4, <1>7, <1>8 DEF SteadyNext, Talk, Press, Release

\* Under the steady discipline too, what a client holds is on record.
LEMMA SteadyHeldByPress ==
    ASSUME DigitalInv, [SteadyNext]_vars
    PROVE  HeldByPress'
<1>1. ASSUME NEW t \in Tg, NEW c \in Client, Key(t, c) PROVE HeldByPress'
  <2> SUFFICES ASSUME NEW u \in Tg, NEW d \in Client, Holds(u, d)'
               PROVE  \E w \in Tg : u \in took'[d][w]
    BY DEF HeldByPress
  <2>1. took' = [took EXCEPT ![c][t] = Joined(t)] /\ took \in [Client -> [Tg -> SUBSET Tg]]
    BY <1>1 DEF Key, DigitalInv, TypeOK
  <2>2. took[c][t] \subseteq Joined(t)
    BY DEF DigitalInv, Shape, TookIsChannel
  <2>3. CASE Holds(u, d)
    BY <2>1, <2>2, <2>3 DEF DigitalInv, HeldByPress
  <2>4. CASE d = c /\ u \in Joined(t)
    BY <2>1, <2>4
  <2> QED BY <1>1, <2>3, <2>4, KeyTakesGroup DEF DigitalInv
<1>2. ASSUME ~Press PROVE [PressOnceNext]_vars
    BY <1>2 DEF SteadyNext, PressOnceNext, Talk
<1> QED
    BY <1>1, <1>2, HeldByPressStep DEF Press, DigitalInv

LEMMA DigitalInductive ==
    SteadySpec => []DigitalInv
<1>1. Init => DigitalInv
  <2> SUFFICES ASSUME Init PROVE DigitalInv
    OBVIOUS
  <2>1. TypeOK
    BY InitTypeOK
  <2>2. HeldByPress
    BY RouterAssumption DEF Init, HeldByPress, Holds
  <2>3. \A t \in Tg : Joined(t) \subseteq Tg
    BY <2>1, JoinedRoutes DEF TypeOK
  <2>4. Shape
    BY <2>3 DEF Init, Shape, TookIsChannel, NoneOnClosed, SingleOnTrunked, Uniform
  <2> QED BY <2>1, <2>2, <2>4 DEF DigitalInv
<1>2. DigitalInv /\ [SteadyNext]_vars => DigitalInv'
  <2> SUFFICES ASSUME DigitalInv, [SteadyNext]_vars PROVE DigitalInv'
    OBVIOUS
  <2>1. [Next]_vars
    BY DEF SteadyNext, Next
  <2>2. TypeOK'
    BY <2>1, NextTypeOK DEF DigitalInv
  <2> QED BY <2>2, ShapePreserved, SteadyHeldByPress DEF DigitalInv
<1> QED
    BY <1>1, <1>2, PTL DEF SteadySpec

-------------------------------------------------------------------------------
\* Digital does not double: whatever is patched to it, a channel of talkgroups
\* has at most one talker ("what everybody involved is hearing as a single
\* channel", the comment in Router::key_at), as long as routes and patches change
\* between calls and no unkey comes without its client's name.
THEOREM DigitalDoesNotDouble ==
    SteadySpec => []OneTalkerPerChannel
<1>1. DigitalInv => OneTalkerPerChannel
  <2> SUFFICES ASSUME DigitalInv, NEW t \in Tg, Digital(t)
               PROVE  Cardinality(UNION {TalkersOn(u) : u \in Joined(t)}) <= 1
    BY DEF OneTalkerPerChannel
  <2> DEFINE talkers == UNION {TalkersOn(u) : u \in Joined(t)}
  <2>1. ASSUME NEW c \in talkers, NEW d \in talkers PROVE c = d
    <3>1. PICK u \in Joined(t) : c \in TalkersOn(u)
      BY <2>1
    <3>2. PICK v \in Joined(t) : d \in TalkersOn(v)
      BY <2>1
    <3>3. /\ u \in Tg /\ v \in Tg
          /\ kind[u] \in {"P25", "closed"} /\ kind[v] \in {"P25", "closed"}
      BY JoinedRoutes DEF DigitalInv, TypeOK, Digital
    <3>4. keyed[u] = c /\ keyed[v] = d /\ c # None /\ d # None
      BY <3>1, <3>2, <3>3, RouterAssumption
         DEF TalkersOn, Holds, DigitalInv, Shape, SingleOnTrunked
    <3>5. kind[u] # "closed" /\ kind[v] # "closed"
      BY <3>3, <3>4 DEF DigitalInv, Shape, NoneOnClosed
    <3> QED BY <3>4, <3>5 DEF DigitalInv, Shape, Uniform
  <2> HIDE DEF talkers
  <2>2. CASE talkers = {}
    <3>1. Cardinality(talkers) = 0
      BY <2>2, FS_EmptySet
    <3> QED BY <3>1 DEF talkers
  <2>3. CASE talkers # {}
    <3>1. PICK c \in talkers : talkers = {c}
      BY <2>1, <2>3
    <3>2. Cardinality(talkers) = 1
      BY <3>1, FS_Singleton
    <3> QED BY <3>2 DEF talkers
  <2> QED BY <2>2, <2>3
<1> QED
    BY <1>1, DigitalInductive, PTL

-------------------------------------------------------------------------------
\* Where every route id is of a talkgroup, no frequency is ever opened.
AllTrunked == \A t \in Tg : kind[t] \in {"P25", "closed"}

LEMMA TrunkedPreserved ==
    ASSUME \A t \in Tg : ClassOf[t] = "P25", TypeOK, AllTrunked, [SteadyNext]_vars
    PROVE  AllTrunked'
<1> USE DEF TypeOK, AllTrunked
<1>1. ASSUME Talk \/ Leave \/ Arrive \/ Clock \/ UNCHANGED vars PROVE kind' = kind
    BY <1>1 DEF Talk, Press, Refuse, Release, Leave, Arrive, Clock, vars, Key, KeyBusy, UnkeyAs,
       Unbind, DropServer, ForgetClient, Bind, WindowElapses
<1>2. ASSUME Subscribe PROVE AllTrunked'
  <2>1. ASSUME NEW S, NEW c, NEW l, NEW q, NEW STATE was, NEW STATE parked,
               SetMembers(S, c, l, q, was, parked)
        PROVE  AllTrunked'
    <3>1. kind' = [t \in Tg |-> IF t \in S /\ kind[t] = "closed" THEN ClassOf[t] ELSE kind[t]]
      BY <2>1 DEF SetMembers
    <3> QED BY <3>1
  <2>2. ASSUME NEW t \in Tg, NEW c \in Unit, NEW l \in BOOLEAN, NEW q \in Quality,
               SetMember(t, c, l, q)
        PROVE  AllTrunked'
    BY <2>1, <2>2, Zenon DEF SetMember
  <2>3. ASSUME NEW c \in Console, NEW S \in SUBSET Tg, ConsoleUpdate(c, S)
        PROVE  AllTrunked'
    BY <2>1, <2>3, Zenon DEF ConsoleUpdate
  <2>4. CASE \E t \in Tg, c \in Unit \cap Subscriber, l \in BOOLEAN, q \in Quality :
                SetMember(t, c, l, q)
    <3>1. PICK t \in Tg, c \in Unit, l \in BOOLEAN, q \in Quality : SetMember(t, c, l, q)
      BY <2>4
    <3> QED BY <2>2, <3>1
  <2>5. CASE \E c \in Console \cap Subscriber, S \in SUBSET Tg : ConsoleUpdate(c, S)
    <3>1. PICK c \in Console, S \in SUBSET Tg : ConsoleUpdate(c, S)
      BY <2>5
    <3> QED BY <2>3, <3>1
  <2> QED BY <1>2, <2>4, <2>5, Zenon DEF Subscribe
<1>3. ASSUME Plan PROVE AllTrunked'
    BY <1>3 DEF Plan, Open, Close, OpenConventional, SetPatches
<1> QED BY <1>1, <1>2, <1>3 DEF SteadyNext

\* The holder of a channel that lets a press in holds no route against it.
LEMMA KeyArmsNobody ==
    ASSUME DigitalInv, AllTrunked, NEW t \in Tg, NEW c \in Client, Key(t, c)
    PROVE  pending' \subseteq pending
<1> DEFINE group      == Joined(t)
           preempts   == Outcome(t, c) = "Preempted"
           armed(w)   == <<w, c>> \in pending /\ ~(preempts /\ w # t)
           verdict(w) == IF w = t THEN Outcome(t, c)
                         ELSE Verdict(w, c, Inherited(w, t, c), armed(w))
           routes(V)  == {w \in group : verdict(w) \in V}
           spent      == {w \in group : preempts \/ verdict(w) = "Preempted"}
<1>1. /\ Outcome(t, c) \in Accepted
      /\ pending' = (pending \ (spent \X {c})) \cup (routes({"Busy"}) \X {c})
    BY DEF Key
<1>2. kind[t] = "P25" /\ (keyed[t] \in {c, None} \/ preempts)
  <2>1. kind[t] # "closed"
    <3>1. ASSUME kind[t] = "closed" PROVE Outcome(t, c) = "NoRoute"
      BY <3>1 DEF Outcome, Verdict, Kind
    <3> QED BY <1>1, <3>1 DEF Accepted
  <2>2. kind[t] = "P25"
    BY <2>1 DEF AllTrunked
  <2>3. ASSUME keyed[t] \notin {c, None} PROVE preempts
    BY <1>1, <2>2, <2>3 DEF Outcome, Verdict, Contested, Accepted, Kind
  <2> QED BY <2>2, <2>3
<1>3. ASSUME NEW u \in group PROVE verdict(u) # "Busy"
  <2>1. CASE u = t
    BY <1>1, <2>1 DEF Accepted
  <2>2. CASE u # t /\ kind[u] = "closed"
    BY <2>2 DEF Verdict
  <2>3. CASE u # t /\ kind[u] # "closed"
    <3>1. u \in Tg /\ t \in group /\ kind[u] = "P25" /\ Digital(t)
      BY <2>3, JoinedRoutes DEF DigitalInv, TypeOK, AllTrunked, Digital
    <3>2. keyed[u] = keyed[t]
      BY <1>2, <2>3, <3>1 DEF DigitalInv, Shape, Uniform
    <3>3. Inherited(u, t, c) \in {c, None}
      BY <1>2, <3>2 DEF Inherited
    <3>4. Verdict(u, c, Inherited(u, t, c), armed(u)) = "Granted"
      BY <3>1, <3>3 DEF Verdict, Kind
    <3> QED BY <2>3, <3>4
  <2> QED BY <2>1, <2>2, <2>3
<1> HIDE DEF group, spent, verdict
<1> QED BY <1>1, <1>3

\* No accepted press entitles a dispatcher to cut a unit off on a route joined to
\* the pressed one, where all routes are talkgroups (Router::key_at discards what a
\* sibling answers, but key_one remembers a refusal).
THEOREM DigitalArmsNobody ==
    ASSUME \A t \in Tg : ClassOf[t] = "P25"
    PROVE  SteadySpec => ArmedOnlyByRefusal
<1> DEFINE Unarmed == \A t \in Tg, c \in Console : Key(t, c) => pending' \subseteq pending
<1>1. Init => AllTrunked
    BY DEF Init, AllTrunked
<1>2. DigitalInv /\ AllTrunked /\ [SteadyNext]_vars => AllTrunked'
    BY TrunkedPreserved DEF DigitalInv
<1>3. DigitalInv /\ AllTrunked /\ [SteadyNext]_vars => [Unarmed]_vars
    BY KeyArmsNobody DEF Client
<1> QED
    BY <1>1, <1>2, <1>3, DigitalInductive, PTL DEF SteadySpec, ArmedOnlyByRefusal
===============================================================================
