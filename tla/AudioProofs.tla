------------------------------ MODULE AudioProofs ------------------------------
(***************************************************************************)
(* Nobody hears a transmission twice, and radios that collide are summed   *)
(* and neither stalled nor clipped, for any routes, listeners, patches and *)
(* packet lengths.                                                         *)
(***************************************************************************)
EXTENDS Audio, WellFoundedInduction, TLAPS

\* A set of naturals has a least element.
LEMMA LeastThereIs ==
    ASSUME NEW S \in SUBSET Nat, S # {}
    PROVE  \E x \in S : \A y \in S : x <= y
<1> DEFINE below == OpToRel(<, Nat)
<1>1. \A x, y \in Nat : x < y => <<x, y>> \in below
    BY DEF OpToRel
<1>2. IsWellFoundedOn(below, Nat)
    BY NatLessThanWellFounded
<1> HIDE DEF below
<1>3. PICK x \in S : \A y \in S : <<y, x>> \notin below
    BY <1>2, WFMin
<1>4. ASSUME NEW y \in S PROVE x <= y
  <2>1. x \in Nat /\ y \in Nat
    OBVIOUS
  <2>2. ~(y < x)
    BY <1>1, <1>3, <2>1, Zenon
  <2> QED BY <2>1, <2>2
<1> QED BY <1>4

\* One that is bounded has a greatest.
LEMMA GreatestThereIs ==
    ASSUME NEW n \in Nat, NEW S \in SUBSET (0..n), S # {}
    PROVE  \E x \in S : \A y \in S : y <= x
<1> DEFINE mirror == {n - x : x \in S}
<1>1. \A x \in S : x \in Nat /\ n - x \in Nat
    OBVIOUS
<1>2. mirror \in SUBSET Nat /\ mirror # {}
    BY <1>1
<1>3. PICK z \in mirror : \A y \in mirror : z <= y
  <2> HIDE DEF mirror
  <2> QED BY <1>2, LeastThereIs
<1>4. PICK x \in S : z = n - x
    BY <1>3
<1>5. \A y \in S : n - x <= n - y
    BY <1>3, <1>4
<1> QED BY <1>1, <1>4, <1>5

\* What Min and Max are.
LEMMA MinIs ==
    ASSUME NEW S \in SUBSET Nat, S # {}
    PROVE  Min(S) \in S /\ \A y \in S : Min(S) <= y
BY LeastThereIs DEF Min

LEMMA MaxIs ==
    ASSUME NEW n \in Nat, NEW S \in SUBSET (0..n), S # {}
    PROVE  Max(S) \in S /\ \A y \in S : y <= Max(S)
<1>1. \E x \in S : \A y \in S : x >= y
    BY GreatestThereIs
<1> QED BY <1>1 DEF Max

-------------------------------------------------------------------------------
AudioTypes ==
    /\ members \in Roster /\ patch \subseteq Route
    /\ keyed_by \in [Client -> Route \cup {None}]

\* Only AM renderings are queued, by radios.
IsMix(m) ==
    /\ m = [queues |-> m.queues, seen |-> m.seen]
    /\ \A k \in DOMAIN m.queues :
          /\ k = <<k[1], k[2]>> /\ k[2] \in Radio /\ k[1].mode = "Am"
          /\ m.queues[k] \in Nat

MixesOK ==
    /\ ammix = [t \in Route |-> ammix[t]]
    /\ \A t \in Route :
          /\ IsMix(ammix[t])
          /\ \A k \in DOMAIN ammix[t].queues : ammix[t].queues[k] <= BACKLOG + FRAMES

\* The packet in hand is a radio's, for a route there is and for each listener
\* once, and there is room for it in the mixer.
HandOK ==
    hand # None =>
        /\ hand.of \in Radio /\ hand.tg \in Route
        /\ \A k, l \in hand.listeners : k.client = l.client => k = l
        /\ \A k \in DOMAIN ammix[hand.tg].queues :
              k[2] = hand.of => ammix[hand.tg].queues[k] <= BACKLOG

AudioInv == AudioTypes /\ MixesOK /\ HandOK /\ HeardOnce /\ RadiosAreSummed

\* A packet goes to a route there is.
LEMMA DestinationIsRoute ==
    ASSUME AudioTypes, NEW c \in Client, Destination(c) # None
    PROVE  Destination(c) \in Route
<1>1. Holding(c) \in SUBSET Route /\ Holding(c) \in SUBSET Nat
    BY AudioAssumption DEF Holding
<1>2. Holding(c) # {} => Min(Holding(c)) \in Route
    BY <1>1, MinIs
<1> QED BY <1>1, <1>2 DEF Destination

\* A listener is served on one route of a channel, whatever their links.
LEMMA ServedOnce ==
    ASSUME AudioTypes, NEW t \in Route, NEW c \in Client,
           NEW u \in ServedOn(t, c), NEW v \in ServedOn(t, c)
    PROVE  u = v
<1>1. /\ u \in Route /\ v \in Route /\ u \in Nat /\ v \in Nat /\ t \in Nat
      /\ members[u][c] \in Quality /\ members[v][c] \in Quality
  <2>1. u \in Joined(t) /\ v \in Joined(t) /\ members[u][c] # None /\ members[v][c] # None
    BY Zenon DEF ServedOn
  <2>2. Joined(t) \subseteq Route
    BY DEF Joined, AudioTypes
  <2>3. \A w \in Route : members[w][c] \in Quality \cup {None}
    BY Zenon, AudioAssumption DEF AudioTypes
  <2>4. Route \subseteq Nat
    BY AudioAssumption
  <2> QED BY <2>1, <2>2, <2>3, <2>4, Zenon
<1>2. /\ members[u][c] > members[v][c] \/
            (members[u][c] = members[v][c] /\ (u = t \/ (v # t /\ u <= v)))
      /\ members[v][c] > members[u][c] \/
            (members[v][c] = members[u][c] /\ (v = t \/ (u # t /\ v <= u)))
    BY DEF ServedOn
<1>3. \A a \in Quality, b \in Quality : a > b => ~(b > a) /\ a # b
    BY DEF Quality
<1>4. members[u][c] = members[v][c]
    BY <1>1, <1>2, <1>3
<1>5. (u = t \/ (v # t /\ u <= v)) /\ (v = t \/ (u # t /\ v <= u))
    BY <1>1, <1>2, <1>3, <1>4
<1> QED BY <1>1, <1>5

LEMMA ListenersOnce ==
    ASSUME AudioTypes, NEW t \in Route, NEW e,
           NEW k \in Listeners(t, e), NEW l \in Listeners(t, e), k.client = l.client
    PROVE  k = l
<1>1. \A x \in Listeners(t, e) :
         /\ x.client \in Client
         /\ \E u \in ServedOn(t, x.client) :
               x = [client |-> x.client,
                    sink |-> [mode |-> ModeOf[u], quality |-> members[u][x.client],
                              bridged |-> u # t]]
    BY DEF Listeners
<1> QED BY <1>1, ServedOnce

-------------------------------------------------------------------------------
\* AmMix, step by step.

LEMMA AddedIs ==
    ASSUME NEW m, IsMix(m), NEW keys, \A k \in keys : k.mode = "Am", NEW r \in Radio
    PROVE  /\ IsMix(Added(m, keys, r))
           /\ DOMAIN m.queues \subseteq DOMAIN Added(m, keys, r).queues
           /\ Present(m.seen) \subseteq Present(Added(m, keys, r).seen)
           /\ \A n \in Nat :
                 (\A k \in DOMAIN m.queues : /\ m.queues[k] <= n + FRAMES
                                             /\ k[2] = r => m.queues[k] <= n)
                 => \A k \in DOMAIN Added(m, keys, r).queues :
                       Added(m, keys, r).queues[k] <= n + FRAMES
<1>1. CASE keys = {}
    BY <1>1 DEF Added
<1>2. CASE keys # {}
  <2> DEFINE D == DOMAIN m.queues \cup (keys \X {r})
             q == [k \in D |-> (IF k \in DOMAIN m.queues THEN m.queues[k] ELSE 0)
                               + (IF k \in keys \X {r} THEN FRAMES ELSE 0)]
             s == [x \in DOMAIN m.seen \cup {r} |-> IF x = r THEN 0 ELSE m.seen[x]]
  <2>1. Added(m, keys, r) = [queues |-> q, seen |-> s]
    BY <1>2 DEF Added
  <2>2. \A k \in D : /\ k = <<k[1], k[2]>> /\ k[2] \in Radio /\ k[1].mode = "Am"
                     /\ q[k] \in Nat
    BY AudioAssumption DEF IsMix, FRAMES
  <2>3. Present(m.seen) \subseteq Present(s)
    BY DEF Present, AM_GONE_MS
  <2>4. IsMix([queues |-> q, seen |-> s])
    BY <2>2 DEF IsMix
  <2>5. ASSUME NEW n \in Nat,
               \A k \in DOMAIN m.queues : /\ m.queues[k] <= n + FRAMES
                                          /\ k[2] = r => m.queues[k] <= n
        PROVE  \A k \in D : q[k] <= n + FRAMES
    <3> SUFFICES ASSUME NEW k \in D PROVE q[k] <= n + FRAMES
      OBVIOUS
    <3>1. FRAMES \in Nat
      BY AudioAssumption DEF FRAMES
    <3>2. CASE k \in keys \X {r}
      BY <2>5, <3>1, <3>2 DEF IsMix
    <3>3. CASE k \notin keys \X {r}
      BY <2>5, <3>1, <3>3 DEF IsMix
    <3> QED BY <3>2, <3>3
  <2>6. DOMAIN q = D
    OBVIOUS
  <2> HIDE DEF q, s
  <2>7. DOMAIN m.queues \subseteq DOMAIN q
    BY <2>6
  <2> QED BY <2>1, <2>3, <2>4, <2>5, <2>6, <2>7
<1> QED BY <1>1, <1>2

LEMMA RetiredIs ==
    ASSUME NEW m, IsMix(m)
    PROVE  /\ IsMix(Retired(m))
           /\ DOMAIN Retired(m).queues = {k \in DOMAIN m.queues : k[2] \in Present(m.seen)}
           /\ \A k \in DOMAIN Retired(m).queues : /\ Retired(m).seen[k[2]] <= AM_GONE_MS
                                                  /\ Retired(m).queues[k] = m.queues[k]
<1> DEFINE here == Present(m.seen)
           D    == {k \in DOMAIN m.queues : k[2] \in here}
           q    == [k \in D |-> m.queues[k]]
           s    == [x \in here |-> m.seen[x]]
<1>1. Retired(m) = [queues |-> q, seen |-> s]
    BY DEF Retired, Restrict
<1>2. \A k \in D : /\ k = <<k[1], k[2]>> /\ k[2] \in Radio /\ k[1].mode = "Am"
                   /\ q[k] \in Nat
    BY DEF IsMix
<1>3. \A k \in D : s[k[2]] <= AM_GONE_MS
    BY DEF Present
<1>4. DOMAIN q = D /\ \A k \in D : q[k] = m.queues[k]
    OBVIOUS
<1> HIDE DEF q, s
<1> QED BY <1>1, <1>2, <1>3, <1>4 DEF IsMix

\* What a lane has ready is with every talker of it, and one has no more.
LEMMA ReadyIs ==
    ASSUME NEW m, IsMix(m), NEW k \in DOMAIN m.queues
    PROVE  /\ Ready(m, k[1]) \in Nat /\ Ready(m, k[1]) <= m.queues[k]
           /\ \E j \in DOMAIN m.queues : j[1] = k[1] /\ m.queues[j] = Ready(m, k[1])
<1> DEFINE L == Lengths(m, k[1])
<1>1. L \in SUBSET Nat /\ m.queues[k] \in L
    BY DEF Lengths, IsMix
<1>2. \A n \in L : \E j \in DOMAIN m.queues : j[1] = k[1] /\ m.queues[j] = n
    BY DEF Lengths
<1>3. Min(L) \in L /\ Min(L) <= m.queues[k]
  <2> HIDE DEF L
  <2> QED BY <1>1, MinIs
<1> QED BY <1>1, <1>2, <1>3 DEF Ready

LEMMA AfterDrainIs ==
    ASSUME NEW m, IsMix(m)
    PROVE  /\ IsMix(AfterDrain(m))
           /\ DOMAIN AfterDrain(m).queues = DOMAIN m.queues
           /\ AfterDrain(m).seen = m.seen
           /\ \A k \in DOMAIN m.queues :
                 AfterDrain(m).queues[k] = m.queues[k] - Ready(m, k[1])
<1> DEFINE q == [k \in DOMAIN m.queues |-> Max({0, m.queues[k] - Ready(m, k[1])})]
<1>1. AfterDrain(m) = [queues |-> q, seen |-> m.seen]
  <2> DEFINE q0 == m.queues
             s0 == m.seen
  <2>1. m = [queues |-> q0, seen |-> s0]
    BY DEF IsMix
  <2>2. AfterDrain(m) = [m EXCEPT !.queues = q]
    BY DEF AfterDrain
  <2> HIDE DEF q0, s0, q
  <2>3. [m EXCEPT !.queues = q] = [queues |-> q, seen |-> s0]
    BY <2>1
  <2> QED BY <2>2, <2>3 DEF s0
<1>2. \A k \in DOMAIN m.queues : q[k] = m.queues[k] - Ready(m, k[1]) /\ q[k] \in Nat
  <2> SUFFICES ASSUME NEW k \in DOMAIN m.queues
               PROVE  q[k] = m.queues[k] - Ready(m, k[1]) /\ q[k] \in Nat
    OBVIOUS
  <2> DEFINE n == m.queues[k] - Ready(m, k[1])
  <2>1. n \in Nat
    BY ReadyIs DEF IsMix
  <2> HIDE DEF n
  <2>2. Max({0, n}) = n
    BY <2>1, MaxIs
  <2> QED BY <2>1, <2>2 DEF n
<1>3. DOMAIN q = DOMAIN m.queues
    OBVIOUS
<1> HIDE DEF q
<1> QED BY <1>1, <1>2, <1>3 DEF IsMix

-------------------------------------------------------------------------------
\* A packet.

\* The AM renderings the packet in hand is wanted in.
AmWanted == {k \in Wanted(hand.listeners) : k.mode = "Am"}

\* The mixer of its route, once it is in it and who has gone is not.
MixWith == Retired(Added(ammix[hand.tg], AmWanted, hand.of))

LEMMA EmptyMix == IsMix(NoMix) /\ DOMAIN NoMix.queues = {}
BY DEF IsMix, NoMix

LEMMA MixWithIs ==
    ASSUME MixesOK, HandOK, hand # None
    PROVE  /\ hand.of \in Radio /\ hand.tg \in Route
           /\ IsMix(MixWith)
           /\ \A k \in DOMAIN MixWith.queues : /\ MixWith.seen[k[2]] <= AM_GONE_MS
                                               /\ MixWith.queues[k] <= BACKLOG + FRAMES
           /\ \A k \in DOMAIN ammix[hand.tg].queues :
                 k[2] \in Present(ammix[hand.tg].seen) => k \in DOMAIN MixWith.queues
<1> DEFINE m == ammix[hand.tg]
           w == Added(m, AmWanted, hand.of)
<1>1. hand.of \in Radio /\ hand.tg \in Route
    BY DEF HandOK
<1>2. IsMix(m)
    BY <1>1 DEF MixesOK
<1>3. \A k \in AmWanted : k.mode = "Am"
    BY DEF AmWanted
<1>4. \A k \in DOMAIN m.queues : /\ m.queues[k] <= BACKLOG + FRAMES
                                 /\ k[2] = hand.of => m.queues[k] <= BACKLOG
    BY <1>1 DEF MixesOK, HandOK
<1> HIDE DEF m
<1>5. /\ IsMix(w) /\ DOMAIN m.queues \subseteq DOMAIN w.queues
      /\ Present(m.seen) \subseteq Present(w.seen)
      /\ \A k \in DOMAIN w.queues : w.queues[k] <= BACKLOG + FRAMES
  <2>1. BACKLOG \in Nat
    BY AudioAssumption
  <2> QED BY <1>1, <1>2, <1>3, <1>4, <2>1, AddedIs
<1> HIDE DEF w
<1>6. /\ IsMix(Retired(w))
      /\ \A k \in DOMAIN Retired(w).queues : /\ Retired(w).seen[k[2]] <= AM_GONE_MS
                                             /\ Retired(w).queues[k] <= BACKLOG + FRAMES
      /\ \A k \in DOMAIN m.queues : k[2] \in Present(m.seen) => k \in DOMAIN Retired(w).queues
    BY <1>5, RetiredIs
<1> QED BY <1>1, <1>6 DEF MixWith, m, w

\* While radios collide ...
LEMMA VoiceCollided ==
    ASSUME Voice, AmCollision(hand.tg)
    PROVE  /\ Deliver(hand.of, hand.tg, hand.listeners,
                      Drained(MixWith) \cup Alone(hand.of, Wanted(hand.listeners) \ AmWanted))
           /\ ammix' = [ammix EXCEPT ![hand.tg] = AfterDrain(MixWith)]
BY DEF Voice, MixWith, AmWanted

\* ... and while they do not.
LEMMA VoiceClear ==
    ASSUME Voice, ~AmCollision(hand.tg)
    PROVE  /\ Deliver(hand.of, hand.tg, hand.listeners,
                      Flushed(ammix[hand.tg]) \cup Alone(hand.of, Wanted(hand.listeners)))
           /\ ammix' = [ammix EXCEPT ![hand.tg] = NoMix]
BY DEF Voice

LEMMA VoiceMixes ==
    ASSUME MixesOK, HandOK, Voice
    PROVE  MixesOK'
<1> DEFINE t == hand.tg
<1>1. /\ t \in Route /\ IsMix(MixWith)
      /\ \A k \in DOMAIN MixWith.queues : MixWith.queues[k] <= BACKLOG + FRAMES
    BY MixWithIs DEF Voice
<1>2. PICK m : /\ ammix' = [ammix EXCEPT ![t] = m] /\ IsMix(m)
               /\ \A k \in DOMAIN m.queues : m.queues[k] <= BACKLOG + FRAMES
  <2>1. CASE AmCollision(t)
    <3>1. \A k \in DOMAIN MixWith.queues : /\ Ready(MixWith, k[1]) \in Nat
                                           /\ MixWith.queues[k] \in Nat
      BY <1>1, ReadyIs DEF IsMix
    <3>2. BACKLOG + FRAMES \in Nat
      BY AudioAssumption DEF FRAMES
    <3>3. \A k \in DOMAIN MixWith.queues :
             MixWith.queues[k] - Ready(MixWith, k[1]) <= BACKLOG + FRAMES
      BY <1>1, <3>1, <3>2
    <3>4. /\ ammix' = [ammix EXCEPT ![t] = AfterDrain(MixWith)] /\ IsMix(AfterDrain(MixWith))
          /\ \A k \in DOMAIN AfterDrain(MixWith).queues :
                AfterDrain(MixWith).queues[k] <= BACKLOG + FRAMES
      BY <1>1, <2>1, <3>3, VoiceCollided, AfterDrainIs
    <3> QED BY <3>4
  <2>2. CASE ~AmCollision(t)
    BY <2>2, VoiceClear, EmptyMix
  <2> QED BY <2>1, <2>2
<1> HIDE DEF t
<1>3. /\ ammix'[t] = m /\ \A u \in Route : u # t => ammix'[u] = ammix[u]
      /\ ammix' = [u \in Route |-> ammix'[u]]
    BY <1>1, <1>2 DEF MixesOK
<1> QED BY <1>2, <1>3 DEF MixesOK

\* Pieces that are not what a collision left: one for each rendering.
OneEach(P) == \A x \in P, y \in P : x.key = y.key /\ ~x.left /\ ~y.left => x = y

\* What is sent are the pieces, to who listens to their renderings.
LEMMA Delivered ==
    ASSUME NEW c, NEW t, NEW L, NEW P, Deliver(c, t, L, P)
    PROVE  \A x \in out' : /\ x.piece \in P /\ x.tg = t /\ x.of = c
                           /\ \E l \in L :
                                 x = [piece |-> x.piece, tg |-> x.tg, of |-> c, to |-> l.client]
                                 /\ KeyOf(l.sink) = x.piece.key
BY DEF Deliver

LEMMA DeliveredOnce ==
    ASSUME NEW c, NEW t, NEW L, NEW P, OneEach(P), Deliver(c, t, L, P),
           \A k, l \in L : k.client = l.client => k = l
    PROVE  HeardOnce'
<1> SUFFICES ASSUME NEW x \in out', NEW y \in out', x.to = y.to, ~x.piece.left, ~y.piece.left
             PROVE  x = y
    BY DEF HeardOnce
<1>2. PICK l \in L :
         /\ x = [piece |-> x.piece, tg |-> x.tg, of |-> c, to |-> l.client]
         /\ KeyOf(l.sink) = x.piece.key
    BY Delivered
<1>3. PICK k \in L :
         /\ y = [piece |-> y.piece, tg |-> y.tg, of |-> c, to |-> k.client]
         /\ KeyOf(k.sink) = y.piece.key
    BY Delivered
<1>4. x.tg = y.tg /\ x.piece \in P /\ y.piece \in P
    BY Delivered
<1>5. k = l
    BY <1>2, <1>3
<1>6. x.piece = y.piece
    BY <1>2, <1>3, <1>4, <1>5 DEF OneEach
<1> QED BY <1>2, <1>3, <1>4, <1>5, <1>6

LEMMA AloneOnce ==
    ASSUME NEW c, NEW K
    PROVE  OneEach(Alone(c, K)) /\ \A x \in Alone(c, K) : x.key \in K /\ ~x.left
<1>1. \A x \in Alone(c, K) : \E k \in K : x = Piece(k, FRAMES, {c}, FALSE)
    BY DEF Alone
<1>2. \A x \in Alone(c, K) : x = Piece(x.key, FRAMES, {c}, FALSE) /\ x.key \in K /\ ~x.left
  <2> SUFFICES ASSUME NEW x \in Alone(c, K)
               PROVE  x = Piece(x.key, FRAMES, {c}, FALSE) /\ x.key \in K /\ ~x.left
    OBVIOUS
  <2>1. PICK k \in K : x = Piece(k, FRAMES, {c}, FALSE)
    BY <1>1
  <2>2. x.key = k /\ x.left = FALSE
    BY <2>1, Zenon DEF Piece
  <2> QED BY <2>1, <2>2
<1> QED BY <1>2 DEF OneEach

LEMMA DrainedOnce ==
    ASSUME NEW m, IsMix(m)
    PROVE  /\ OneEach(Drained(m))
           /\ \A x \in Drained(m) : /\ x.key.mode = "Am" /\ ~x.left
                                    /\ x.by = Audible(m, x.key, Ready(m, x.key))
<1>1. \A k \in Lanes(m) : k.mode = "Am"
    BY DEF Lanes, IsMix
<1>2. \A x \in Drained(m) : \E k \in Lanes(m) :
         x = Piece(k, Ready(m, k), Audible(m, k, Ready(m, k)), FALSE)
    BY DEF Drained
<1>3. \A x \in Drained(m) :
         /\ x.key \in Lanes(m) /\ ~x.left /\ x.by = Audible(m, x.key, Ready(m, x.key))
         /\ x = Piece(x.key, Ready(m, x.key), Audible(m, x.key, Ready(m, x.key)), FALSE)
  <2> SUFFICES ASSUME NEW x \in Drained(m)
               PROVE  /\ x.key \in Lanes(m) /\ ~x.left /\ x.by = Audible(m, x.key, Ready(m, x.key))
                      /\ x = Piece(x.key, Ready(m, x.key), Audible(m, x.key, Ready(m, x.key)), FALSE)
    OBVIOUS
  <2>1. PICK k \in Lanes(m) : x = Piece(k, Ready(m, k), Audible(m, k, Ready(m, k)), FALSE)
    BY <1>2
  <2>2. x.key = k /\ x.left = FALSE /\ x.by = Audible(m, k, Ready(m, k))
    BY <2>1, Zenon DEF Piece
  <2> QED BY <2>1, <2>2
<1> QED BY <1>1, <1>3 DEF OneEach

LEMMA VoiceHeardOnce ==
    ASSUME MixesOK, HandOK, Voice
    PROVE  HeardOnce'
<1>1. /\ IsMix(MixWith)
      /\ \A k, l \in hand.listeners : k.client = l.client => k = l
    BY MixWithIs DEF Voice, HandOK
<1>2. CASE AmCollision(hand.tg)
  <2> DEFINE D == Drained(MixWith)
             A == Alone(hand.of, Wanted(hand.listeners) \ AmWanted)
  <2>1. OneEach(D) /\ \A x \in D : x.key.mode = "Am"
    BY <1>1, DrainedOnce
  <2>2. OneEach(A) /\ \A x \in A : x.key.mode # "Am"
    BY AloneOnce DEF AmWanted
  <2> HIDE DEF D, A
  <2>3. OneEach(D \cup A)
    BY <2>1, <2>2 DEF OneEach
  <2>4. Deliver(hand.of, hand.tg, hand.listeners, D \cup A)
    BY <1>2, VoiceCollided DEF D, A
  <2> QED BY <1>1, <2>3, <2>4, DeliveredOnce
<1>3. CASE ~AmCollision(hand.tg)
  <2> DEFINE F == Flushed(ammix[hand.tg])
             A == Alone(hand.of, Wanted(hand.listeners))
  <2>1. \A x \in F : x.left
    BY DEF Flushed, Piece
  <2>2. OneEach(A)
    BY AloneOnce
  <2> HIDE DEF F, A
  <2>3. OneEach(F \cup A)
    BY <2>1, <2>2 DEF OneEach
  <2>4. Deliver(hand.of, hand.tg, hand.listeners, F \cup A)
    BY <1>3, VoiceClear DEF F, A
  <2> QED BY <1>1, <2>3, <2>4, DeliveredOnce
<1> QED BY <1>2, <1>3

\* What is drained of a lane is of everybody in it.
LEMMA VoiceSummed ==
    ASSUME MixesOK, HandOK, Voice
    PROVE  RadiosAreSummed'
<1> DEFINE t == hand.tg
           m == MixWith
<1>1. t \in Route /\ IsMix(m)
    BY MixWithIs DEF Voice
<1> SUFFICES ASSUME NEW x \in out', x.piece.key.mode = "Am", ~x.piece.left, NEW s \in Radio,
                    <<x.piece.key, s>> \in DOMAIN ammix'[x.tg].queues
             PROVE  s \in x.piece.by
    BY DEF RadiosAreSummed, Summed, In
<1>2. x.tg = t
  <2>1. PICK P : Deliver(hand.of, t, hand.listeners, P)
    BY VoiceCollided, VoiceClear
  <2> QED BY <2>1, Delivered
<1>3. AmCollision(t)
  <2> SUFFICES ASSUME ~AmCollision(t) PROVE FALSE
    OBVIOUS
  <2>1. ammix'[t] = NoMix
    BY <1>1, VoiceClear DEF MixesOK
  <2> QED BY <1>2, <2>1, EmptyMix
<1>4. x.piece \in Drained(m)
  <2> DEFINE A == Alone(hand.of, Wanted(hand.listeners) \ AmWanted)
             P == Drained(m) \cup A
  <2>1. Deliver(hand.of, t, hand.listeners, P)
    BY <1>3, VoiceCollided
  <2> HIDE DEF P
  <2>2. x.piece \in P
    BY <2>1, Delivered
  <2>3. \A y \in A : y.key.mode # "Am"
    BY AloneOnce DEF AmWanted
  <2> QED BY <2>2, <2>3 DEF P
<1> DEFINE key == x.piece.key
<1>5. x.piece.by = Audible(m, key, Ready(m, key))
    BY <1>1, <1>4, DrainedOnce
<1>6. <<key, s>> \in DOMAIN m.queues
  <2>1. ammix'[t] = AfterDrain(m)
    BY <1>1, <1>3, VoiceCollided DEF MixesOK
  <2> HIDE DEF m
  <2> QED BY <1>1, <1>2, <2>1, AfterDrainIs
<1> HIDE DEF m
<1>7. m.queues[<<key, s>>] >= Ready(m, key)
    BY <1>1, <1>6, ReadyIs DEF IsMix
<1> QED BY <1>5, <1>6, <1>7 DEF Audible

LEMMA ConsoleHeardOnce ==
    ASSUME AudioTypes, NEW d \in Console, ConsoleVoice(d)
    PROVE  HeardOnce' /\ RadiosAreSummed'
<1> DEFINE t == Destination(d)
           L == Listeners(t, d)
           A == Alone(d, Wanted(L))
<1>1. d \notin Radio /\ t \in Route
    BY AudioAssumption, DestinationIsRoute DEF ConsoleVoice, Speaks, Client
<1>2. Deliver(d, t, L, A) /\ OneEach(A)
    BY AloneOnce DEF ConsoleVoice
<1>3. \A k, l \in L : k.client = l.client => k = l
    BY <1>1, ListenersOnce
<1> HIDE DEF A, L, t
<1>4. HeardOnce'
    BY <1>2, <1>3, DeliveredOnce
<1>5. RadiosAreSummed'
    BY <1>1, <1>2, Delivered DEF RadiosAreSummed
<1> QED BY <1>4, <1>5

\* What is not a packet sends nothing.
LEMMA SilentKeeps ==
    ASSUME Silent
    PROVE  HeardOnce' /\ RadiosAreSummed'
BY DEF Silent, HeardOnce, RadiosAreSummed

\* Time passes for the clocks of the mixers only.
LEMMA TickMixes ==
    ASSUME MixesOK, Tick
    PROVE  MixesOK'
<1>1. /\ ammix' = [t \in Route |-> ammix'[t]]
      /\ \A t \in Route : \E s : ammix'[t] = [ammix[t] EXCEPT !.seen = s]
  <2> DEFINE next(t) == [ammix[t] EXCEPT !.seen =
                [r \in DOMAIN @ |-> Min({@[r] + STEP, AM_GONE_MS + 1})]]
  <2>1. ammix' = [t \in Route |-> next(t)]
    BY DEF Tick
  <2>2. \A t \in Route : \E s : next(t) = [ammix[t] EXCEPT !.seen = s]
    OBVIOUS
  <2> HIDE DEF next
  <2> QED BY <2>1, <2>2
<1>2. ASSUME NEW t \in Route
      PROVE  ammix'[t].queues = ammix[t].queues /\ IsMix(ammix'[t])
  <2>1. PICK s : ammix'[t] = [ammix[t] EXCEPT !.seen = s]
    BY <1>1
  <2>2. IsMix(ammix[t])
    BY DEF MixesOK
  <2> DEFINE q == ammix[t].queues
             e == ammix[t].seen
  <2>3. ammix[t] = [queues |-> q, seen |-> e]
    BY <2>2 DEF IsMix
  <2> HIDE DEF q, e
  <2>4. ammix'[t] = [queues |-> q, seen |-> s]
    BY <2>1, <2>3
  <2>5. ammix'[t].queues = q /\ ammix'[t].seen = s
    BY <2>4
  <2> QED BY <2>2, <2>4, <2>5 DEF q, IsMix
<1> QED BY <1>1, <1>2 DEF MixesOK

LEMMA TypesPreserved ==
    ASSUME AudioTypes, [Next]_avars
    PROVE  AudioTypes'
<1> USE AudioAssumption DEF AudioTypes, table
<1>1. ASSUME NEW r \in Radio, VoiceArrives(r) PROVE AudioTypes'
    BY <1>1 DEF VoiceArrives
<1>2. ASSUME Voice PROVE AudioTypes'
    BY <1>2 DEF Voice
<1>3. ASSUME NEW d \in Console, ConsoleVoice(d) PROVE AudioTypes'
    BY <1>3 DEF ConsoleVoice
<1>4. ASSUME NEW c \in Client, Release(c) PROVE AudioTypes'
    BY <1>4 DEF Release
<1>5. ASSUME NEW c \in Client, NEW t \in Route, Press(c, t) PROVE AudioTypes'
    BY <1>5 DEF Press
<1>6. CASE Reorganise \/ Tick \/ UNCHANGED avars
    BY <1>6 DEF Reorganise, Tick, avars
<1> QED BY <1>1, <1>2, <1>3, <1>4, <1>5, <1>6 DEF Next

\* A packet that comes finds room in the mixer of its route.
LEMMA ArrivesOK ==
    ASSUME AudioTypes, NEW r \in Radio, VoiceArrives(r)
    PROVE  HandOK'
<1> DEFINE t == Destination(r)
<1>1. t \in Route
    BY DestinationIsRoute DEF VoiceArrives, Speaks, Client
<1>2. hand' = [of |-> r, tg |-> t, listeners |-> Listeners(t, r)] /\ ammix' = ammix
    BY DEF VoiceArrives
<1>3. \A k, l \in Listeners(t, r) : k.client = l.client => k = l
    BY <1>1, ListenersOnce
<1>4. \A k \in DOMAIN ammix[t].queues : k[2] = r => ammix[t].queues[k] <= BACKLOG
    BY DEF VoiceArrives
<1>5. hand'.of = r /\ hand'.tg = t /\ hand'.listeners = Listeners(t, r)
    BY <1>2
<1> HIDE DEF t
<1> QED BY <1>1, <1>2, <1>3, <1>4, <1>5 DEF HandOK

LEMMA AudioInductive ==
    Spec => []AudioInv
<1>1. Init => AudioInv
  <2> SUFFICES ASSUME Init PROVE AudioInv
    OBVIOUS
  <2>1. AudioTypes /\ HandOK /\ HeardOnce /\ RadiosAreSummed
    BY DEF Init, AudioTypes, HandOK, HeardOnce, RadiosAreSummed
  <2>2. ammix = [t \in Route |-> NoMix]
    BY DEF Init
  <2>3. MixesOK
    BY <2>2, EmptyMix, Zenon DEF MixesOK
  <2> QED BY <2>1, <2>3 DEF AudioInv
<1>2. AudioInv /\ [Next]_avars => AudioInv'
  <2> DEFINE Kept == MixesOK' /\ HandOK' /\ HeardOnce' /\ RadiosAreSummed'
  <2> SUFFICES ASSUME AudioInv, [Next]_avars PROVE AudioInv'
    OBVIOUS
  <2>1. AudioTypes /\ MixesOK /\ HandOK /\ AudioTypes'
    BY TypesPreserved DEF AudioInv
  <2>2. ASSUME UNCHANGED ammix PROVE MixesOK'
    BY <2>1, <2>2 DEF MixesOK
  <2>3. ASSUME UNCHANGED <<ammix, hand>> PROVE HandOK'
    BY <2>1, <2>3 DEF HandOK
  <2>4. ASSUME NEW r \in Radio, VoiceArrives(r) PROVE Kept
    BY <2>1, <2>2, <2>4, ArrivesOK, SilentKeeps DEF VoiceArrives
  <2>5. ASSUME Voice PROVE Kept
    <3>1. HandOK'
      BY <2>5 DEF Voice, HandOK
    <3> QED BY <2>1, <2>5, <3>1, VoiceMixes, VoiceHeardOnce, VoiceSummed
  <2>6. ASSUME NEW d \in Console, ConsoleVoice(d) PROVE Kept
    BY <2>1, <2>2, <2>3, <2>6, ConsoleHeardOnce DEF ConsoleVoice
  <2>7. ASSUME Tick PROVE Kept
    <3>1. HandOK'
      BY <2>7 DEF Tick, HandOK
    <3> QED BY <2>1, <2>7, <3>1, TickMixes, SilentKeeps DEF Tick
  <2>8. ASSUME Reorganise \/ \E c \in Client : Release(c) \/ \E t \in Route : Press(c, t)
        PROVE  Kept
    BY <2>2, <2>3, <2>8, SilentKeeps DEF Reorganise, Release, Press
  <2>9. ASSUME UNCHANGED avars PROVE Kept
    <3>1. UNCHANGED <<ammix, hand>> /\ UNCHANGED out
      BY <2>9 DEF avars
    <3>2. HeardOnce' /\ RadiosAreSummed'
      BY <3>1 DEF AudioInv, HeardOnce, RadiosAreSummed, Summed, In
    <3> QED BY <2>2, <2>3, <3>1, <3>2
  <2>10. Kept
    BY <2>4, <2>5, <2>6, <2>7, <2>8, <2>9 DEF Next
  <2> QED BY <2>1, <2>10 DEF AudioInv
<1> QED
    BY <1>1, <1>2, PTL DEF Spec

-------------------------------------------------------------------------------
\* Whoever listens on several sides of a patch is sent one rendering of a packet
\* (listeners_across picks one route for each client; "must not be sent the same
\* audio twice").
THEOREM NobodyHearsTwice ==
    Spec => []HeardOnce
<1>1. AudioInv => HeardOnce
    BY DEF AudioInv
<1> QED
    BY <1>1, AudioInductive, PTL

\* While radios collide on the route they pressed, whatever comes out of a lane
\* has everybody in it who is queued there (AmMix::drain takes what the shortest
\* queue has).
THEOREM CollisionsAreSummed ==
    Spec => []RadiosAreSummed
<1>1. AudioInv => RadiosAreSummed
    BY DEF AudioInv
<1> QED
    BY <1>1, AudioInductive, PTL

-------------------------------------------------------------------------------
\* Only Voice sends the packet in hand.
LEMMA SentIsVoice ==
    ASSUME Next, Sent
    PROVE  Voice
BY DEF Sent, Next, VoiceArrives, ConsoleVoice, Release, Press, Reorganise, Tick

\* What a drained lane still holds, it holds for want of a radio with nothing in
\* it, and every radio in it has been heard of.
LEMMA VoiceWaits ==
    ASSUME MixesOK, HandOK, Voice, NEW key \in HeldBack(hand.tg)
    PROVE  \E r \in Awaited(ammix'[hand.tg], key) : ammix'[hand.tg].seen[r] <= AM_GONE_MS
<1> DEFINE t == hand.tg
           m == MixWith
<1>1. /\ t \in Route /\ IsMix(m)
      /\ \A k \in DOMAIN m.queues : m.seen[k[2]] <= AM_GONE_MS
    BY MixWithIs DEF Voice
<1>2. PICK k \in DOMAIN ammix'[t].queues : k[1] = key
    BY DEF HeldBack, Lanes
<1>3. ammix'[t] = AfterDrain(m)
  <2>1. CASE AmCollision(t)
    BY <1>1, <2>1, VoiceCollided DEF MixesOK
  <2>2. CASE ~AmCollision(t)
    <3>1. ammix'[t] = NoMix
      BY <1>1, <2>2, VoiceClear DEF MixesOK
    <3> QED BY <1>2, <3>1, EmptyMix
  <2> QED BY <2>1, <2>2
<1> HIDE DEF m, t
<1>4. /\ DOMAIN ammix'[t].queues = DOMAIN m.queues /\ ammix'[t].seen = m.seen
      /\ \A j \in DOMAIN m.queues : ammix'[t].queues[j] = m.queues[j] - Ready(m, j[1])
    BY <1>1, <1>3, AfterDrainIs
<1>5. PICK j \in DOMAIN m.queues : j[1] = key /\ m.queues[j] = Ready(m, key)
  <2>1. k \in DOMAIN m.queues
    BY <1>2, <1>4
  <2> QED BY <1>1, <1>2, <2>1, ReadyIs
<1>6. j = <<key, j[2]>> /\ j[2] \in Radio /\ m.queues[j] \in Nat
    BY <1>1, <1>5 DEF IsMix
<1>7. ammix'[t].queues[j] = 0
    BY <1>4, <1>5, <1>6
<1>8. j[2] \in Awaited(ammix'[t], key)
    BY <1>4, <1>6, <1>7 DEF Awaited
<1>9. ammix'[t].seen[j[2]] <= AM_GONE_MS
    BY <1>1, <1>4
<1> QED BY <1>8, <1>9 DEF t

\* The end of a collision flushes all that is queued, and what a packet into one
\* discards is of who had gone.
LEMMA VoiceFlushes ==
    ASSUME MixesOK, HandOK, Voice,
           NEW k \in DOMAIN ammix[hand.tg].queues, NEW l \in hand.listeners,
           ammix[hand.tg].queues[k] > 0, k \notin DOMAIN ammix'[hand.tg].queues,
           k[2] \in Present(ammix[hand.tg].seen), KeyOf(l.sink) = k[1]
    PROVE  \E x \in out' : x.to = l.client /\ k[2] \in x.piece.by /\ x.piece.left
<1> DEFINE t == hand.tg
           m == ammix[t]
           n == Max(Lengths(m, k[1]))
           piece == Piece(k[1], n, Audible(m, k[1], 1), TRUE)
<1>1. /\ t \in Route /\ IsMix(MixWith)
      /\ \A j \in DOMAIN m.queues : j[2] \in Present(m.seen) => j \in DOMAIN MixWith.queues
    BY MixWithIs DEF Voice
<1>2. IsMix(m) /\ \A j \in DOMAIN m.queues : m.queues[j] <= BACKLOG + FRAMES
    BY <1>1 DEF MixesOK
<1>3. ~AmCollision(t)
  <2> SUFFICES ASSUME AmCollision(t) PROVE FALSE
    OBVIOUS
  <2>1. ammix'[t] = AfterDrain(MixWith)
    BY <1>1, VoiceCollided DEF MixesOK
  <2>2. DOMAIN ammix'[t].queues = DOMAIN MixWith.queues
    BY <1>1, <2>1, AfterDrainIs
  <2> QED BY <1>1, <2>2
<1>4. k = <<k[1], k[2]>> /\ k[2] \in Radio /\ m.queues[k] \in Nat
    BY <1>2 DEF IsMix
<1>5. n > 0
  <2> DEFINE L == Lengths(m, k[1])
  <2> DEFINE top == BACKLOG + FRAMES
  <2>0. top \in Nat
    BY AudioAssumption DEF FRAMES
  <2>1. L \in SUBSET (0..top) /\ m.queues[k] \in L
    BY <1>2, <2>0 DEF Lengths, IsMix
  <2> HIDE DEF top
  <2>2. Max(L) \in L /\ m.queues[k] <= Max(L)
    <3> HIDE DEF L
    <3> QED BY <2>0, <2>1, MaxIs
  <2> HIDE DEF L
  <2>3. Max(L) \in Nat
    <3>1. \A i \in 0..top : i \in Nat
      OBVIOUS
    <3> QED BY <2>1, <2>2, <3>1, Zenon
  <2> QED BY <1>4, <2>2, <2>3 DEF L
<1> HIDE DEF n
<1>6. piece \in Flushed(m)
  <2>1. k[1] \in Lanes(m)
    BY DEF Lanes
  <2> QED BY <1>5, <2>1 DEF Flushed, n
<1>7. k[2] \in Audible(m, k[1], 1)
    BY <1>4 DEF Audible
<1>8. piece.key = k[1] /\ piece.by = Audible(m, k[1], 1) /\ piece.left = TRUE
    BY DEF Piece
<1> HIDE DEF piece
<1> DEFINE x == [piece |-> piece, tg |-> t, of |-> hand.of, to |-> l.client]
<1>9. x \in out'
  <2> DEFINE P == Flushed(m) \cup Alone(hand.of, Wanted(hand.listeners))
  <2>1. Deliver(hand.of, t, hand.listeners, P) /\ piece \in P
    BY <1>3, <1>6, VoiceClear
  <2> HIDE DEF P, m
  <2>2. l \in {y \in hand.listeners : KeyOf(y.sink) = piece.key}
    BY <1>8
  <2> QED BY <2>1, <2>2 DEF Deliver
<1>10. x.to = l.client /\ x.piece = piece
    OBVIOUS
<1> QED BY <1>7, <1>8, <1>9, <1>10

\* What a packet leaves held back on a lane waits for a radio heard of within
\* AM_GONE_MS, never for one that let go (AmMix::drain).
THEOREM NobodyStalls ==
    Spec => WaitsForThePresent
<1>1. AudioInv /\ [Next]_avars =>
        [Sent => \A key \in HeldBack(hand.tg) : \E r \in Awaited(ammix'[hand.tg], key) :
                   ammix'[hand.tg].seen[r] <= AM_GONE_MS]_avars
  <2> SUFFICES ASSUME AudioInv, Next, Sent, NEW key \in HeldBack(hand.tg)
               PROVE  \E r \in Awaited(ammix'[hand.tg], key) :
                         ammix'[hand.tg].seen[r] <= AM_GONE_MS
    OBVIOUS
  <2> QED BY SentIsVoice, VoiceWaits DEF AudioInv
<1> QED
    BY <1>1, AudioInductive, PTL DEF Spec, WaitsForThePresent

\* What leaves a queue is heard by all who listen on that lane, or is of a radio
\* that had gone (AmMix::flush, and the retiring in AmMix::drain).
THEOREM NobodyIsClipped ==
    Spec => NothingClipped
<1>1. AudioInv /\ [Next]_avars =>
        [Sent =>
            LET t == hand.tg
            IN  \A k \in DOMAIN ammix[t].queues, l \in hand.listeners :
                  /\ ammix[t].queues[k] > 0 /\ k \notin DOMAIN ammix'[t].queues
                  /\ k[2] \in Present(ammix[t].seen) /\ KeyOf(l.sink) = k[1]
                  => \E x \in out' : x.to = l.client /\ k[2] \in x.piece.by /\ x.piece.left]_avars
  <2> SUFFICES ASSUME AudioInv, Next, Sent,
                      NEW k \in DOMAIN ammix[hand.tg].queues, NEW l \in hand.listeners,
                      ammix[hand.tg].queues[k] > 0,
                      k \notin DOMAIN ammix'[hand.tg].queues,
                      k[2] \in Present(ammix[hand.tg].seen), KeyOf(l.sink) = k[1]
               PROVE  \E x \in out' : x.to = l.client /\ k[2] \in x.piece.by /\ x.piece.left
    OBVIOUS
  <2> QED BY SentIsVoice, VoiceFlushes DEF AudioInv
<1> QED
    BY <1>1, AudioInductive, PTL DEF Spec, NothingClipped
===============================================================================
