---------------------------- MODULE RecorderProofs ----------------------------
(***************************************************************************)
(* What is on disk can be trusted, for any day length, window, threshold   *)
(* and number of calls: an inductive invariant that relates the recordings *)
(* that are open to the files, and every file to the clock and the counter *)
(* a new name is made of.                                                  *)
(***************************************************************************)
EXTENDS Recorder, FiniteSetTheorems, WellFoundedInduction, TLAPS

Recording == [id : Id, file : BOOLEAN, samples : Nat]

RecTypes ==
    /\ now \in 0..END /\ stopped \in 0..now /\ running \in BOOLEAN
    /\ begun \in 0..CALLS /\ seq \in 0..begun
    /\ pruned \in 0..Today
    /\ pcm \subseteq Id \X Nat
    /\ sidecars \subseteq Id \cup [id : Id, samples : Nat]
    /\ open \in [Tg -> Recording \cup {None}]
    /\ \A t \in Tg : open[t] # None => running /\ open[t].id.tg = t

\* An id was made before the one a call that begins now would be given, or in a
\* second the node was started again in.
Past(id) ==
    /\ id.at <= now
    /\ running => id.at < now \/ id.seq <= seq \/ id.at \in again
    /\ ~running => id.at <= stopped

AllPast ==
    /\ \A x \in pcm : Past(x[1])
    /\ \A s \in sidecars : Past(IdOf(s))
    /\ \A t \in Tg : open[t] # None => Past(open[t].id)

OneFileEach == \A x \in pcm, y \in pcm : x[1] = y[1] => x = y

\* What a prune could not remove is past the window, today as well as then.
StuckArePast ==
    halved \subseteq stuck /\ \A d \in stuck : d \in Nat /\ d < Cutoff

\* What is open is not listed yet ...
OpenIsUnlisted ==
    \A t \in Tg, s \in sidecars :
        open[t] # None => IdOf(s) # open[t].id \/ open[t].id.at \in again

\* A prune got at the directory.
Got(id) ==
    /\ Dir(id) < Today
    /\ Dir(id) \in halved \/ \A x \in pcm : Dir(x[1]) # Dir(id)

\* ... and is wholly in its file, or a prune got at its directory.
OpenIsWritten ==
    \A t \in Tg : open[t] # None /\ open[t].file =>
        <<open[t].id, 2 * open[t].samples>> \in pcm \/ Got(open[t].id)

RecInv ==
    /\ RecTypes /\ AllPast /\ StuckArePast /\ OneFileEach /\ OpenIsUnlisted
    /\ OpenIsWritten /\ ListedIsPlayable /\ RetentionKept

-------------------------------------------------------------------------------
\* Days are counted by naturals, and a later time is on no earlier day.
LEMMA DaysInOrder ==
    ASSUME NEW a \in Nat, NEW b \in Nat
    PROVE  DayOf(a) \in Nat /\ (a <= b => DayOf(a) <= DayOf(b))
BY RecorderAssumption DEF DayOf

\* A sidecar that parses is not one that is torn.
LEMMA MetaIsNoId ==
    ASSUME NEW call \in Recording
    PROVE  Meta(call) \in [id : Id, samples : Nat] /\ Meta(call) \notin Id
BY DEF Meta, Recording, Id

\* An id of the model is made of naturals, and what is on disk or open has one.
LEMMA IdParts ==
    ASSUME NEW id \in Id
    PROVE  id.at \in Nat /\ id.seq \in Nat
BY RecorderAssumption DEF Id

LEMMA IdsThereAre ==
    ASSUME RecTypes
    PROVE  /\ \A x \in pcm : x[1] \in Id /\ x[2] \in Nat /\ x = <<x[1], x[2]>>
           /\ \A s \in sidecars : IdOf(s) \in Id
           /\ \A t \in Tg : open[t] # None => open[t] \in Recording /\ open[t].id \in Id
BY DEF RecTypes, IdOf, Recording

\* What the end of a call does to the disk: nothing, or its file goes, or a
\* sidecar of it appears in a directory that stands.
LEMMA EndDoes ==
    ASSUME RecTypes, NEW t \in Tg, End(t)
    PROVE  /\ running /\ open[t] # None /\ open[t] \in Recording
           /\ open' = [open EXCEPT ![t] = None]
           /\ UNCHANGED <<now, running, stopped, seq, pruned, stuck, halved, again, begun>>
           /\ \/ UNCHANGED <<pcm, sidecars>>
              \/ pcm' = Without(open[t].id) /\ sidecars' = sidecars
              \/ /\ open[t].file /\ DirStands(open[t].id) /\ pcm' = pcm
                 /\ \E x \in {open[t].id, Meta(open[t])} : sidecars' = Written(open[t], x)
<1> DEFINE call == open[t]
<1>1. /\ running /\ call # None /\ call \in Recording
      /\ open' = [open EXCEPT ![t] = None]
      /\ UNCHANGED <<now, running, stopped, seq, pruned, stuck, halved, again, begun>>
    BY DEF End, RecTypes, past
<1>2. CASE ~call.file
  <2>1. UNCHANGED disk
    BY <1>1, <1>2 DEF End
  <2> QED BY <1>1, <2>1 DEF disk
<1>3. CASE call.file /\ call.samples < SHORT
  <2>1. ~(call.samples >= SHORT)
    BY <1>1, <1>3, RecorderAssumption DEF Recording
  <2>2. pcm' \in {pcm, Without(call.id)} /\ UNCHANGED sidecars
    BY <1>3, <2>1 DEF End
  <2> QED BY <1>1, <2>2
<1>4. CASE call.file /\ call.samples >= SHORT
  <2>1. ~(call.samples < SHORT)
    BY <1>1, <1>4, RecorderAssumption DEF Recording
  <2>2. /\ UNCHANGED pcm
        /\ \/ UNCHANGED sidecars
           \/ /\ DirStands(call.id)
              /\ sidecars' \in {Written(call, x) : x \in {call.id, Meta(call)}}
    BY <1>4, <2>1 DEF End
  <2> QED BY <1>1, <1>4, <2>2
<1> QED BY <1>1, <1>2, <1>3, <1>4, RecorderAssumption DEF Recording

\* What sidecars there are then.
LEMMA WrittenIs ==
    ASSUME NEW call \in Recording, NEW x \in {call.id, Meta(call)}
    PROVE  /\ IdOf(x) = call.id /\ x \in Written(call, x)
           /\ \A s \in Written(call, x) : s \in sidecars \/ s = x
           /\ \A s \in sidecars : s \in Written(call, x) \/ IdOf(s) = IdOf(x)
<1>1. IdOf(x) = call.id
    BY MetaIsNoId DEF IdOf, Meta, Recording
<1> QED BY <1>1 DEF Written

\* What a push does to the files: the file of its call grows, and no other.
LEMMA PushDoes ==
    ASSUME RecTypes, NEW t \in Tg, Push(t)
    PROVE  /\ running /\ open[t] # None /\ open[t] \in Recording /\ open[t].file
           /\ UNCHANGED <<now, running, stopped, seq, sidecars, pruned, stuck, halved, again, begun>>
           /\ \E n \in 0..2 :
                 /\ \A x \in pcm : x[1] # open[t].id => x \in pcm'
                 /\ \A x \in pcm : x[1] = open[t].id => <<x[1], x[2] + n>> \in pcm'
                 /\ \A y \in pcm' :
                       \/ y \in pcm /\ y[1] # open[t].id
                       \/ \E x \in pcm : x[1] = open[t].id /\ y = <<x[1], x[2] + n>>
                 /\ \E next \in Recording :
                       /\ open' = [open EXCEPT ![t] = next]
                       /\ next.id = open[t].id
                       /\ next.file => n = 2 /\ next.samples = open[t].samples + 1
<1> DEFINE held     == {x \in pcm : x[1] = open[t].id}
           grown(n) == (pcm \ held) \cup {<<x[1], x[2] + n>> : x \in held}
<1>1. /\ running /\ open[t] # None /\ open[t] \in Recording /\ open[t].file
      /\ UNCHANGED <<now, running, stopped, seq, sidecars, pruned, stuck, halved, again, begun>>
    BY DEF Push, RecTypes, past
<1>2. ASSUME NEW n \in 0..2, pcm' = grown(n)
      PROVE  /\ \A x \in pcm : x[1] # open[t].id => x \in pcm'
             /\ \A x \in pcm : x[1] = open[t].id => <<x[1], x[2] + n>> \in pcm'
             /\ \A y \in pcm' :
                   \/ y \in pcm /\ y[1] # open[t].id
                   \/ \E x \in pcm : x[1] = open[t].id /\ y = <<x[1], x[2] + n>>
    BY <1>2
<1>3. CASE open' = [open EXCEPT ![t].samples = @ + 1] /\ pcm' = grown(2)
  <2> DEFINE next == [open[t] EXCEPT !.samples = @ + 1]
  <2>1. /\ next \in Recording /\ next.id = open[t].id /\ next.samples = open[t].samples + 1
        /\ open' = [open EXCEPT ![t] = next]
    BY <1>1, <1>3 DEF Recording, RecTypes
  <2>2. 2 \in 0..2
    OBVIOUS
  <2> HIDE DEF next, grown
  <2> QED BY <1>1, <1>2, <1>3, <2>1, <2>2
<1>4. CASE /\ open' = [open EXCEPT ![t] = AfterFailure(open[t])]
           /\ \E n \in {0, 1} : pcm' = grown(n)
  <2> DEFINE next == [open[t] EXCEPT !.file = FALSE]
  <2>1. /\ next \in Recording /\ next.id = open[t].id /\ ~next.file
        /\ open' = [open EXCEPT ![t] = next]
    BY <1>1, <1>4 DEF Recording, RecTypes, AfterFailure
  <2>2. PICK n \in 0..2 : pcm' = grown(n)
    BY <1>4
  <2> HIDE DEF next, grown
  <2> QED BY <1>1, <1>2, <2>1, <2>2
<1> QED BY <1>3, <1>4 DEF Push

\* What a prune does: it takes things of days past the window only, and of a day
\* it leaves anything of, it notes that, and whether it took anything.
LEMMA PrunedDoes ==
    ASSUME RecTypes, StuckArePast, Pruned
    PROVE  /\ Today \in Nat /\ Cutoff \in 0..Today /\ Today - DAYS <= Cutoff
           /\ \A d \in Nat : d < Cutoff => d < Today - DAYS
           /\ pcm' \subseteq pcm /\ sidecars' \subseteq sidecars
           /\ \A id \in {x[1] : x \in pcm \ pcm'} \cup {IdOf(s) : s \in sidecars \ sidecars'} :
                 Dir(id) < Cutoff
           /\ \A id \in {x[1] : x \in pcm'} \cup {IdOf(s) : s \in sidecars'} :
                 Dir(id) < Cutoff =>
                    /\ Dir(id) \in stuck'
                    /\ Dir(id) \in halved => Dir(id) \in halved'
                    /\ \A y \in pcm \ pcm' : Dir(y[1]) = Dir(id) => Dir(id) \in halved'
           /\ halved' \subseteq stuck' /\ \A d \in stuck' : d \in Nat /\ d < Cutoff
           /\ pruned' = Today
<1>1. Today \in Nat
    BY DaysInOrder, RecorderAssumption DEF RecTypes, Today
<1>2. /\ Cutoff \in 0..Today /\ Today - DAYS <= Cutoff
      /\ \A d \in Nat : d < Cutoff => d < Today - DAYS
    BY <1>1, RecorderAssumption DEF Cutoff
<1>3. \A d \in Due : d \in Nat /\ d < Cutoff
  <2>1. \A id \in Id : Dir(id) \in Nat
    BY IdParts, DaysInOrder DEF Dir
  <2>2. (\A x \in pcm : x[1] \in Id) /\ \A s \in sidecars : IdOf(s) \in Id
    BY IdsThereAre
  <2>3. \A d \in halved : d \in Nat
    BY DEF StuckArePast
  <2> QED BY <2>1, <2>2, <2>3 DEF Due
<1>4. /\ \A x \in pcm : Dir(x[1]) < Cutoff => Dir(x[1]) \in Due
      /\ \A s \in sidecars : Dir(IdOf(s)) < Cutoff => Dir(IdOf(s)) \in Due
    BY DEF Due
<1>5. PICK failed \in SUBSET Due, audio \in SUBSET pcm, meta \in SUBSET sidecars :
        LET lost == {x[1] : x \in pcm \ audio} \cup {IdOf(s) : s \in sidecars \ meta}
        IN  /\ \A x \in audio : Dir(x[1]) \in Due => Dir(x[1]) \in failed
            /\ \A s \in meta : Dir(IdOf(s)) \in Due => Dir(IdOf(s)) \in failed
            /\ \A id \in lost : Dir(id) \in Due
            /\ pcm' = audio /\ sidecars' = meta
            /\ halved' = {d \in failed : d \in halved \/ \E id \in lost : Dir(id) = d}
            /\ stuck' = failed /\ pruned' = Today
    BY DEF Pruned
<1>6. /\ halved' \subseteq stuck' /\ \A d \in stuck' : d \in Nat /\ d < Cutoff
      /\ pcm' \subseteq pcm /\ sidecars' \subseteq sidecars /\ pruned' = Today
      /\ \A id \in {x[1] : x \in pcm \ pcm'} \cup {IdOf(s) : s \in sidecars \ sidecars'} :
            Dir(id) < Cutoff
    BY <1>3, <1>5
<1>7. ASSUME NEW id \in {x[1] : x \in pcm'} \cup {IdOf(s) : s \in sidecars'}, Dir(id) < Cutoff
      PROVE  /\ Dir(id) \in stuck'
             /\ Dir(id) \in halved => Dir(id) \in halved'
             /\ \A y \in pcm \ pcm' : Dir(y[1]) = Dir(id) => Dir(id) \in halved'
  <2>1. Dir(id) \in failed
    BY <1>4, <1>5, <1>7
  <2> QED BY <1>5, <2>1
<1> QED BY <1>1, <1>2, <1>6, <1>7

LEMMA DirsAreDays ==
    ASSUME RecTypes, NEW id \in Id
    PROVE  /\ Today \in Nat /\ Dir(id) \in Nat
           /\ id.at <= now => Dir(id) <= Today
<1>1. now \in Nat /\ id.at \in Nat
    BY IdParts, RecorderAssumption DEF RecTypes
<1> QED BY <1>1, DaysInOrder DEF Dir, Today

-------------------------------------------------------------------------------

\* The name of a call that begins, and what is done with it.
LEMMA NameOf ==
    ASSUME RecTypes, NEW t \in Tg, Begin(t)
    PROVE  LET id == [at |-> now, tg |-> t, seq |-> NextSeq]
           IN  /\ id \in Id /\ id.at = now /\ Without(id) \subseteq pcm
               /\ \A x \in pcm : x \in Without(id) \/ x[1] = id
               /\ \A u \in Tg \ {t} : open[u] # None => open[u].id # id
               /\ \E made \in BOOLEAN :
                     /\ open' = [open EXCEPT ![t] = [id |-> id, file |-> made, samples |-> 0]]
                     /\ pcm' = IF made THEN Without(id) \cup {<<id, 0>>} ELSE pcm
               /\ UNCHANGED <<now, running, stopped, sidecars, pruned, stuck, halved, again>>
<1> DEFINE id == [at |-> now, tg |-> t, seq |-> NextSeq]
<1>1. id \in Id /\ id.at = now /\ id.tg = t
    BY RecorderAssumption DEF Begin, RecTypes, Id, NextSeq
<1>2. /\ \E made \in BOOLEAN :
            /\ open' = [open EXCEPT ![t] = [id |-> id, file |-> made, samples |-> 0]]
            /\ pcm' = IF made THEN Without(id) \cup {<<id, 0>>} ELSE pcm
      /\ UNCHANGED <<now, running, stopped, sidecars, pruned, stuck, halved, again>>
    BY DEF Begin, past
<1> HIDE DEF id
<1>3. \A u \in Tg \ {t} : open[u] # None => open[u].id # id
    BY <1>1 DEF RecTypes
<1>4. Without(id) \subseteq pcm /\ \A x \in pcm : x \in Without(id) \/ x[1] = id
    BY DEF Without
<1> QED BY <1>1, <1>2, <1>3, <1>4 DEF id

\* Every action keeps the types.
LEMMA TypesPreserved ==
    ASSUME RecTypes, StuckArePast, [Next]_rvars
    PROVE  RecTypes'
<1> USE RecorderAssumption, DaysInOrder DEF RecTypes, Today, past
<1>1. ASSUME NEW t \in Tg, Begin(t) PROVE RecTypes'
  <2> DEFINE id == [at |-> now, tg |-> t, seq |-> NextSeq]
  <2>1. /\ id \in Id /\ id.tg = t /\ Without(id) \subseteq pcm
        /\ UNCHANGED <<now, running, stopped, sidecars, pruned>>
        /\ seq' = seq + 1 /\ begun' = begun + 1 /\ begun < CALLS /\ running
    BY <1>1, NameOf DEF Begin, NextSeq
  <2>2. PICK made \in BOOLEAN :
            /\ open' = [open EXCEPT ![t] = [id |-> id, file |-> made, samples |-> 0]]
            /\ pcm' = IF made THEN Without(id) \cup {<<id, 0>>} ELSE pcm
    BY <1>1, NameOf
  <2> HIDE DEF id
  <2> QED BY <2>1, <2>2 DEF Recording
<1>2. ASSUME NEW t \in Tg, Push(t) PROVE RecTypes'
    BY <1>2, PushDoes
<1>3. ASSUME NEW t \in Tg, End(t) PROVE RecTypes'
  <2>1. /\ Meta(open[t]) \in [id : Id, samples : Nat] /\ open[t].id \in Id
        /\ open[t] \in Recording
    BY <1>3, EndDoes, MetaIsNoId DEF Recording
  <2>2. sidecars' \subseteq Id \cup [id : Id, samples : Nat]
    BY <1>3, <2>1, EndDoes, WrittenIs
  <2> QED BY <1>3, <2>2, EndDoes DEF Without
<1>4. ASSUME Prune PROVE RecTypes'
    BY <1>4, PrunedDoes DEF Prune
<1>5. ASSUME Tick PROVE RecTypes'
    BY <1>5 DEF Tick, disk
<1>6. ASSUME Stop PROVE RecTypes'
  <2>1. open' \in [Tg -> Recording \cup {None}] /\ \A t \in Tg : open'[t] = None
    BY <1>6 DEF Stop, Closed
  <2>2. UNCHANGED <<now, begun, seq, pruned, disk>> /\ stopped' = now /\ running' = FALSE
    BY <1>6 DEF Stop
  <2> HIDE DEF Today
  <2>3. Today' = Today
    BY <2>2 DEF Today
  <2>4. now' \in 0..END /\ stopped' \in 0..now'
    BY <2>2
  <2>5. begun' \in 0..CALLS /\ seq' \in 0..begun' /\ pruned' \in 0..Today'
    BY <2>2, <2>3
  <2>6. pcm' \subseteq Id \X Nat /\ sidecars' \subseteq Id \cup [id : Id, samples : Nat]
    BY <2>2 DEF disk
  <2>7. running' \in BOOLEAN
    BY <2>2, Zenon
  <2> QED BY <2>1, <2>4, <2>5, <2>6, <2>7
<1>7. ASSUME Start PROVE RecTypes'
    BY <1>7, PrunedDoes DEF Start
<1>8. CASE UNCHANGED rvars
    BY <1>8 DEF rvars, disk
<1> QED
    BY <1>1, <1>2, <1>3, <1>4, <1>5, <1>6, <1>7, <1>8 DEF Next

\* Neither the clock nor the counter goes back, but for the counter at a restart,
\* which the clock has outlived, or else the second is one of those.
LEMMA PastStays ==
    ASSUME RecTypes, StuckArePast, NEW id \in Id, Past(id), [Next]_rvars
    PROVE  Past(id)'
<1> USE RecorderAssumption, IdParts DEF RecTypes, Past, past
<1>1. ASSUME NEW t \in Tg, Begin(t) PROVE Past(id)'
    BY <1>1 DEF Begin, NextSeq, Without
<1>2. ASSUME NEW t \in Tg, Push(t) PROVE Past(id)'
    BY <1>2, PushDoes
<1>3. ASSUME NEW t \in Tg, End(t) PROVE Past(id)'
    BY <1>3, EndDoes DEF Without
<1>4. ASSUME Prune PROVE Past(id)'
    BY <1>4, PrunedDoes DEF Prune
<1>5. ASSUME Tick PROVE Past(id)'
    BY <1>5 DEF Tick, disk
<1>6. ASSUME Stop PROVE Past(id)'
    BY <1>6 DEF Stop, Closed, disk
<1>7. ASSUME Start PROVE Past(id)'
    BY <1>7, PrunedDoes DEF Start
<1>8. CASE UNCHANGED rvars
    BY <1>8 DEF rvars, disk
<1> QED
    BY <1>1, <1>2, <1>3, <1>4, <1>5, <1>6, <1>7, <1>8 DEF Next

\* A new name is later, or counted higher, than every name there is.
LEMMA PastPreserved ==
    ASSUME RecTypes, StuckArePast, AllPast, [Next]_rvars
    PROVE  AllPast'
<1>1. \A id \in Id : Past(id) => Past(id)'
    BY PastStays
<1>2. /\ \A x \in pcm : x[1] \in Id /\ Past(x[1])'
      /\ \A s \in sidecars : IdOf(s) \in Id /\ Past(IdOf(s))'
      /\ \A t \in Tg, id \in Id : open[t] # None /\ open[t].id = id => Past(id)'
    BY <1>1, IdsThereAre DEF AllPast
<1>3. ASSUME NEW t \in Tg, Begin(t) PROVE AllPast'
  <2>1. [at |-> now, tg |-> t, seq |-> seq + 1] \in Id
    BY <1>3, RecorderAssumption DEF Begin, RecTypes, Id
  <2> PICK id \in Id : id = [at |-> now, tg |-> t, seq |-> seq + 1]
    BY <2>1
  <2>4. Past(id)'
    BY <1>3, RecorderAssumption DEF Begin, NextSeq, RecTypes, Past
  <2>2. /\ pcm' \subseteq pcm \cup {<<id, 0>>} /\ sidecars' = sidecars
        /\ \E file \in BOOLEAN :
              open' = [open EXCEPT ![t] = [id |-> id, file |-> file, samples |-> 0]]
    BY <1>3 DEF Begin, NextSeq, Without
  <2>3. \A u \in Tg : open'[u] = open[u] \/ open'[u].id = id
    BY <2>2 DEF RecTypes
  <2>5. \A x \in pcm' : x \in pcm \/ x[1] = id
    BY <2>2
  <2> QED BY <1>2, <2>2, <2>3, <2>4, <2>5, IdsThereAre DEF AllPast
<1>4. ASSUME NEW t \in Tg, Push(t) PROVE AllPast'
  <2>1. (\A y \in pcm' : \E x \in pcm : y[1] = x[1]) /\ sidecars' = sidecars
    BY <1>4, PushDoes
  <2>2. \A u \in Tg : open'[u] = open[u] \/ (open[t] # None /\ open'[u].id = open[t].id)
    <3>1. PICK next \in Recording : open' = [open EXCEPT ![t] = next] /\ next.id = open[t].id
      BY <1>4, PushDoes
    <3>2. open[t] # None /\ open \in [Tg -> Recording \cup {None}]
      BY <1>4, PushDoes DEF RecTypes
    <3> QED BY <3>1, <3>2
  <2> QED BY <1>2, <2>1, <2>2, IdsThereAre DEF AllPast
<1>5. ASSUME NEW t \in Tg, End(t) PROVE AllPast'
  <2>1. open[t] \in Recording /\ open[t] # None /\ open[t].id \in Id /\ Past(open[t].id)
    BY <1>5, EndDoes, IdsThereAre DEF AllPast
  <2>3. \A s \in sidecars' : s \in sidecars \/ IdOf(s) = open[t].id
    BY <1>5, <2>1, EndDoes, WrittenIs
  <2>4. pcm' \subseteq pcm /\ \A u \in Tg : open'[u] \in {open[u], None}
    BY <1>5, EndDoes DEF Without, RecTypes
  <2> QED BY <1>1, <1>2, <2>1, <2>3, <2>4, IdsThereAre DEF AllPast
<1>6. CASE Prune \/ Start
  <2>1. pcm' \subseteq pcm /\ sidecars' \subseteq sidecars /\ open' = open
    BY <1>6 DEF Prune, Start, Pruned
  <2> QED BY <1>2, <2>1, IdsThereAre DEF AllPast
<1>7. CASE Tick \/ Stop \/ UNCHANGED rvars
  <2>1. pcm' = pcm /\ sidecars' = sidecars /\ \A u \in Tg : open'[u] \in {open[u], None}
    BY <1>7 DEF Tick, Stop, Closed, disk, rvars
  <2> QED BY <1>2, <2>1, IdsThereAre DEF AllPast
<1> QED
    BY <1>3, <1>4, <1>5, <1>6, <1>7 DEF Next

\* It is new, but in a second the node was started again in.
LEMMA NewName ==
    ASSUME RecTypes, AllPast, NEW t \in Tg, Begin(t), now \notin again
    PROVE  LET id == [at |-> now, tg |-> t, seq |-> NextSeq]
           IN  /\ \A x \in pcm : x[1] # id
               /\ \A s \in sidecars : IdOf(s) # id
<1> DEFINE id == [at |-> now, tg |-> t, seq |-> seq + 1]
<1>1. id \in Id /\ id.at = now
    BY RecorderAssumption DEF Begin, RecTypes, Id
<1>2. ~Past(id)
    BY <1>1, RecorderAssumption DEF Past, Begin, RecTypes
<1>3. /\ \A x \in pcm : x[1] # id
      /\ \A s \in sidecars : IdOf(s) # id
  <2> HIDE DEF id
  <2> QED BY <1>2, IdsThereAre DEF AllPast
<1> QED BY <1>3 DEF NextSeq

\* A file that is created takes the place of one that has its name.
LEMMA OneFilePreserved ==
    ASSUME RecTypes, StuckArePast, OneFileEach, [Next]_rvars
    PROVE  OneFileEach'
<1>1. ASSUME NEW t \in Tg, Begin(t) PROVE OneFileEach'
  <2> DEFINE id == [at |-> now, tg |-> t, seq |-> NextSeq]
  <2>1. pcm' = pcm \/ pcm' = Without(id) \cup {<<id, 0>>}
    BY <1>1, NameOf
  <2> HIDE DEF id
  <2> QED BY <2>1 DEF OneFileEach, Without
<1>2. ASSUME NEW t \in Tg, Push(t) PROVE OneFileEach'
    BY <1>2, PushDoes DEF OneFileEach
<1>3. CASE pcm' \subseteq pcm
    BY <1>3 DEF OneFileEach
<1>4. ASSUME NEW t \in Tg, End(t) PROVE pcm' \subseteq pcm
    BY <1>4, EndDoes DEF Without
<1>5. CASE Prune \/ Tick \/ Stop \/ Start \/ UNCHANGED rvars
    BY <1>3, <1>5, PrunedDoes DEF Prune, Tick, Stop, Start, disk, rvars
<1> QED
    BY <1>1, <1>2, <1>3, <1>4, <1>5 DEF Next

\* What a prune could not remove on an earlier day is past the window today.
LEMMA StuckPreserved ==
    ASSUME RecTypes, StuckArePast, [Next]_rvars
    PROVE  StuckArePast'
<1>1. ASSUME NEW t \in Tg, Begin(t) \/ Push(t) \/ End(t) PROVE UNCHANGED <<now, stuck, halved>>
    BY <1>1, PushDoes, EndDoes DEF Begin, past
<1>2. CASE Prune \/ Start
  <2>1. Cutoff' = Cutoff
    BY <1>2 DEF Prune, Start, Cutoff, Today
  <2> QED BY <1>2, <2>1, PrunedDoes DEF Prune, Start, StuckArePast
<1>3. CASE Tick
  <2>1. now \in Nat /\ now' = now + 1 /\ UNCHANGED <<stuck, halved>>
    BY <1>3, RecorderAssumption DEF Tick, RecTypes, past
  <2>2. Today \in Nat /\ Today' \in Nat /\ Today <= Today'
    BY <2>1, DaysInOrder DEF Today
  <2>3. Cutoff \in Nat /\ Cutoff' \in Nat /\ Cutoff <= Cutoff'
    BY <2>2, RecorderAssumption DEF Cutoff
  <2> QED BY <2>1, <2>3 DEF StuckArePast
<1>4. ASSUME UNCHANGED <<now, stuck, halved>> PROVE StuckArePast'
    BY <1>4 DEF StuckArePast, Cutoff, Today
<1>5. CASE Stop \/ UNCHANGED rvars
    BY <1>4, <1>5 DEF Stop, rvars, past
<1> QED
    BY <1>1, <1>2, <1>3, <1>4, <1>5 DEF Next

\* Of two recordings that are open each has a name of its own.
LEMMA OpenApart ==
    ASSUME RecTypes, NEW t \in Tg, NEW u \in Tg, u # t, open[t] # None, open[u] # None
    PROVE  open[t].id # open[u].id
BY DEF RecTypes

\* A sidecar is written when its recording closes.
LEMMA UnlistedPreserved ==
    ASSUME RecTypes, StuckArePast, AllPast, OpenIsUnlisted, [Next]_rvars
    PROVE  OpenIsUnlisted'
<1>1. ASSUME NEW t \in Tg, Begin(t) PROVE OpenIsUnlisted'
  <2> DEFINE id == [at |-> now, tg |-> t, seq |-> NextSeq]
  <2>1. /\ sidecars' = sidecars /\ again' = again
        /\ \E file \in BOOLEAN :
              open' = [open EXCEPT ![t] = [id |-> id, file |-> file, samples |-> 0]]
    BY <1>1, NameOf
  <2>2. \A u \in Tg : open'[u] = open[u] \/ open'[u].id = id
    BY <2>1 DEF RecTypes
  <2>3. \A s \in sidecars : IdOf(s) # id \/ id.at \in again
    BY <1>1, NameOf, NewName
  <2> HIDE DEF id
  <2> QED BY <2>1, <2>2, <2>3 DEF OpenIsUnlisted
<1>2. ASSUME NEW t \in Tg, Push(t) PROVE OpenIsUnlisted'
  <2>1. PICK next \in Recording : open' = [open EXCEPT ![t] = next] /\ next.id = open[t].id
    BY <1>2, PushDoes
  <2>2. /\ open[t] # None /\ open \in [Tg -> Recording \cup {None}]
        /\ UNCHANGED <<sidecars, again>>
    BY <1>2, PushDoes DEF RecTypes
  <2>3. \A u \in Tg : open'[u] = open[u] \/ (open[t] # None /\ open'[u].id = open[t].id)
    BY <2>1, <2>2
  <2> QED BY <1>2, <2>2, <2>3 DEF OpenIsUnlisted
<1>3. ASSUME NEW t \in Tg, End(t) PROVE OpenIsUnlisted'
  <2>1. /\ open[t] \in Recording /\ open[t] # None /\ open' = [open EXCEPT ![t] = None]
        /\ again' = again
    BY <1>3, EndDoes
  <2>3. \A s \in sidecars' : s \in sidecars \/ IdOf(s) = open[t].id
    BY <1>3, <2>1, EndDoes, WrittenIs
  <2>4. \A u \in Tg : open'[u] # None => u # t /\ open'[u] = open[u]
    BY <2>1 DEF RecTypes
  <2> QED BY <2>1, <2>3, <2>4, OpenApart DEF OpenIsUnlisted
<1>4. CASE Prune \/ Start
  <2>1. sidecars' \subseteq sidecars /\ open' = open /\ again \subseteq again'
    BY <1>4, PrunedDoes DEF Prune, Start
  <2> QED BY <2>1 DEF OpenIsUnlisted
<1>5. CASE Tick \/ Stop \/ UNCHANGED rvars
  <2>1. UNCHANGED <<sidecars, again>> /\ \A u \in Tg : open'[u] \in {open[u], None}
    BY <1>5 DEF Tick, Stop, Closed, disk, rvars
  <2> QED BY <2>1 DEF OpenIsUnlisted
<1> QED
    BY <1>1, <1>2, <1>3, <1>4, <1>5 DEF Next

\* Files disappear with their directory, or as a whole when their call ends, and
\* a directory of an earlier day is not made again.
LEMMA WrittenPreserved ==
    ASSUME RecTypes, StuckArePast, OpenIsWritten, [Next]_rvars
    PROVE  OpenIsWritten'
<1>1. ASSUME NEW u \in Tg, open[u] # None, open[u].file
      PROVE  /\ <<open[u].id, 2 * open[u].samples>> \in pcm \/ Got(open[u].id)
             /\ open[u].id \in Id /\ Dir(open[u].id) \in Nat
    BY <1>1, IdsThereAre, DirsAreDays DEF OpenIsWritten
<1>2. ASSUME NEW id \in Id, Got(id), UNCHANGED <<now, halved>>,
             \A y \in pcm' : Dir(y[1]) = Dir(id) => \E x \in pcm : y[1] = x[1]
      PROVE  Got(id)'
    BY <1>2 DEF Got, Today, Dir
<1>3. ASSUME NEW t \in Tg, Begin(t) PROVE OpenIsWritten'
  <2> DEFINE id == [at |-> now, tg |-> t, seq |-> NextSeq]
  <2>1. /\ id \in Id /\ Dir(id) = Today
        /\ \A x \in pcm : x \in Without(id) \/ x[1] = id
        /\ \A u \in Tg \ {t} : open[u] # None => open[u].id # id
        /\ Without(id) \subseteq pcm /\ UNCHANGED <<now, halved>>
    BY <1>3, NameOf DEF Dir, Today
  <2>2. PICK made \in BOOLEAN :
            /\ open' = [open EXCEPT ![t] = [id |-> id, file |-> made, samples |-> 0]]
            /\ pcm' = IF made THEN Without(id) \cup {<<id, 0>>} ELSE pcm
    BY <1>3, NameOf
  <2> SUFFICES ASSUME NEW u \in Tg, open'[u] # None, open'[u].file
               PROVE  <<open'[u].id, 2 * open'[u].samples>> \in pcm' \/ Got(open[u].id)'
    BY DEF OpenIsWritten
  <2>3. CASE u = t
    <3>1. open'[t] = [id |-> id, file |-> made, samples |-> 0]
      BY <2>2 DEF RecTypes
    <3> HIDE DEF id
    <3>2. made /\ open'[t].id = id /\ 2 * open'[t].samples = 0
      BY <2>3, <3>1
    <3> QED BY <2>2, <2>3, <3>2
  <2>4. CASE u # t
    <3>1. open'[u] = open[u]
      BY <2>2, <2>4 DEF RecTypes
    <3> HIDE DEF id
    <3>2. open[u].id # id /\ open[u].id \in Id /\ Dir(open[u].id) \in Nat
      BY <1>1, <2>1, <2>4, <3>1
    <3>3. CASE <<open[u].id, 2 * open[u].samples>> \in pcm
      BY <2>1, <2>2, <3>1, <3>2, <3>3
    <3>4. CASE Got(open[u].id)
      <4>1. Dir(open[u].id) # Dir(id)
        BY <2>1, <3>2, <3>4, DirsAreDays DEF Got
      <4>2. \A y \in pcm' : y \in pcm \/ y[1] = id
        BY <2>1, <2>2
      <4>3. Got(open[u].id)'
        <5> DEFINE d == open[u].id
        <5>1. d \in Id /\ Got(d) /\ \A y \in pcm' : Dir(y[1]) = Dir(d) => \E x \in pcm : y[1] = x[1]
          BY <3>2, <3>4, <4>1, <4>2
        <5> QED BY <2>1, <3>1, <5>1 DEF Got, Today, Dir
      <4> QED BY <3>1, <4>3
    <3> QED BY <1>1, <3>1, <3>3, <3>4
  <2> QED BY <2>3, <2>4
<1>4. ASSUME NEW t \in Tg, Push(t) PROVE OpenIsWritten'
  <2>1. PICK n \in 0..2 :
            /\ \A x \in pcm : x[1] # open[t].id => x \in pcm'
            /\ \A x \in pcm : x[1] = open[t].id => <<x[1], x[2] + n>> \in pcm'
            /\ \A y \in pcm' :
                  \/ y \in pcm /\ y[1] # open[t].id
                  \/ \E x \in pcm : x[1] = open[t].id /\ y = <<x[1], x[2] + n>>
            /\ \E next \in Recording :
                  /\ open' = [open EXCEPT ![t] = next]
                  /\ next.id = open[t].id
                  /\ next.file => n = 2 /\ next.samples = open[t].samples + 1
    BY <1>4, PushDoes
  <2>2. PICK next \in Recording :
            /\ open' = [open EXCEPT ![t] = next]
            /\ next.id = open[t].id
            /\ next.file => n = 2 /\ next.samples = open[t].samples + 1
    BY <2>1
  <2>3. /\ open[t] # None /\ open[t].file /\ open[t] \in Recording /\ UNCHANGED <<now, halved>>
        /\ open \in [Tg -> Recording \cup {None}]
    BY <1>4, PushDoes DEF RecTypes
  <2>4. \A y \in pcm' : \E x \in pcm : y[1] = x[1]
    BY <2>1
  <2>5. \A id \in Id : Got(id) => Got(id)'
    BY <1>2, <2>3, <2>4
  <2>6. ASSUME NEW u \in Tg, open'[u] # None, open'[u].file
        PROVE  <<open'[u].id, 2 * open'[u].samples>> \in pcm' \/ Got(open[u].id)'
    <3>1. CASE u = t
      <4>1. open'[t] = next /\ n = 2 /\ next.samples = open[t].samples + 1
        BY <2>2, <2>3, <2>6, <3>1
      <4>2. CASE <<open[t].id, 2 * open[t].samples>> \in pcm
        <5>1. <<open[t].id, 2 * open[t].samples + 2>> \in pcm'
          BY <2>1, <4>1, <4>2
        <5>2. 2 * next.samples = 2 * open[t].samples + 2
          BY <2>3, <4>1 DEF Recording
        <5> QED BY <2>2, <3>1, <4>1, <5>1, <5>2
      <4>3. CASE Got(open[t].id)
        <5>1. open'[u].id = open[t].id /\ open[t].id \in Id
          BY <1>1, <2>2, <2>3, <3>1, <4>1
        <5>2. \A id \in Id : id = open'[u].id /\ Got(id) => Got(open[u].id)'
          BY <2>5 DEF Got, Today, Dir
        <5> QED BY <4>3, <5>1, <5>2
      <4> QED BY <1>1, <2>3, <4>2, <4>3
    <3>2. CASE u # t
      <4>1. open'[u] = open[u] /\ open[u].id # open[t].id
        BY <2>2, <2>3, <2>6, <3>2, OpenApart
      <4>2. CASE <<open[u].id, 2 * open[u].samples>> \in pcm
        BY <2>1, <4>1, <4>2
      <4>3. CASE Got(open[u].id)
        <5>1. open'[u].id = open[u].id /\ open[u].id \in Id
          BY <1>1, <2>6, <4>1
        <5>2. \A id \in Id : id = open'[u].id /\ Got(id) => Got(open[u].id)'
          BY <2>5 DEF Got, Today, Dir
        <5> QED BY <4>3, <5>1, <5>2
      <4> QED BY <1>1, <2>6, <4>1, <4>2, <4>3
    <3> QED BY <3>1, <3>2
  <2> QED BY <2>6 DEF OpenIsWritten
<1>5. ASSUME NEW t \in Tg, End(t) PROVE OpenIsWritten'
  <2>1. /\ open[t] \in Recording /\ open[t] # None
        /\ open' = [open EXCEPT ![t] = None] /\ UNCHANGED <<now, halved>>
    BY <1>5, EndDoes
  <2>2. pcm' \subseteq pcm /\ \A x \in pcm : x[1] # open[t].id => x \in pcm'
    BY <1>5, EndDoes DEF Without
  <2>3. \A u \in Tg : open'[u] # None => u # t /\ open'[u] = open[u]
    BY <2>1 DEF RecTypes
  <2>4. \A u \in Tg : open'[u] # None => open[u].id # open[t].id
    BY <2>1, <2>3, OpenApart
  <2> QED BY <2>1, <2>2, <2>3, <2>4 DEF OpenIsWritten, Got, Today, Dir
<1>6. CASE Prune
  <2>1. /\ Today \in Nat /\ Cutoff \in 0..Today /\ Today' = Today /\ open' = open
        /\ pcm' \subseteq pcm
        /\ \A x \in pcm \ pcm' : Dir(x[1]) < Cutoff
    BY <1>6, PrunedDoes DEF Prune, Today
  <2>2. \A y \in pcm' : Dir(y[1]) < Cutoff =>
            /\ Dir(y[1]) \in halved => Dir(y[1]) \in halved'
            /\ \A x \in pcm \ pcm' : Dir(x[1]) = Dir(y[1]) => Dir(y[1]) \in halved'
    BY <1>6, PrunedDoes DEF Prune
  <2>3. \A d \in halved : d < Cutoff
    BY DEF StuckArePast
  <2> SUFFICES ASSUME NEW u \in Tg, open[u] # None, open[u].file,
                      <<open[u].id, 2 * open[u].samples>> \notin pcm'
               PROVE  Got(open[u].id)'
    BY <2>1 DEF OpenIsWritten
  <2> DEFINE d == Dir(open[u].id)
  <2>4. d \in Nat
    BY <1>1
  <2>5. CASE <<open[u].id, 2 * open[u].samples>> \in pcm
    <3>1. d < Cutoff /\ d < Today
      BY <2>1, <2>4, <2>5
    <3>2. d \in halved' \/ \A y \in pcm' : Dir(y[1]) # d
      BY <2>2, <2>5, <3>1
    <3> QED BY <2>1, <3>1, <3>2 DEF Got, Dir
  <2>6. CASE Got(open[u].id)
    <3>1. d < Today
      BY <2>6 DEF Got
    <3>2. d \in halved' \/ \A y \in pcm' : Dir(y[1]) # d
      BY <2>1, <2>2, <2>3, <2>6 DEF Got
    <3> QED BY <2>1, <3>1, <3>2 DEF Got, Dir
  <2> QED BY <1>1, <2>5, <2>6
<1>7. CASE Tick
  <2>1. now \in Nat /\ now' = now + 1 /\ UNCHANGED <<pcm, open, halved>>
    BY <1>7, RecorderAssumption DEF Tick, RecTypes, disk, past
  <2>2. Today \in Nat /\ Today' \in Nat /\ Today <= Today'
    BY <2>1, DaysInOrder DEF Today
  <2>3. \A u \in Tg : open[u] # None => Dir(open[u].id) \in Nat
    BY IdsThereAre, DirsAreDays
  <2> QED BY <2>1, <2>2, <2>3 DEF OpenIsWritten, Got, Dir
<1>8. CASE Stop \/ Start
  <2>1. \A u \in Tg : open'[u] = None
    BY <1>8 DEF Stop, Start, Closed, RecTypes
  <2> QED BY <2>1 DEF OpenIsWritten
<1>9. CASE UNCHANGED rvars
    BY <1>9 DEF rvars, disk, past, OpenIsWritten, Got, Today, Dir
<1> QED
    BY <1>3, <1>4, <1>5, <1>6, <1>7, <1>8, <1>9 DEF Next

\* A sidecar says what its file holds.
LEMMA ListedPreserved ==
    ASSUME RecTypes, StuckArePast, AllPast, OpenIsUnlisted, OpenIsWritten, ListedIsPlayable,
           [Next]_rvars
    PROVE  ListedIsPlayable'
<1> USE DEF ListedIsPlayable, Readable, Dir
<1>1. ASSUME NEW t \in Tg, Begin(t) PROVE ListedIsPlayable'
  <2> DEFINE id == [at |-> now, tg |-> t, seq |-> NextSeq]
  <2>1. /\ UNCHANGED <<sidecars, halved, again>>
        /\ \A x \in pcm : x \in pcm' \/ x[1] = id
    BY <1>1, NameOf
  <2>2. \A s \in sidecars : s \notin Id => s.id # id \/ s.id.at \in again
    BY <1>1, NameOf, NewName DEF IdOf
  <2> HIDE DEF id
  <2> QED BY <2>1, <2>2
<1>2. ASSUME NEW t \in Tg, Push(t) PROVE ListedIsPlayable'
  <2>1. /\ open[t] # None /\ UNCHANGED <<sidecars, halved, again>>
        /\ \A x \in pcm : x[1] # open[t].id => x \in pcm'
    BY <1>2, PushDoes
  <2>2. \A s \in sidecars : s \notin Id => s.id # open[t].id \/ s.id.at \in again
    BY <1>2, <2>1 DEF OpenIsUnlisted, IdOf
  <2> QED BY <2>1, <2>2
<1>3. ASSUME NEW t \in Tg, End(t) PROVE ListedIsPlayable'
  <2>1. open[t] # None /\ open[t] \in Recording /\ UNCHANGED <<halved, again>>
    BY <1>3, EndDoes
  <2>2. CASE UNCHANGED <<pcm, sidecars>>
    BY <2>1, <2>2
  <2>3. CASE pcm' = Without(open[t].id) /\ sidecars' = sidecars
    <3>1. \A s \in sidecars : s \notin Id => s.id # open[t].id \/ s.id.at \in again
      BY <2>1 DEF OpenIsUnlisted, IdOf
    <3> QED BY <2>1, <2>3, <3>1 DEF Without
  <2>4. CASE /\ open[t].file /\ DirStands(open[t].id) /\ pcm' = pcm
             /\ \E x \in {open[t].id, Meta(open[t])} : sidecars' = Written(open[t], x)
    <3>1. <<open[t].id, 2 * open[t].samples>> \in pcm \/ Dir(open[t].id) \in halved
      BY <2>1, <2>4 DEF OpenIsWritten, Got, DirStands
    <3>2. \A s \in sidecars' : s \in sidecars \/ s \in Id \/ s = Meta(open[t])
      BY <2>1, <2>4, WrittenIs DEF Recording
    <3>3. Meta(open[t]).id = open[t].id /\ Meta(open[t]).samples = open[t].samples
      BY DEF Meta
    <3> QED BY <2>1, <2>4, <3>1, <3>2, <3>3
  <2> QED BY <1>3, <2>2, <2>3, <2>4, EndDoes
<1>4. CASE Prune \/ Start
  <2>1. /\ sidecars' \subseteq sidecars /\ again \subseteq again' /\ pcm' \subseteq pcm
        /\ \A x \in pcm \ pcm' : Dir(x[1]) < Cutoff
        /\ \A d \in halved : d < Cutoff
    BY <1>4, PrunedDoes DEF Prune, Start, StuckArePast
  <2>2. \A s \in sidecars' : Dir(IdOf(s)) < Cutoff =>
            /\ Dir(IdOf(s)) \in halved => Dir(IdOf(s)) \in halved'
            /\ \A x \in pcm \ pcm' : Dir(x[1]) = Dir(IdOf(s)) => Dir(IdOf(s)) \in halved'
    BY <1>4, PrunedDoes DEF Prune, Start
  <2> SUFFICES ASSUME NEW s \in sidecars', s \notin Id, s.id.at \notin again',
                      Dir(s.id) \notin halved'
               PROVE  \E x \in pcm' : x = <<s.id, 2 * s.samples>>
    OBVIOUS
  <2>3. IdOf(s) = s.id
    BY DEF IdOf
  <2>4. Dir(s.id) \notin halved
    BY <2>1, <2>2, <2>3
  <2>5. PICK x \in pcm : x = <<s.id, 2 * s.samples>>
    BY <2>1, <2>4
  <2>6. x[1] = s.id
    BY <2>5
  <2>7. x \in pcm'
    BY <2>1, <2>2, <2>3, <2>6
  <2> QED BY <2>5, <2>7
<1>5. CASE Tick \/ Stop \/ UNCHANGED rvars
  <2>1. UNCHANGED <<pcm, sidecars, halved, again>>
    BY <1>5 DEF Tick, Stop, disk, rvars, past
  <2> QED BY <2>1
<1> QED
    BY <1>1, <1>2, <1>3, <1>4, <1>5 DEF Next

\* Nothing is written to a directory that is past the window, but to one that
\* could not be removed.
LEMMA RetentionPreserved ==
    ASSUME RecTypes, StuckArePast, RetentionKept, [Next]_rvars
    PROVE  RetentionKept'
<1> DEFINE kept(id) == Dir(id) >= Today - DAYS
<1>1. ASSUME NEW t \in Tg, Begin(t) PROVE RetentionKept'
  <2> DEFINE id == [at |-> now, tg |-> t, seq |-> NextSeq]
  <2>1. /\ \A x \in pcm' : x \in pcm \/ x[1] = id
        /\ UNCHANGED <<sidecars, now, pruned, stuck>>
    BY <1>1, NameOf
  <2>2. id \in Id /\ Dir(id) = Today /\ Today' = Today /\ Today \in Nat
    BY <1>1, <2>1, NameOf, DirsAreDays DEF Dir, Today
  <2> HIDE DEF id
  <2> QED BY <2>1, <2>2, RecorderAssumption DEF RetentionKept
<1>2. ASSUME NEW t \in Tg, Push(t) PROVE RetentionKept'
  <2>1. /\ \A y \in pcm' : \E x \in pcm : y[1] = x[1]
        /\ UNCHANGED <<sidecars, pruned, stuck>> /\ Today' = Today
    BY <1>2, PushDoes DEF Today
  <2> QED BY <2>1 DEF RetentionKept
<1>3. ASSUME NEW t \in Tg, End(t) PROVE RetentionKept'
  <2>1. /\ open[t] \in Recording /\ UNCHANGED <<pruned, stuck>> /\ Today' = Today
        /\ pcm' \subseteq pcm
    BY <1>3, EndDoes DEF Without, Today
  <2>3. CASE sidecars' = sidecars
    BY <2>1, <2>3 DEF RetentionKept
  <2>4. CASE /\ DirStands(open[t].id)
             /\ \E x \in {open[t].id, Meta(open[t])} : sidecars' = Written(open[t], x)
    <3>1. \A s \in sidecars' : s \in sidecars \/ IdOf(s) = open[t].id
      BY <2>1, <2>4, WrittenIs
    <3>2. CASE Dir(open[t].id) \in halved
      BY <2>1, <3>1, <3>2 DEF RetentionKept, StuckArePast
    <3>3. CASE \E x \in pcm : Dir(x[1]) = Dir(open[t].id)
      BY <2>1, <3>1, <3>3 DEF RetentionKept
    <3> QED BY <2>4, <3>2, <3>3 DEF DirStands
  <2> QED BY <1>3, <2>3, <2>4, EndDoes
<1>4. CASE Prune \/ Start
  <2>1. /\ Today \in Nat /\ Cutoff \in 0..Today /\ Today - DAYS <= Cutoff
        /\ pcm' \subseteq pcm /\ sidecars' \subseteq sidecars
        /\ \A x \in pcm' : Dir(x[1]) < Cutoff => Dir(x[1]) \in stuck'
        /\ \A s \in sidecars' : Dir(IdOf(s)) < Cutoff => Dir(IdOf(s)) \in stuck'
        /\ Today' = Today
    BY <1>4, PrunedDoes DEF Prune, Start, Today
  <2>2. ASSUME NEW id \in Id, ~(Dir(id) < Cutoff) PROVE kept(id)
    BY <2>1, <2>2, DirsAreDays, RecorderAssumption
  <2>3. \A x \in pcm' : kept(x[1]) \/ Dir(x[1]) \in stuck'
    BY <2>1, <2>2, IdsThereAre
  <2>4. \A s \in sidecars' : kept(IdOf(s)) \/ Dir(IdOf(s)) \in stuck'
    BY <2>1, <2>2, IdsThereAre
  <2> QED BY <2>1, <2>3, <2>4 DEF RetentionKept
<1>5. CASE Tick
  <2>1. now \in Nat /\ now' = now + 1 /\ UNCHANGED <<pcm, sidecars, pruned, stuck>>
    BY <1>5, RecorderAssumption DEF Tick, RecTypes, disk, past
  <2>2. Today \in Nat /\ Today' \in Nat /\ Today <= Today' /\ pruned \in 0..Today
    BY <2>1, DaysInOrder DEF Today, RecTypes
  <2> QED BY <2>1, <2>2 DEF RetentionKept
<1>6. CASE Stop \/ UNCHANGED rvars
  <2>1. UNCHANGED <<pcm, sidecars, pruned, stuck>> /\ Today' = Today
    BY <1>6 DEF Stop, disk, rvars, past, Today
  <2> QED BY <2>1 DEF RetentionKept
<1> QED
    BY <1>1, <1>2, <1>3, <1>4, <1>5, <1>6 DEF Next

\* What NeverOverwritten and WindowKept ask of a step.
OnlyGrows ==
    \A x \in pcm, y \in pcm' :
        x[1] = y[1] /\ x[1].at \notin again =>
            x[2] <= y[2] /\ (y = <<x[1], 0>> => x = y)

InWindowStays ==
    \A s \in sidecars : \/ \E r \in sidecars' : IdOf(r) = IdOf(s)
                        \/ Dir(IdOf(s)) < Today - DAYS

LEMMA GrowsStep ==
    ASSUME RecTypes, StuckArePast, AllPast, OneFileEach, [Next]_rvars
    PROVE  OnlyGrows
<1>1. CASE pcm' \subseteq pcm
  <2> SUFFICES ASSUME NEW x \in pcm, NEW y \in pcm', x[1] = y[1]
               PROVE  x[2] <= y[2] /\ (y = <<x[1], 0>> => x = y)
    BY DEF OnlyGrows
  <2>1. x = y /\ x[2] \in Nat
    BY <1>1, IdsThereAre DEF OneFileEach
  <2> QED BY <2>1
<1>2. ASSUME NEW t \in Tg, Begin(t) PROVE OnlyGrows
  <2> DEFINE id == [at |-> now, tg |-> t, seq |-> NextSeq]
  <2>1. /\ \A y \in pcm' : y \in pcm \/ y = <<id, 0>>
        /\ \A x \in pcm : x[1] # id \/ x[1].at \in again
    BY <1>2, NameOf, NewName
  <2> HIDE DEF id
  <2> SUFFICES ASSUME NEW x \in pcm, NEW y \in pcm', x[1] = y[1], x[1].at \notin again
               PROVE  x[2] <= y[2] /\ (y = <<x[1], 0>> => x = y)
    BY DEF OnlyGrows
  <2>2. x = y /\ x[2] \in Nat
    BY <2>1, IdsThereAre DEF OneFileEach
  <2> QED BY <2>2
<1>3. ASSUME NEW t \in Tg, Push(t) PROVE OnlyGrows
  <2>1. PICK n \in 0..2 : \A y \in pcm' :
            \/ y \in pcm /\ y[1] # open[t].id
            \/ \E x \in pcm : x[1] = open[t].id /\ y = <<x[1], x[2] + n>>
    BY <1>3, PushDoes
  <2> SUFFICES ASSUME NEW x \in pcm, NEW y \in pcm', x[1] = y[1]
               PROVE  x[2] <= y[2] /\ (y = <<x[1], 0>> => x = y)
    BY DEF OnlyGrows
  <2>2. x[2] \in Nat /\ x = <<x[1], x[2]>>
    BY IdsThereAre
  <2>3. CASE y \in pcm
    BY <2>2, <2>3 DEF OneFileEach
  <2>4. CASE \E z \in pcm : y = <<z[1], z[2] + n>>
    <3>1. PICK z \in pcm : y = <<z[1], z[2] + n>>
      BY <2>4
    <3>2. z = x
      BY <3>1 DEF OneFileEach
    <3>3. y[2] = x[2] + n
      BY <3>1, <3>2
    <3>4. ASSUME y = <<x[1], 0>> PROVE x = y
      <4>1. x[2] = 0
        BY <2>2, <3>3, <3>4
      <4> QED BY <2>2, <3>4, <4>1
    <3> QED BY <2>2, <3>3, <3>4
  <2> QED BY <2>1, <2>3, <2>4
<1>4. ASSUME NEW t \in Tg, End(t) PROVE pcm' \subseteq pcm
    BY <1>4, EndDoes DEF Without
<1>5. CASE Prune \/ Tick \/ Stop \/ Start \/ UNCHANGED rvars
    BY <1>1, <1>5, PrunedDoes DEF Prune, Tick, Stop, Start, disk, rvars
<1> QED
    BY <1>1, <1>2, <1>3, <1>4, <1>5 DEF Next

LEMMA WindowStep ==
    ASSUME RecTypes, StuckArePast, [Next]_rvars
    PROVE  InWindowStays
<1>1. ASSUME NEW t \in Tg, Begin(t) \/ Push(t) PROVE sidecars \subseteq sidecars'
    BY <1>1 DEF Begin, Push
<1>2. ASSUME NEW t \in Tg, End(t) PROVE InWindowStays
    BY <1>2, EndDoes, WrittenIs DEF InWindowStays
<1>3. CASE Prune \/ Start
  <2>1. /\ \A d \in Nat : d < Cutoff => d < Today - DAYS
        /\ \A s \in sidecars \ sidecars' : Dir(IdOf(s)) < Cutoff
    BY <1>3, PrunedDoes DEF Prune, Start
  <2>2. \A s \in sidecars : Dir(IdOf(s)) \in Nat
    BY IdsThereAre, DirsAreDays
  <2> QED BY <2>1, <2>2 DEF InWindowStays
<1>4. CASE Tick \/ Stop \/ UNCHANGED rvars
    BY <1>4 DEF Tick, Stop, disk, rvars, InWindowStays
<1> QED
    BY <1>1, <1>2, <1>3, <1>4 DEF Next, InWindowStays

\* The invariant holds at the start, and no action breaks it.
LEMMA RecorderInductive ==
    Spec => []RecInv
<1>1. Init => RecInv
  <2> SUFFICES ASSUME Init PROVE RecInv
    OBVIOUS
  <2>1. Today \in Nat
    BY DaysInOrder DEF Init, Today
  <2>2. RecTypes
    <3>1. running \in BOOLEAN
      BY Zenon DEF Init
    <3>2. now \in 0..END /\ stopped \in 0..now /\ begun \in 0..CALLS /\ seq \in 0..begun
      BY RecorderAssumption DEF Init
    <3>3. pruned \in 0..Today
      BY <2>1 DEF Init
    <3> QED BY <3>1, <3>2, <3>3 DEF Init, Closed, RecTypes
  <2> QED BY <2>1, <2>2 DEF Init, Closed, RecInv, AllPast, OneFileEach, OpenIsUnlisted,
             OpenIsWritten, ListedIsPlayable, Readable, RetentionKept, StuckArePast
<1>2. RecInv /\ [Next]_rvars => RecInv'
    BY TypesPreserved, PastPreserved, StuckPreserved, OneFilePreserved, UnlistedPreserved,
       WrittenPreserved, ListedPreserved, RetentionPreserved DEF RecInv
<1> QED
    BY <1>1, <1>2, PTL DEF Spec

-------------------------------------------------------------------------------
\* Whatever is listed can be played and is as long as it says (Recording::finish
\* writes the sidecar after the audio, and a failed write ends the recording),
\* but for what the removal of a day left behind halfway and for the calls of a
\* second in which the node was stopped and started again.
THEOREM WhatIsListedPlays ==
    Spec => []ListedIsPlayable
<1>1. RecInv => ListedIsPlayable
    BY DEF RecInv
<1> QED
    BY <1>1, RecorderInductive, PTL

\* On the day of a prune whatever is on disk is in the window or of a day that
\* this prune tried to remove and could not, whatever prunes before it left and
\* what is written after it included (Recorder::prune).
THEOREM NothingOutstaysTheWindow ==
    Spec => []RetentionKept
<1>1. RecInv => RetentionKept
    BY DEF RecInv
<1> QED
    BY <1>1, RecorderInductive, PTL

\* No recording is overwritten by another, nor cut back: names are of the second
\* and a count that starts again with the node (Recorder::begin), and only in
\* the second it is stopped and started again in does a name come again.
THEOREM NoRecordingIsOverwritten ==
    Spec => NeverOverwritten
<1>1. RecInv /\ [Next]_rvars => [OnlyGrows]_rvars
    BY GrowsStep DEF RecInv
<1> QED
    BY <1>1, RecorderInductive, PTL DEF Spec, NeverOverwritten, OnlyGrows

\* Retention never takes a call that is still in the window (Recorder::prune).
THEOREM RetentionSparesTheWindow ==
    Spec => WindowKept
<1>1. RecInv /\ [Next]_rvars => [InWindowStays]_rvars
    BY WindowStep DEF RecInv
<1> QED
    BY <1>1, RecorderInductive, PTL DEF Spec, WindowKept, InWindowStays

-------------------------------------------------------------------------------
\* There are finitely many sidecars.
FiniteList == IsFiniteSet(sidecars)

LEMMA FinitePreserved ==
    ASSUME RecTypes, FiniteList, [Next]_rvars
    PROVE  FiniteList'
<1> USE DEF FiniteList
<1>1. ASSUME NEW t \in Tg, End(t) PROVE IsFiniteSet(sidecars')
  <2>1. \E s : sidecars' \subseteq sidecars \cup {s}
    BY <1>1, EndDoes, WrittenIs
  <2> QED BY <2>1, FS_AddElement, FS_Subset
<1>2. ASSUME sidecars' \subseteq sidecars PROVE IsFiniteSet(sidecars')
    BY <1>2, FS_Subset
<1>3. ASSUME NEW t \in Tg, Begin(t) \/ Push(t) PROVE sidecars' = sidecars
    BY <1>3 DEF Begin, Push
<1>4. CASE Prune \/ Tick \/ Stop \/ Start \/ UNCHANGED rvars
    BY <1>2, <1>4 DEF Prune, Tick, Stop, Start, Pruned, disk, rvars
<1> QED
    BY <1>1, <1>2, <1>3, <1>4 DEF Next

\* Min of two naturals.
LEMMA LeastOfTwo ==
    ASSUME NEW a \in Nat, NEW b \in Nat
    PROVE  Min({a, b}) = IF a <= b THEN a ELSE b
<1>1. /\ Min({a, b}) \in {a, b}
      /\ \A y \in {a, b} : Min({a, b}) <= y
  <2>1. \E x \in {a, b} : \A y \in {a, b} : x <= y
    OBVIOUS
  <2> QED BY <2>1 DEF Min
<1> QED BY <1>1

\* A bounded set of naturals has a greatest element.
LEMMA GreatestThereIs ==
    ASSUME NEW n \in Nat, NEW S \in SUBSET (0..n), S # {}
    PROVE  \E x \in S : \A y \in S : y <= x
<1> DEFINE above(x) == {y \in S : y >= x}
           tails    == {above(x) : x \in S}
<1>1. IsFiniteSet(0..n)
    BY FS_Interval
<1>2. tails \subseteq SUBSET (0..n) /\ tails # {}
    OBVIOUS
<1>3. PICK T \in tails : \A U \in tails : <<U, T>> \notin StrictSubsetOrdering(0..n)
  <2>1. IsWellFoundedOn(StrictSubsetOrdering(0..n), SUBSET (0..n))
    BY <1>1, FS_FiniteSubsetsOfFinite, FS_StrictSubsetOrderingWellFounded
  <2> HIDE DEF tails
  <2> QED BY <1>2, <2>1, WFMin
<1>4. PICK x \in S : T = above(x)
    BY <1>3
<1>5. ASSUME NEW y \in S, y > x PROVE FALSE
  <2>1. above(y) \subseteq above(x) /\ x \in above(x) /\ x \notin above(y)
    <3>1. x \in 0..n /\ y \in 0..n /\ \A z \in S : z \in 0..n /\ z \in Int
      BY <1>4
    <3>2. x >= x /\ ~(x >= y) /\ \A z \in S : z >= y => z >= x
      BY <1>5, <3>1
    <3> QED BY <1>4, <3>2, Zenon
  <2>2. above(y) \in tails
    OBVIOUS
  <2> HIDE DEF above
  <2>3. <<above(y), T>> \in StrictSubsetOrdering(0..n)
    BY <1>2, <1>3, <1>4, <2>1, <2>2 DEF StrictSubsetOrdering
  <2> QED BY <1>3, <2>2, <2>3
<1> QED BY <1>5

\* What is of a day after d, as `index` counts it.
Newer(d, since) == UNION {In(y, since) : y \in NewerThan(d)}

\* The directories hold what there is, each call in one of them.
LEMMA DirectoriesHoldAll ==
    ASSUME RecTypes, AllPast, NEW since \in Nat
    PROVE  \A s \in Readable : s.id.at >= since =>
               Dir(s.id) \in 0..Today /\ s \in In(Dir(s.id), since)
<1> SUFFICES ASSUME NEW s \in Readable, s.id.at >= since
             PROVE  Dir(s.id) \in 0..Today /\ s \in In(Dir(s.id), since)
    OBVIOUS
<1>1. IdOf(s) = s.id /\ s \in sidecars
    BY DEF Readable, IdOf
<1>2. s.id \in Id /\ s.id.at <= now
    BY <1>1, IdsThereAre DEF AllPast, Past
<1>3. s.id.at \in Nat /\ now \in Nat
    BY <1>2, RecorderAssumption DEF Id, RecTypes
<1>4. Dir(s.id) \in 0..Today
    BY <1>2, <1>3, DaysInOrder DEF Dir, Today
<1> QED BY <1>4 DEF In

\* `index` collects all there is, or enough that nothing it leaves is newer.
LEMMA CollectedIsNewest ==
    ASSUME RecTypes, AllPast, IsFiniteSet(sidecars),
           NEW since \in Nat, NEW limit \in Nat \ {0}
    PROVE  LET all == {s \in Readable : s.id.at >= since}
               found == Collected(since, limit)
           IN  /\ found \subseteq all /\ IsFiniteSet(all)
               /\ found = all \/ Cardinality(found) >= limit
               /\ \A s \in found, r \in all \ found : s.id.at >= r.id.at
<1> DEFINE all   == {s \in Readable : s.id.at >= since}
           found == Collected(since, limit)
           read  == {x \in 0..Today : Cardinality(Newer(x, since)) < limit}
<1>1. found = UNION {In(d, since) : d \in read}
    BY DEF Collected, Newer
<1>2. IsFiniteSet(all) /\ Today \in Nat
  <2>1. all \subseteq sidecars
    BY DEF Readable
  <2> QED BY <2>1, FS_Subset, DaysInOrder, RecorderAssumption DEF Today, RecTypes
<1>3. \A d \in 0..Today : In(d, since) \subseteq all /\ Newer(d, since) \subseteq all
    BY DEF In, Newer, NewerThan
<1>4. \A s \in all : Dir(s.id) \in 0..Today /\ s \in In(Dir(s.id), since)
    BY DirectoriesHoldAll
<1>5. found \subseteq all
    BY <1>1, <1>3
<1>6. \A d \in 0..Today : /\ IsFiniteSet(Newer(d, since))
                          /\ Cardinality(Newer(d, since)) \in Nat
    BY <1>2, <1>3, FS_Subset, FS_CardinalityType
<1>7. ASSUME NEW s \in found, NEW r \in all \ found PROVE s.id.at >= r.id.at
  <2>1. PICK d \in read : s \in In(d, since)
    BY <1>1
  <2>2. Dir(s.id) = d /\ Dir(r.id) \in 0..Today /\ Dir(r.id) \notin read
    BY <1>1, <1>4, <1>7, <2>1 DEF In
  <2>3. ASSUME d <= Dir(r.id) PROVE FALSE
    <3>1. d # Dir(r.id)
      BY <2>1, <2>2
    <3>2. Newer(Dir(r.id), since) \subseteq Newer(d, since)
      BY <2>1, <2>2, <2>3 DEF Newer, NewerThan
    <3>3. Cardinality(Newer(Dir(r.id), since)) <= Cardinality(Newer(d, since))
      BY <1>6, <2>1, <3>2, FS_Subset
    <3> QED BY <1>6, <2>1, <2>2, <3>3
  <2>4. d > Dir(r.id)
    BY <1>2, <2>1, <2>2, <2>3
  <2>5. s.id \in Id /\ r.id \in Id
    BY <1>5, <1>7, IdsThereAre DEF Readable, IdOf
  <2>6. s.id.at \in Nat /\ r.id.at \in Nat
    BY <2>5, RecorderAssumption DEF Id
  <2> QED BY <2>2, <2>4, <2>6, DaysInOrder DEF Dir
<1>8. ASSUME found # all PROVE Cardinality(found) >= limit
  <2> DEFINE unread == (0..Today) \ read
  <2>1. unread \in SUBSET 0..Today /\ unread # {}
    BY <1>1, <1>4, <1>5, <1>8
  <2>2. PICK d \in unread : \A y \in unread : y <= d
    BY <1>2, <2>1, GreatestThereIs
  <2>3. NewerThan(d) \subseteq read
    BY <1>2, <2>2 DEF NewerThan
  <2>4. Newer(d, since) \subseteq found
    BY <1>1, <2>3 DEF Newer
  <2>5. IsFiniteSet(found) /\ Cardinality(found) \in Nat
    BY <1>2, <1>5, FS_Subset, FS_CardinalityType
  <2>6. Cardinality(Newer(d, since)) <= Cardinality(found)
    BY <2>4, <2>5, FS_Subset
  <2> QED BY <1>6, <2>2, <2>5, <2>6
<1> QED BY <1>2, <1>5, <1>7, <1>8

\* index gives the newest calls there are, `limit` of them if there are as many,
\* though it stops at the first directory that makes them enough
\* (Recorder::index).
THEOREM IndexGivesTheNewest ==
    Spec => []IndexIsNewest
<1>1. Init => FiniteList
    BY FS_EmptySet DEF Init, FiniteList
<1>2. RecInv /\ FiniteList /\ [Next]_rvars => FiniteList'
    BY FinitePreserved DEF RecInv
<1>3. RecInv /\ FiniteList => IndexIsNewest
  <2> SUFFICES ASSUME RecInv, FiniteList,
                      NEW since \in 0..now, NEW limit \in 1..CALLS,
                      NEW S \in Index(since, limit)
               PROVE  LET all == {s \in Readable : s.id.at >= since}
                      IN  /\ Cardinality(S) = Min({limit, Cardinality(all)})
                          /\ \A s \in S, r \in all \ S : s.id.at >= r.id.at
    BY DEF IndexIsNewest
  <2> DEFINE all   == {s \in Readable : s.id.at >= since}
             found == Collected(since, limit)
  <2>1. since \in Nat /\ limit \in Nat \ {0}
    BY RecorderAssumption DEF RecInv, RecTypes
  <2>2. /\ found \subseteq all /\ IsFiniteSet(all)
        /\ found = all \/ Cardinality(found) >= limit
        /\ \A s \in found, r \in all \ found : s.id.at >= r.id.at
    BY <2>1, CollectedIsNewest DEF RecInv, FiniteList
  <2> HIDE DEF found, all
  <2>3. /\ S \subseteq found
        /\ Cardinality(S) = Min({limit, Cardinality(found)})
        /\ \A s \in S, r \in found \ S : s.id.at >= r.id.at
    BY DEF Index, found
  <2>4. /\ Cardinality(found) \in Nat /\ Cardinality(all) \in Nat
        /\ Cardinality(found) <= Cardinality(all)
    BY <2>2, FS_Subset, FS_CardinalityType
  <2>5. Min({limit, Cardinality(found)}) = Min({limit, Cardinality(all)})
    BY <2>1, <2>2, <2>4, LeastOfTwo
  <2>6. ASSUME NEW s \in S, NEW r \in all \ S PROVE s.id.at >= r.id.at
    BY <2>2, <2>3, <2>6
  <2> QED BY <2>3, <2>5, <2>6 DEF all
<1> QED
    BY <1>1, <1>2, <1>3, RecorderInductive, PTL DEF Spec
===============================================================================
