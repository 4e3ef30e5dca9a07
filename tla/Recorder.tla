-------------------------------- MODULE Recorder --------------------------------
(***************************************************************************)
(* The call recorder (src/src/recorder.rs): the recordings that are open,  *)
(* the PCM files and JSON sidecars on disk in a directory per day, what    *)
(* `index` finds among them, and retention.  Everything the node does with *)
(* the recorder is under one lock.  A write to the disk or the removal of  *)
(* a directory may fail, or fail halfway, and the node may be stopped or   *)
(* killed at any point and started again, in the same second or later.     *)
(***************************************************************************)
EXTENDS Integers, FiniteSets, FiniteSetsExt

CONSTANTS
    Tg,    \* the routes calls are recorded on
    DAY,   \* seconds in a day, 86400 in the code
    DAYS,  \* VOICED_RECORD_DAYS
    SHORT, \* pushes of audio that make a call worth keeping: 0.4 s
    END,   \* when the model's clock stops: a bound
    CALLS, \* how many calls are begun: a bound
    STARTS, \* how often the node is started again: a bound
    None

ASSUME RecorderAssumption ==
    {DAY, SHORT} \subseteq Nat \ {0} /\ {DAYS, END, CALLS, STARTS} \subseteq Nat
    /\ Tg \subseteq Nat

VARIABLES
    now,      \* the clock
    running,  \* the node is up
    stopped,  \* when it last stopped
    seq,      \* Recorder::seq
    open,     \* Active::open: Tg -> the recording, or None
    pcm,      \* the audio files: <<id, how much is in it>>, pushes counted twice
    sidecars, \* the sidecars: metadata, or an id alone if the file is torn
    pruned,   \* the day of the last prune
    stuck,    \* the days it should have removed and could not
    halved,   \* those of them that have lost something of what was in them
    again,    \* the seconds in which the node was stopped and started again
    begun,    \* how much of CALLS is used up
    starts    \* how much of STARTS

disk  == <<pcm, sidecars>>
past  == <<pruned, stuck, halved>>
rvars == <<now, running, stopped, seq, open, disk, past, again, begun, starts>>

DayOf(at) == at \div DAY

Today == DayOf(now)

\* A call's id carries when it began, which also says what directory it is in.
Id == [at : 0..END, tg : Tg, seq : Nat]

Dir(id) == DayOf(id.at)

Closed == [t \in Tg |-> None]

Init ==
    /\ now = 0 /\ running = TRUE /\ stopped = 0 /\ seq = 0
    /\ open = Closed /\ pcm = {} /\ sidecars = {} /\ begun = 0 /\ starts = 0
    /\ pruned = 0 /\ stuck = {} /\ halved = {} /\ again = {}

Without(id) == {x \in pcm : x[1] # id}

\* A day directory goes with all that is in it, an open file included, unless
\* its removal stops halfway.
DirStands(id) == Dir(id) \in halved \/ \E x \in pcm : Dir(x[1]) = Dir(id)

IdOf(s) == IF s \in Id THEN s ELSE s.id

-------------------------------------------------------------------------------
\* The recorder.

\* Mutation: recordings are not counted.
SameSeq == seq

NextSeq == seq + 1

\* Active::begin and Recorder::begin: a file that cannot be created is a call
\* that is not recorded.
Begin(t) ==
    LET id == [at |-> now, tg |-> t, seq |-> NextSeq]
    IN  /\ running /\ open[t] = None
        /\ begun < CALLS /\ begun' = begun + 1
        /\ seq' = NextSeq
        /\ \E made \in BOOLEAN :
              /\ open' = [open EXCEPT ![t] = [id |-> id, file |-> made, samples |-> 0]]
              /\ pcm' = IF made THEN Without(id) \cup {<<id, 0>>} ELSE pcm
        /\ UNCHANGED <<now, running, stopped, sidecars, past, again, starts>>

\* Mutation: a failed write is passed over and the call written on.
WriteOn(call) == call

\* A write that fails ends the recording of the call, not the call.
AfterFailure(call) == [call EXCEPT !.file = FALSE]

\* Recording::push.  What a failed write left behind stays in the file.  More
\* than SHORT pushes tell nothing apart: a bound of the model.
Push(t) ==
    /\ running /\ open[t] # None /\ open[t].file /\ open[t].samples <= SHORT
    /\ LET call == open[t]
           held == {x \in pcm : x[1] = call.id}
           grown(n) == (pcm \ held) \cup {<<x[1], x[2] + n>> : x \in held}
       IN  \/ /\ open' = [open EXCEPT ![t].samples = @ + 1]
              /\ pcm' = grown(2)
           \/ /\ open' = [open EXCEPT ![t] = AfterFailure(call)]
              /\ pcm' \in {grown(n) : n \in {0, 1}}
    /\ UNCHANGED <<now, running, stopped, seq, sidecars, past, again, begun, starts>>

Meta(call) == [id |-> call.id, samples |-> call.samples]

\* The sidecars once call's is x.
Written(call, x) == {s \in sidecars : IdOf(s) # call.id} \cup {x}

\* Active::end and Recording::finish: a fumbled button leaves nothing if its
\* file can be removed, a call whose file failed leaves what was written, any
\* other gets its sidecar, if its directory is still there.
End(t) ==
    /\ running /\ open[t] # None
    /\ open' = [open EXCEPT ![t] = None]
    /\ LET call == open[t]
       IN  CASE ~call.file -> UNCHANGED disk
             [] call.file /\ call.samples < SHORT ->
                   pcm' \in {pcm, Without(call.id)} /\ UNCHANGED sidecars
             [] call.file /\ call.samples >= SHORT ->
                   /\ UNCHANGED pcm
                   /\ \/ UNCHANGED sidecars
                      \/ /\ DirStands(call.id)
                         /\ sidecars' \in {Written(call, x) : x \in {call.id, Meta(call)}}
    /\ UNCHANGED <<now, running, stopped, seq, past, again, begun, starts>>

\* Mutation: the last day of the window goes too.
CutoffLate == Today - DAYS + 1

\* Mutation: one day more than the window is kept.
CutoffEarly == Today - DAYS - 1

Cutoff == IF Today < DAYS THEN 0 ELSE Today - DAYS

\* The days past the window that are still there.
Due ==
    {d \in {Dir(x[1]) : x \in pcm} \cup {Dir(IdOf(s)) : s \in sidecars} \cup halved : d < Cutoff}

\* prune: whole directories past the window.  What cannot be read or removed
\* is passed over, and a removal that stops halfway leaves some of the files.
Pruned ==
    \E failed \in SUBSET Due, audio \in SUBSET pcm, meta \in SUBSET sidecars :
        LET lost == {x[1] : x \in pcm \ audio} \cup {IdOf(s) : s \in sidecars \ meta}
        IN  /\ \A x \in audio : Dir(x[1]) \in Due => Dir(x[1]) \in failed
            /\ \A s \in meta : Dir(IdOf(s)) \in Due => Dir(IdOf(s)) \in failed
            /\ \A id \in lost : Dir(id) \in Due
            /\ pcm' = audio /\ sidecars' = meta
            /\ halved' = {d \in failed : d \in halved \/ \E id \in lost : Dir(id) = d}
            /\ stuck' = failed /\ pruned' = Today

Prune ==
    /\ running /\ Pruned
    /\ UNCHANGED <<now, running, stopped, seq, open, again, begun, starts>>

-------------------------------------------------------------------------------
\* What surrounds it.

Tick ==
    /\ now < END
    /\ now' = now + 1
    /\ UNCHANGED <<running, stopped, seq, open, disk, past, again, begun, starts>>

\* SIGINT or a kill: no open recording is finished.
Stop ==
    /\ running
    /\ running' = FALSE /\ stopped' = now
    /\ open' = Closed
    /\ UNCHANGED <<now, seq, disk, past, again, begun, starts>>

\* Recorder::from_env prunes before anything else.
Start ==
    /\ ~running /\ running' = TRUE
    /\ starts < STARTS /\ starts' = starts + 1
    /\ again' = IF now = stopped THEN again \cup {now} ELSE again
    /\ seq' = 0
    /\ Pruned
    /\ UNCHANGED <<now, stopped, open, begun>>

Next ==
    \/ \E t \in Tg : Begin(t) \/ Push(t) \/ End(t)
    \/ Prune \/ Tick \/ Stop \/ Start

Spec == Init /\ [][Next]_rvars

-------------------------------------------------------------------------------
\* `GET` of the recordings.

\* The sidecars that parse.
Readable == {s \in sidecars : s \notin Id}

In(day, since) == {s \in Readable : Dir(s.id) = day /\ s.id.at >= since}

\* Mutation: the directories are read oldest first.
OlderThan(day) == {d \in 0..Today : d < day}

NewerThan(day) == {d \in 0..Today : d > day}

\* index: directories newest first until there are enough.
Collected(since, limit) ==
    UNION {In(d, since) : d \in {x \in 0..Today :
        Cardinality(UNION {In(y, since) : y \in NewerThan(x)}) < limit}}

\* The answers index may give: calls of one second come in any order.
Index(since, limit) ==
    LET found == Collected(since, limit)
        size  == Min({limit, Cardinality(found)})
    IN  {S \in SUBSET found : /\ Cardinality(S) = size
                              /\ \A s \in S, r \in found \ S : s.id.at >= r.id.at}

-------------------------------------------------------------------------------
\* Whatever is listed can be played, and is as long as it says: a full disk, a
\* fumbled button, a prune or a restart never leaves metadata of audio that is
\* not there.  But what the removal of a day leaves behind halfway is listed,
\* and so is a call whose name was given again in the second of a restart.
ListedIsPlayable ==
    \A s \in Readable : \/ \E x \in pcm : x = <<s.id, 2 * s.samples>>
                        \/ Dir(s.id) \in halved \/ s.id.at \in again

\* No recording is ever overwritten by another, not after a restart either if
\* it takes until the next second: a file only grows until it goes as a whole.
NeverOverwritten ==
    [][\A x \in pcm, y \in pcm' :
          x[1] = y[1] /\ x[1].at \notin again =>
              x[2] <= y[2] /\ (y = <<x[1], 0>> => x = y)]_rvars

\* "A node that was off for a week must not come back holding five weeks of
\* audio": on the day of a prune nothing is older than DAYS but what that prune
\* tried to remove and could not, whatever was tried before it and whatever is
\* written after it.
RetentionKept ==
    pruned = Today => \A x \in pcm \cup {<<IdOf(s), 0>> : s \in sidecars} :
                         Dir(x[1]) >= Today - DAYS \/ Dir(x[1]) \in stuck

\* Retention never takes what is still in the window.
WindowKept ==
    [][\A s \in sidecars : \/ \E r \in sidecars' : IdOf(r) = IdOf(s)
                           \/ Dir(IdOf(s)) < Today - DAYS]_rvars

\* index gives the newest calls there are, `limit` of them if there are as many.
IndexIsNewest ==
    \A since \in 0..now, limit \in 1..CALLS :
        LET all == {s \in Readable : s.id.at >= since}
        IN  \A S \in Index(since, limit) :
               /\ Cardinality(S) = Min({limit, Cardinality(all)})
               /\ \A s \in S, r \in all \ S : s.id.at >= r.id.at
===============================================================================
