------------------------------ MODULE Supervisor ------------------------------
(***************************************************************************)
(* The supervisor (src/src/main.rs): it polls the list of servers and the  *)
(* patches from the platform (src/src/platform.rs) or, standalone, reads   *)
(* the local store (src/src/servers.rs), and makes the key index, the taps *)
(* and the router follow it.  A pass is a sequence of critical sections;   *)
(* the taps, the control requests and the consoles' own patches run in     *)
(* between.  A tap is aborted without being waited for, so what it is in   *)
(* the middle of may still happen.                                         *)
(***************************************************************************)
EXTENDS Naturals, FiniteSets

CONSTANTS
    Server,   \* the ids enrolment gives
    Addr,     \* where a server's tap connects
    EDITS,    \* how often the list is edited, the patches pushed, a write or a
              \* node fails: bounds of the model
    None

ASSUME SupervisorAssumption ==
    EDITS \in Nat /\ None \notin Server /\ None \notin Addr /\ "api" \notin Addr

Listing == [Server -> Addr \cup {None}]

Nothing == [id \in Server |-> None]

VARIABLES
    standalone, \* no platform is configured
    \* The platform or, standalone, the file the command line writes.
    dash,       \* the list
    version,    \* the number of times a console has changed the patches
    up,         \* the platform answers
    torn,       \* the file is being written
    cache,      \* servers.cache.json: the last answer, None if unreadable
    \* The node's memory.
    pc,         \* how far the pass is
    list,       \* the list the pass works from
    groups,     \* the patches that came with it, by version
    known,      \* the taps there are, and where they connect
    detaching,  \* a server aborted whose rows are still to go
    keys,       \* the servers the key index resolves to
    attached,   \* what the heartbeat reports
    patched,    \* the version of the patches the router has
    tap,        \* Server -> what its tap's task is doing
    ghost,      \* Server -> what an aborted tap is still to do
    rows,       \* Server -> what the router has of it: the clients met at an
                \* address, and the members the control API named
    inflight,   \* requests authenticated and not yet served
    haunted,    \* the servers an aborted tap or a late request has touched (history)
    edits       \* how much of EDITS is used up

outside  == <<standalone, dash, version, up, torn, cache>>
pass     == <<pc, list, groups, detaching>>
followed == <<known, keys, attached, patched>>
tasks    == <<tap, ghost, rows, inflight, haunted>>
svars    == <<outside, pass, followed, tasks, edits>>

Answer(servers, patches) == [servers |-> servers, patches |-> patches]

\* The first thing a node does is to ask.
Init ==
    /\ standalone \in BOOLEAN
    /\ dash = Nothing /\ version = 0 /\ up = TRUE /\ torn = FALSE
    /\ cache = None
    /\ edits = 0
    /\ pc = "start" /\ list = Nothing /\ groups = 0
    /\ known = Nothing /\ detaching = None /\ keys = {} /\ attached = {}
    /\ patched = 0
    /\ tap = [id \in Server |-> "none"]
    /\ ghost = [id \in Server |-> None]
    /\ rows = [id \in Server |-> {}]
    /\ inflight = {} /\ haunted = {}

Used == edits < EDITS /\ edits' = edits + 1

-------------------------------------------------------------------------------
\* The operator and the consoles.

\* The dashboard changes the list: a server added, moved or removed.
Edit(id, addr) ==
    /\ ~standalone
    /\ Used
    /\ dash' = [dash EXCEPT ![id] = addr]
    /\ UNCHANGED <<standalone, version, up, torn, cache, pass, followed, tasks>>

\* `enroll` and `revoke` write the store in place: for a while it does not parse.
StartSaving ==
    /\ standalone /\ ~torn
    /\ Used
    /\ torn' = TRUE
    /\ UNCHANGED <<standalone, dash, version, up, cache, pass, followed, tasks>>

Save(id, addr) ==
    /\ torn
    /\ torn' = FALSE
    /\ dash' = [dash EXCEPT ![id] = addr]
    /\ UNCHANGED <<standalone, version, up, cache, pass, followed, tasks, edits>>

\* A dispatcher makes a patch: the platform stores it and pushes it.
PatchesSet ==
    /\ ~standalone
    /\ Used
    /\ version' = version + 1
    /\ patched' = version + 1
    /\ UNCHANGED <<standalone, dash, up, torn, cache, pass, known, keys, attached, tasks>>

Reachability ==
    /\ up' = ~up
    /\ UNCHANGED <<standalone, dash, version, torn, cache, pass, followed, tasks, edits>>

-------------------------------------------------------------------------------
\* One pass of the supervisor.

\* The key index is replaced whole.
Index ==
    /\ pc = "index"
    /\ keys' = {id \in Server : list[id] # None}
    /\ pc' = "detach"
    /\ UNCHANGED <<outside, list, groups, detaching, known, attached, patched, tasks, edits>>

\* Mutation: a server that moved is not detached.
StaleIfGone(id) == known[id] # None /\ list[id] = None

\* A tap whose server is gone, or lives elsewhere by now.
Stale(id) == known[id] # None /\ list[id] # known[id]

\* Mutation: a tap is forgotten and not aborted.
RunsOn(id) == tap

Aborted(id) == [tap EXCEPT ![id] = "none"]

\* abort() takes effect at the task's next await: a message it is handling may
\* still bind a client, a connection that has failed still drops its server.
Abort(id) ==
    /\ pc = "detach" /\ detaching = None
    /\ Stale(id)
    /\ \E late \in {None} \cup (IF tap[id] = "live" THEN {known[id]} ELSE {})
                          \cup (IF tap[id] = "failed" THEN {"drop"} ELSE {}) :
          ghost' = [ghost EXCEPT ![id] = late]
    /\ known' = [known EXCEPT ![id] = None]
    /\ tap' = Aborted(id)
    /\ detaching' = id
    /\ UNCHANGED <<outside, pc, list, groups, keys, attached, patched, rows, inflight,
                   haunted, edits>>

\* Mutation: what a server has in the router outlives its tap.
RowsStay(id) == rows

\* Mutation: a detach empties the routing table.
RowsOfNobody(id) == [i \in Server |-> {}]

\* drop_server: everything of that server, and of no other.
RowsWithout(id) == [rows EXCEPT ![id] = {}]

Detach ==
    /\ detaching # None
    /\ rows' = RowsWithout(detaching)
    /\ haunted' = haunted \ {detaching}
    /\ attached' = attached \ {detaching}
    /\ detaching' = None
    /\ UNCHANGED <<outside, pc, list, groups, known, keys, patched, tap, ghost, inflight, edits>>

NoneStale ==
    /\ pc = "detach" /\ detaching = None
    /\ \A id \in Server : ~Stale(id)
    /\ pc' = "attach"
    /\ UNCHANGED <<outside, list, groups, detaching, followed, tasks, edits>>

Attach(id) ==
    /\ pc = "attach"
    /\ list[id] # None /\ known[id] = None
    /\ known' = [known EXCEPT ![id] = list[id]]
    /\ tap' = [tap EXCEPT ![id] = "live"]
    /\ attached' = attached \cup {id}
    /\ UNCHANGED <<outside, pass, keys, patched, ghost, rows, inflight, haunted, edits>>

AllAttached ==
    /\ pc = "attach"
    /\ \A id \in Server : list[id] = None \/ known[id] # None
    /\ pc' = "sleep"
    /\ UNCHANGED <<outside, list, groups, detaching, followed, tasks, edits>>

\* Mutation: a failed pull yields an empty list.
CachedNothing == None

\* read_cache.
Cached == cache

\* The first poll of a node that has started, or the next one.
Asks == pc \in {"start", "sleep"}

Adopt(answer) == list' = answer.servers /\ groups' = answer.patches

\* resolve: the platform's answer, as it is now, and a copy of it kept.  Writing
\* the copy may fail, leaving the old one or a torn file.
PollAnswered ==
    /\ Asks /\ ~standalone /\ up
    /\ Adopt(Answer(dash, version))
    /\ \/ cache' = Answer(dash, version) /\ UNCHANGED edits
       \/ Used /\ cache' \in {cache, None}
    /\ pc' = "patch"
    /\ UNCHANGED <<standalone, dash, version, up, torn, detaching, followed, tasks>>

\* The platform does not answer, or answers nonsense: the copy, or nothing.
PollFailed ==
    /\ Asks /\ ~standalone /\ ~up
    /\ Adopt(IF Cached = None THEN Answer(Nothing, 0) ELSE Cached)
    /\ pc' = "patch"
    /\ UNCHANGED <<outside, detaching, followed, tasks, edits>>

\* local_servers: what the file says, nothing if it does not parse.  A node that
\* starts is not one until the file parses: it exits, and is started again.
PollStore ==
    /\ Asks /\ standalone
    /\ torn => pc = "sleep"
    /\ Adopt(Answer(IF torn THEN Nothing ELSE dash, 0))
    /\ pc' = "patch"
    /\ UNCHANGED <<outside, detaching, followed, tasks, edits>>

\* The patches of the answer replace those the router has.
SetPatches ==
    /\ pc = "patch"
    /\ patched' = groups
    /\ pc' = "index"
    /\ UNCHANGED <<outside, list, groups, detaching, known, keys, attached, tasks, edits>>

Pass ==
    \/ Index \/ Detach \/ NoneStale \/ AllAttached \/ SetPatches
    \/ PollAnswered \/ PollFailed \/ PollStore
    \/ \E id \in Server : Abort(id) \/ Attach(id)

-------------------------------------------------------------------------------
\* The taps and the control API.

TapBinds(id) ==
    /\ tap[id] = "live"
    /\ rows' = [rows EXCEPT ![id] = @ \cup {known[id]}]
    /\ UNCHANGED <<outside, pass, followed, tap, ghost, inflight, haunted, edits>>

TapFails(id) ==
    /\ tap[id] = "live"
    /\ tap' = [tap EXCEPT ![id] = "failed"]
    /\ UNCHANGED <<outside, pass, followed, ghost, rows, inflight, haunted, edits>>

\* Before it connects again a tap drops what the connection left.
TapDrops(id) ==
    /\ tap[id] = "failed"
    /\ tap' = [tap EXCEPT ![id] = "away"]
    /\ rows' = RowsWithout(id)
    /\ haunted' = haunted \ {id}
    /\ UNCHANGED <<outside, pass, followed, ghost, inflight, edits>>

TapReturns(id) ==
    /\ tap[id] = "away"
    /\ tap' = [tap EXCEPT ![id] = "live"]
    /\ UNCHANGED <<outside, pass, followed, ghost, rows, inflight, haunted, edits>>

\* An aborted tap finishes what it was doing.
GhostActs(id) ==
    /\ ghost[id] # None
    /\ ghost' = [ghost EXCEPT ![id] = None]
    /\ IF ghost[id] = "drop" THEN rows' = RowsWithout(id)
       ELSE rows' = [rows EXCEPT ![id] = @ \cup {ghost[id]}]
    /\ haunted' = haunted \cup {id}
    /\ UNCHANGED <<outside, pass, followed, tap, inflight, edits>>

\* handle: the key index says which server a request is from ...
Authenticate(id) ==
    /\ id \in keys \ inflight
    /\ inflight' = inflight \cup {id}
    /\ UNCHANGED <<outside, pass, followed, tap, ghost, rows, haunted, edits>>

\* ... and the router is told in its name, later, whatever has become of it.
Serve(id) ==
    /\ id \in inflight
    /\ inflight' = inflight \ {id}
    /\ rows' = [rows EXCEPT ![id] = @ \cup {"api"}]
    /\ haunted' = IF known[id] = None THEN haunted \cup {id} ELSE haunted
    /\ UNCHANGED <<outside, pass, followed, tap, ghost, edits>>

\* The node is killed and started again: it asks once before anything else.
Restart ==
    /\ Used
    /\ pc' = "start" /\ list' = Nothing /\ groups' = 0
    /\ known' = Nothing /\ detaching' = None /\ keys' = {} /\ attached' = {}
    /\ patched' = 0
    /\ tap' = [id \in Server |-> "none"]
    /\ ghost' = [id \in Server |-> None]
    /\ rows' = [id \in Server |-> {}]
    /\ inflight' = {} /\ haunted' = {}
    /\ UNCHANGED outside

TaskActs(id) ==
    \/ TapBinds(id) \/ TapFails(id) \/ TapDrops(id) \/ TapReturns(id)
    \/ GhostActs(id) \/ Authenticate(id) \/ Serve(id)

OutsideActs ==
    \/ \E id \in Server, addr \in Addr \cup {None} : Edit(id, addr) \/ Save(id, addr)
    \/ StartSaving \/ PatchesSet \/ Reachability \/ Restart

Next == Pass \/ OutsideActs \/ \E id \in Server : TaskActs(id)

\* The supervisor's loop and the tasks of the taps run.  Nothing outside has
\* to happen, and no connection has to fail.
Fairness ==
    /\ WF_svars(Pass)
    /\ \A id \in Server :
          WF_svars(TapDrops(id)) /\ WF_svars(TapReturns(id)) /\ WF_svars(GhostActs(id))

Spec == Init /\ [][Next]_svars /\ Fairness

-------------------------------------------------------------------------------
\* Every tap that runs is known, and connects to an address.
SupervisorTypeOK ==
    /\ \A id \in Server : tap[id] = "none" <=> known[id] = None
    /\ {dash, list, known} \subseteq Listing
    /\ cache = None \/ cache.servers \in Listing
    /\ rows \in [Server -> SUBSET (Addr \cup {"api"})]
    /\ tap \in [Server -> {"none", "live", "failed", "away"}]
    /\ ghost \in [Server -> Addr \cup {"drop", None}]
    /\ UNION {keys, attached, inflight, haunted} \subseteq Server

Follows(listing) ==
    /\ known = listing
    /\ keys = {id \in Server : listing[id] # None} /\ attached = keys

\* Between two passes the key index, the taps and the attached set are those of
\* the list, a moved server's at its new address.
FollowsTheList == pc = "sleep" => Follows(list)

\* Between two passes the router holds nothing of a server that is detached, nor
\* of the address a server has moved from, unless an aborted tap or a request
\* already authenticated came after the detach.
NoGhosts ==
    pc = "sleep" => \A id \in Server \ haunted :
        rows[id] \subseteq IF known[id] = None THEN {} ELSE {known[id], "api"}

\* A server loses what it has in the router to its own detach or its own tap
\* only: "everyone else on the platform keeps talking".
OthersUndisturbed ==
    [][\A id \in Server : ~(rows[id] \subseteq rows'[id]) =>
            \/ detaching = id \/ tap[id] = "failed" \/ ghost[id] = "drop"
            \/ edits' # edits /\ known' = Nothing]_svars

\* Once the platform stays reachable the node ends up with its list and the
\* latest patches, whatever pushes, failures and restarts there were before.
CatchesUp ==
    <>[](up /\ ~standalone) => <>[](Follows(dash) /\ patched = version)

\* A platform that stays unreachable leaves the node on the last list it could
\* save; it detaches nobody on that list.
LivesOffTheCopy ==
    <>[](~up /\ ~standalone /\ cache # None)
        => <>[](cache # None /\ Follows(cache.servers) /\ patched = cache.patches)

\* A patch a console has made is not undone: the control API stores it on the
\* platform before the router has it.
PatchesNeverGoBack == [][patched' >= patched \/ known' = Nothing]_svars
===============================================================================
