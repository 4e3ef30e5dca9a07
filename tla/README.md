# rfx-voiced in TLA+

rfx-voiced is the voice node of a radio network for game servers. It attaches to
the Mumble server of every enrolled FXServer, takes each speaker's audio off it,
decides from a routing table who may hear it, renders it through the radio
chain of each listener and delivers it over websockets to game clients and
dispatch consoles. This directory models the node's control logic in TLA+, checks
it with TLC on small instances and proves what matters most with TLAPS.

The reference is the Rust source in `src/src`. The lines each definition stands
for are in `PROJECT.json`, under `map`.

## The system

| component | source | state | operations |
|---|---|---|---|
| Routing table | `router.rs` | routes (kind, holder, doublers, members, parked qualities), patch table, session maps, `keyed_by`, `took`, `pending` | bind, unbind, drop_server, open, open_conventional, close, set_member, key, unkey_as, unkey, forget_membership, forget_client, set_patches; destination, listeners_across, am_collision |
| Link lanes | `dsp.rs` (`lane_of`, `key_of`, `profile`) | none | quality to lane, lane to muted, listener to rendering |
| Control API | `control.rs` | console id counter | per-server messages (`conv.open`, `tg.open`, `tg.close`, `tg.member(s)`, `key`, `unkey`, `session.token`, `session.drop`, `stats`) and console messages (`patches.set`, `console.attach/update/detach`, `rec.index/audio`) |
| Audio sockets | `stream.rs` | tokens, sinks (client to live socket), one reader and one writer task and a queue per socket | handshake, TX_KEY, TX_UNKEY, TX_AUDIO, cleanup; send_call, send_deny, send_pcm |
| Recorder | `recorder.rs` | one open recording per route; files by day | begin, push, end, prune, index, audio |
| Mumble tap | `mumble.rs` | per connection: header in hand, channels, users, vocoder chains; a writer, keepalive and ping task and the queue between them | connect, one handler per message, sweep |
| AM mixer | `dsp.rs` (`AmMix`) | per frequency: sample queues by talker and lane | add, drain, flush |
| Supervisor | `main.rs` | list, taps, what they connect to, the attached set | poll, attach, detach, redial, patch refresh, hourly prune |
| Platform client | `platform.rs` | cache file | resolve, heartbeat |
| Server store, key index | `servers.rs` | file, hashes of keys | enroll, rotate, revoke; build, resolve |
| Varint | `varint.rs` | position in a buffer | read, write |
| DSP | `dsp.rs` | filters, Codec2, noise | signal processing |

How they meet: the router, the streams and the recorder are three mutexes shared
by every task of a multi-threaded runtime. Control handlers hold the router lock
throughout and take the other two under it. A socket's TX_KEY and TX_UNKEY take
the router lock, let it go, and then take the streams and recorder locks, so
other handlers run in between. A tap resolves each voice packet under the router
lock and sends it later. The supervisor calls `drop_server` on router and streams,
one after the other, and replaces the patch table after each poll; consoles
replace it at any time with `patches.set`.

What is hard is listed as `hazards` in `PROJECT.json`, each at its line with the
properties that are about it. In short: tasks overtake each other between two
locks; sessions, sockets and taps are replaced while the old ones are still
winding down; patches and routes change in the middle of calls; bounded queues
drop or block; connections, disk writes and polls fail half way; and a node is
killed and comes back.

What makes each component correct:

- Routing table: a held route changes hands only by preemption; a digital
  channel has one talker across a patch; what a press took a release gives back;
  an override follows a refusal; a listener's lane holds during a call and is
  current after a release; a listener hears a transmission once.
- Control API and sockets: a board is lit while somebody talks and dark in the
  end; a recording is open exactly for a call; whoever connected last is sent to;
  a revoked client falls silent.
- Recorder: what is listed can be played; nothing is overwritten; retention takes
  whole days past the window and nothing else; the index gives the newest calls.
- Tap: a header is assembled from any split of the stream; the router follows the
  users of the connection; every channel is listened to.
- AM mixer: what collides is summed, nobody waits for a talker that is gone, the
  end of a collision clips nobody.
- Supervisor: the taps, keys and patches follow the list; a failed poll lives off
  the copy; nothing of a server survives its detach.

## The modules

### Router, RouterSteady, RouterLanes, Grant

`Router` is the table. Each action is one method of `Router`, or the part of a
control handler that runs under one router lock.

| variable | code |
|---|---|
| `kind` | the entry in `routes` with `conventional` and `am` read as `Route::mode` does; `"closed"` is no entry |
| `keyed`, `also` | `Route::keyed`, `Route::also` (a vector kept free of repeats) |
| `members`, `deferred` | `Route::members`, `Route::deferred`; `None` is an absent key |
| `patches` | the patch table; the order of groups plays no part |
| `keyed_by`, `took` | the same fields; `took[c][t] = {}` is an absent entry (a group holds at least the pressed route) |
| `pending` | the entries of `pending` no older than `PREEMPT_WINDOW`; `WindowElapses` ages one out |
| `sessionClient`, `clientSession` | the two session maps |

Abstractions: `encrypted` is left out (stored, never read); a route id is a value
whose `classify` is the constant `ClassOf`; a trunked id is opened by `tg.open`
and a frequency by `conv.open`, the id spaces being disjoint; a `tg.members` batch
is its entries one after the other; a refusal that changes nothing is no action;
`joined` is defined as the least set of routes closed under the patch table, which
is what its loop computes. `console.attach` is `ConsoleUpdate` from an empty board.
Link qualities are numbers in 0..100 and `LaneOf` is the code's arithmetic.

`Grant` is the abstract specification of the floor of each route, and
`Router!GrantSpec` states that the router implements it with `holder <- keyed`.

`RouterSteady` adds two disciplines of the surroundings as specifications of
their own, because some guarantees need them: *steady* (routes and patches
change only when no press is on record, and no `unkey` comes without a client)
and *press once* (anything goes, except pressing a route again before letting go
of it). `RouterLanes` adds the history variable `told`, the last quality reported
for each member, to say what a rendering lags behind.

### Calls: the router with its boards and recordings

`Calls` extends `Router`. A unit's key and unkey, through the control API, are one
action each: table, announcement and recording under the router's lock. A
console's are split where the socket's task lets go of a lock: `TxKey` then
`TxKeyTold`; `TxUnkey`, then `TxUnkeyTold`, then `TxRecordingEnds`. `step` is what
a task has still to do, `lit` what each console's page shows, `recording` the open
recordings. `SocketDrops` is the cleanup of a socket (`release_on_drop`), `Detach`,
`Reconnect` and `BoardChanges` the console's comings and goings, `TapDrops` the loss
of a tap.

The two announcements differ, and the model keeps the difference. A unit's call is told
by `announce_call` (`AnnounceAcross`): each console hears of it once, on the first route of
the channel that it watches, counted from the route that was keyed or released; `FirstOf`
is that order. A console's call is told on its own route only (`AnnounceOn`), to the
consoles that were on it under the router's lock and to itself.

The history variable `astray` holds the routes on which the code has already missed
something. A route stays astray until it is quiet, unrecorded and dark. The gaps are:

- an announcement made after the grant had gone, or an end told or a recording closed after
  somebody had keyed again (`TxKeyTold`, `TxUnkeyTold`, `TxRecordingEnds`);
- a console's press over a patch: a page that watches a far side and shows nothing of it
  (`FarSide`), and the far side of its release;
- a module left lit on the other route of a channel that a page watches twice (`LeftLit`);
- a recording of another route of a channel, begun by a call with no unit left to release
  it (`Orphaned`);
- a socket that drops and a position that is detached while talking: one press is released
  and nobody is told;
- a page that starts to watch, or comes back, in the middle of a call
  (`MissesWhatIsUp`): nothing tells it what is up.

The invariants of `calls` speak of the other routes: they say that nothing goes
wrong *except* through those gaps. `cut_short` shows one of them without the exemption,
`LitAcrossThePatch` and `NothingStaysLit` (below) two more; that a module stays lit after its talker's socket dropped is known from
the code (`stream.rs:567`) and has no run of its own.

`LitWhileTalking` asks that a page which watches any side of a channel has some module of it
lit while anybody transmits there, mixed in on top of the holder or not, once the press has
been told. `LitAcrossThePatch` is the same without the exemptions.

### Sockets: tokens, sinks, queues

`tokens` and `sink` are `Streams`; `stage`, `queue`, `writer` are a socket's task,
its channel and its writer. `LookUp` and `Publish` are the two critical sections
of the handshake, so a `Revoke` falls between them; `Close` and `CleanUp` likewise.
`page` is what the browser shows of one talkgroup; `told` and `revoked` are history.
A queue that is full drops a frame, whatever it carries, as `try_send` does.

### Supervisor: list, taps, keys, patches

A pass is the sequence of critical sections of the loop: poll (`PollAnswered`,
`PollFailed` from the cache, or `PollStore` standalone), `SetPatches`, `Index`,
`Abort` and `Detach` of each stale tap, `Attach`, sleep. Between any two the
dashboard edits the list, consoles push patches, taps bind, fail, drop and redial,
and requests are authenticated now and served later. `ghost` is what an aborted
task still does before its next await. `cache` is the last answer written, `None`
if the file does not parse; `torn` is the standalone store while the command line
writes it in place. `Restart` kills the node and keeps what is outside it; until its first poll
the node is at `pc = "start"`, and a standalone one gets no further while the store does
not parse, because it exits then (a running one takes it for an empty list). A server is
`haunted` once an aborted tap or a late request has touched it: `NoGhosts` exempts it until it
is dropped again, so that hazard is disclosed and not covered.

### Tap and Varint

`Tap` is one connection. `wire` holds the pieces under way (a header arrives in one
piece or two; which bytes make up a piece plays no part), `header` is `Header` with
its fill count, and `Sweep` is the other branch of the `select!`, which cancels a
read. A handler that asks the server for something owes a request (`owed`) until
there is room in the queue to the writer. `FarEndActs` is the Mumble server, which
is external: it announces channels, users and voice in any order that respects what
it has announced before. `ConnectionLost`, `Drop` and `Redial` are the end of `run`
and the loop in `main.rs` around it; `aside` is a connection that `run` gave up, after a
refusal or an oversized frame, but whose writer and timers keep open.

`Varint` is the codec as operators on sequences of bytes, and `parse_voice` on top
of it. 64-bit numbers are handled in 16-bit steps so that both TLC's integers and
the provers' arithmetic stay exact. The nested negatives of `Reader::varint` are
the first byte that is no negation and the parity of those before it, which avoids
a recursive definition; `-i64::MIN`, which needs a nine-byte number below a negation
byte, is not represented.

### Audio: who hears what

`Audio` follows a voice packet from the table to the pieces sent and recorded:
`Destination`, `Listeners` (`listeners_across` with the best link of each listener),
`Renderings` (`push_wide`), `AmMix` as two functions, `queues` from rendering and
radio to a number of 20 ms frames and `seen` from radio to milliseconds, then `Best`
for the recording. A piece records who can be heard in it. The table is reduced to
what matters for that: who talks on a route, who listens and how well, and one
patch group. `out` is what the last step sent.

A tap asks the router twice about a packet, under two locks: who it is for
(`VoiceArrives`), and then whether radios collide (`Voice`). What it had the first time is
`hand`; a press, a release, a patch or a console's packet may come in between. No time
passes in between, and one packet is in hand at a time, because a tap handles its messages
one after the other. The model has one tap; `ammix` is local to it (`mumble.rs:370`), so radios
of two servers on one frequency meet in no mixer, like those on two sides of a patch
(`SummedAcrossThePatch`, below).

`Press` is `key_at` over the group: the pressed route decides, the others follow, an AM
route mixes in, an FM route lets a second radio double without holding anything, and a
console may preempt on a digital one. Whether it has been refused there before is left open,
which allows more than the code does. A radio that has lost the route it pressed talks on
the lowest it still has (`Destination`).

### Recorder: files

`pcm` and `sidecars` are the disk: an audio file is its id and how much is in it,
a push counting two so that half of one can be written; a sidecar is its metadata,
or only its id if the write was torn. `open` is `Active::open`. `Begin`, `Push` and
`End` choose whether each disk operation succeeds. `Pruned` removes days, those of
open calls included; any of them may fail, whole (`read_dir` or `remove_dir_all` gives up
before anything is gone) or halfway, leaving any of its files. `stuck` are the days the last
prune could not remove, `halved` those of them that have lost something. `Stop` is a kill or
SIGINT, neither of which finishes a recording, and `Start` is `from_env`, in a later
second or in the same one (`again`). `Index` is the set of answers `index` may
give, since calls of one second come in directory order; that a directory or a file cannot be
read when it is asked is not modelled.

The directories of `index` are sorted by name; day numbers have five digits until
the year 2243, so the model sorts them as numbers.

### Conventions

`MC*` modules hold instances for TLC, `*Proofs` modules the theorems about the module they
are named for (`RouterProofs` also about `RouterSteady`, `LanesProofs` about `RouterLanes`, `TapProofs`
also about `Varint`). A definition whose comment starts with "Mutation:" is not part of the model: it is the definition after it as a plausible
bug would have it, kept to show that a property notices. Substituting it makes TLC
report a violation.

## The runs

| run | shows |
|---|---|
| `frequencies` | press once, patches change mid-call, routes opened, closed and refined, a unit and a console on a talkgroup and an AM frequency: types; every route held is covered by a press on record; refinement of `Grant` |
| `digital` | steady, three talkgroups, two overlapping patches, two units and a console: one talker per digital channel; no accepted press arms a preemption |
| `lanes` | everything, two units over a patch, reports at qualities 7, 8, 13, 100: nothing told is lost; the lag is one lane and never keeps silence; no lane moves mid-call; a release that clears the channel catches up |
| `calls` | a unit and two consoles, one of which watches both sides, over a patch of a talkgroup and an AM frequency: recordings and boards follow calls except where astray; once all buttons are up all goes dark and closes |
| `sockets` | two connections and two tokens of one client: hello first, boards current, a revoked client deaf unless a handshake was under way, sinks lead to live sockets; boards go dark; a revoked client falls silent |
| `supervisor` | two servers, two addresses: a pass ends with taps, keys and attached set those of the list; no ghosts but the named ones; detaching one server leaves the others; catches up with a platform that stays reachable; lives off the copy of one that does not |
| `tap` | framing, roster, vocoder chains, voice packets over all varint classes, and every announced channel listened to |
| `audio` | with a patch made and torn down and a listener who moves to another lane, between and within packets: each listener hears a transmission once; radios that collide on the route they pressed are summed; only radios that are present are waited for; the end of a collision clips nobody |
| `recorder` | over failing writes and removals and a restart: listed calls can be played, retention, overwriting, the index |

Three runs expect a violation; each finding in `PROJECT.json` quotes the line that
promises otherwise.

| run | what happens |
|---|---|
| `cut_short` | a console releases; before its task reaches the recorder a unit keys the same route; the unit's recording is ended in its place and the rest of its call goes unrecorded. No socket drops and no board changes in this run (`StaySpec`), so it is about TX_UNKEY alone |
| `sink_stolen` | a page reconnects while its old socket is still half open; when the old one is found dead its cleanup removes the sink of the new one |
| `interleaved` | a radio and a console collide on an airband frequency: the radio's frames come out of the mixer, the console's go out past it, and a third who listens gets them in turn |

### Where the code departs from its comments, without a run

These properties are stated in the modules with the comment they come from, and
TLC refutes them; to see it, add the property to the configuration named.

| property | configuration | what happens |
|---|---|---|
| `RouterLanes!ClearIsCurrent` | `Lanes.cfg` | `drop_server`, `unbind` and `forget_client` clear a channel without draining what was parked (`router.rs:140`, `:865`) |
| `RouterSteady!HeldByPress` | `Frequencies.cfg` under `Spec` | a repeat press after a patch was torn down overwrites the record of the first (`router.rs:257`) |
| `RouterSteady!ArmedOnlyByRefusal` | `Frequencies.cfg` with `FmSide`, `SteadySpec` | keying the FM side of a patch arms the preemption of a unit on the trunked side (`router.rs:246`) |
| `RouterSteady!OneTalkerPerChannel` | `Digital.cfg` under `LateOpenSpec` | a talkgroup opened mid-call is not keyed by the call it is patched to (`router.rs:446`) |
| `RouterSteady!HolderIsNotAlso` | `Frequencies.cfg` with `AllAm`, `NoPatch`, `Spec` | a doubler that outlasts the first radio and keys again is holder and doubler (`router.rs:117`) |
| `Calls!LitAcrossThePatch` | `Calls.cfg` under `StaySpec` | a console keys one side of a patch and has told everybody it is going to: a page that watches the far side shows nothing (`stream.rs:402`, against `control.rs:373`) |
| `Calls!NothingStaysLit` | `Calls.cfg` with two units, `BothSides`, `WatchSpec` | a unit begins a call on one side of a patch, a second is mixed in from the other and outlasts it: a console that watches both is told the beginning on one module and the end on the other, and the first stays lit (`control.rs:392`, against `:627`) |
| `Supervisor!PatchesNeverGoBack` | `Supervisor.cfg` | a poll answered before a push and adopted after it undoes the patch for a poll interval (`main.rs:456`) |
| `Tap!RejoinedIsKnown` | `Tap.cfg` | a player is bound to a new session before the old one is removed; the removal then takes the client's session, by then the new one, with it (`mumble.rs:614`, `router.rs:290`) |
| `Tap!FatalToTheConnection` | `Tap.cfg`, one session | an oversized frame ends `run`, but the writer and the two timers hold the write half: the connection lasts until the server closes it (`mumble.rs:255`); a refusal does the same (`mumble.rs:647`) |
| `Audio!SummedAcrossThePatch` | `Interleaved.cfg` with `BothAm`, `MCTower` | radios key the two sides of a patch of two airband frequencies: each side has a mixer of its own (`mumble.rs:498`), and a listener gets the frames of the two in turn, not their sum (against `router.rs:691` and `mumble.rs:484`) |
| `Audio!WaitsForAListener` | `Audio.cfg` | a radio whose listener has moved to another lane keeps the old lane of the mixer waiting for as long as it talks (`dsp.rs:1521`) |

Also: `recorder.rs:82` says that dropping a `Recording` finalises the sidecar, and
there is no `Drop`: a node that stops loses the sidecars of its open calls
(`Recorder!Stop`). A node that is stopped and started again within one second counts from
one again and may give a recording the name of an older one, which is truncated
(`recorder.rs:175`; `NeverOverwritten` and `ListedIsPlayable` exempt that second). A day whose
removal stops halfway is ignored (`recorder.rs:216`) and may leave metadata without audio,
which `index` lists (exempt as `halved`). What a collision leaves in the mixer comes out with the next
packet on that route however late that is, and is not in the recording unless it is
the last of the cleanest lane.

## Bounds

- Routes: two or three, because a patch needs two and transitivity three. Units and
  consoles: a conflict needs two talkers, a preemption a unit and a console, a
  misdirected announcement two consoles. Qualities: the two sides of the audible
  edge, one a lane above, and full quieting.
- `calls`: the patch table does not change (that is `Router`'s subject). One console watches
  one side of the patch or, after its position is detached, nothing, and the other both;
  the second talker on the frequency is a console mixed in on top of the unit, or the unit
  on top of it. Two units were tried with one console of any board (168 thousand states).
- `sockets`: two connections, because the races are between an old and a new one;
  `QUEUE = 2` lets a queue hold the hello and an event, and overflow.
- `supervisor`: `EDITS = 2` of edits, pushes, failing writes and restarts together,
  with any number of outages, failures and passes in between: two changes are
  needed for one to be stale when the other arrives.
- `tap`: `WIRE = 2` messages under way, `OUT = 1` of room in the queue, two session
  ids and two players, so that an id passes from one to the other; numbers on both
  sides of the varint classes, up to 2^31 - 1, TLC's integers. The theorems have no bound.
- `audio`: two radios and a console that transmits and listens; packets of 60 ms, a
  clock step of 120, so that a radio heard of one step ago is present and two steps ago
  gone; `BACKLOG = 0`, a radio with frames queued waits with its next packet (which leaves up to
  a packet in a queue, and lets one radio fall behind the other); `MOVES = 1` change of patch,
  of the listener's lane, or of both, during the calls. `interleaved` allows a packet more in
  the queue. The theorems are for any of them.
- `recorder`: days of two seconds, a window of one day, a clock of five readings (0 to 4), two
  calls, `STARTS = 1` restart: a call over a day's turn, a prune past the window and a prune
  after one that failed, a restart in the same second or later, and both edges of the window.

Nothing else is bounded: the variables of `Router` and `Calls` are finite.
`CHECK_DEADLOCK FALSE` stands in `Recorder.cfg` only, whose clock stops at `END`.
`Digital.cfg` uses the symmetry of the two units, for safety properties only.

## Fairness

Stated in the modules and nowhere stronger than the runtime's scheduling:

- `Calls`: a socket's task finishes the message it has begun. Nobody has to press,
  let go or leave.
- `Sockets`: a handshake that has looked its token up is published, a closed socket
  is cleaned up, and a writer writes what is queued unless its connection breaks.
- `Supervisor`: the loop of the pass and the redial of a failed tap run, and an aborted
  task reaches its next await. The platform, the dashboard and the network owe nothing.
- `Tap`: the reader takes what has arrived, the writer writes, a failed connection
  is dropped and redialled. Strong fairness of `Ask`, because the timers' pings
  compete for the same queue, and tokio's channel serves its senders in order.

`Router`, `Audio` and `Recorder` act only when called and assume none.

## The theorems

Every theorem holds for every value of the constants that satisfies the named
assumption of the module (`RouterAssumption`, `SocketsAssumption`,
`SupervisorAssumption`, `RecorderAssumption`, `TapAssumption`, `VarintAssumption`,
`AudioAssumption`, `CallsAssumption`). Those say of what kind a constant is and what the
program tells apart (a radio is not a console, a client is not `None`), never how many
there are. A module proves an inductive invariant and draws its theorems from it. Where
an argument has steps that are about data only, they are lemmas of their own. Between
them the theorems state every invariant and every action property that a passing run
checks.

`RouterProofs`, about the table:

- `TypeCorrect`: `Spec => []TypeOK`. Inductive as it stands. The part that takes
  an argument is `pending`: a verdict of `Busy` is given to consoles only.
- `NobodyKeyedForEver`: `PressOnceSpec => []HeldByPress`. `TypeOK /\ HeldByPress` is
  inductive: a press gains only routes of the group it records, a release lets go
  of all that its record names, and every departure gives up routes and records
  together. Where a held route may be pressed again it is false.
- `RouterImplementsGrant`: `Spec => GrantSpec`. Every action maps to taking the
  routes a press won, to clearing a set of routes, or to a stutter.
- `DigitalDoesNotDouble`: `SteadySpec => []OneTalkerPerChannel`. The invariant
  (`DigitalInv`) adds to `TypeOK /\ HeldByPress` that a press on record took the whole
  channel as it is now (`TookIsChannel`, which the steady discipline keeps true because
  patches wait for all buttons to be up), that closed routes have no holder, that nobody
  is mixed in on a talkgroup, and that the open routes of a channel have one holder
  (`Uniform`). One talker follows; without `Uniform` a press could win half a channel.
- `DigitalArmsNobody`: `SteadySpec => ArmedOnlyByRefusal`, if all routes are talkgroups, as
  they are in the run. From the same invariant, and that no frequency is ever opened then
  (`AllTrunked`): a sibling of the pressed route is held by whoever held that one
  (`Uniform`), who is the presser, nobody, or a unit just released by preemption, so it
  never answers `Busy`. With an FM route in a patch the property is false (the table
  of departures above has the run), so the hypothesis cannot go.

`LanesProofs`, about the deadband:

- `NoReportIsLost` and `DeadbandCostsOneLane`: `TypeOK` with `NothingToldIsLost` and
  `OneLaneBehind` is inductive. A drain sets what is rendered to what is known; a
  report either sets it too or is parked because it is one lane off and as audible.
- `NobodyIsMovedMidCall` and `ReleaseIsExact` are about single steps. The second takes
  `JoinedAlike`, that the routes of a channel have the same channel, to see that the
  release of one route finds the others clear too.

`SocketsProofs`: `SinksAreLive`, `RevokedHearNothing`, `HelloComesFirst`,
`BoardsAreCurrent`. The invariant
relates a sink to the stage of the socket behind it (`Owned`), a handshake half done to
the tokens of its client (`LookedIsAuthorized`, which is what the window between lookup
and publication would break and `revoked` accounts for), and a blank page to the head of
its queue (`HelloIsNext`). The last theorem adds `WillBeCurrent`: unless an event was
dropped, page and queue together end with the last event sent, the page showing it
(`Settled`) or the queue holding it with no other event behind it (`Coming`). Queueing
and writing both keep that (`QueuedComesLast`, `WrittenIsShown`).

`SupervisorProofs`: `EachTapIsKnown`, `NodeFollowsTheList`, `DetachLeavesNothing`,
`OthersKeepTalking`. The second says what holds between passes only; the invariant says what each step of a pass
has achieved (`PhaseDone`), that taps and known servers are the same set (`TapsAreKnown`),
that the server being detached has no tap any more (`Detaching`), and what the router may
hold of each server meanwhile (`RowsAreOfTheTap`).

`RecorderProofs`: `WhatIsListedPlays`, `NothingOutstaysTheWindow`, `NoRecordingIsOverwritten`,
`RetentionSparesTheWindow`. All rest on names being new (`AllPast`: every id on disk or
open is older than the clock, or of this second and counted already, or of a second in `again`).
`OpenIsWritten` is what makes a sidecar true when it is written: an open recording is
wholly in its file, or a prune got at its directory, whole or in part (`Got`).
`StuckArePast` says that what a prune could not remove was past the window then and is
today: so a failed removal excuses nothing that is in the window, and what it left is due
again at the next prune, which keeps it only by failing itself.

`IndexGivesTheNewest`, in the same module, needs only that the sidecars are finitely many.
`index` stops at the newest directory from which on there are `limit` calls; there is such
a directory, or all are read (`GreatestThereIs`, from strict inclusion being well founded
on finite sets). A call that is not among those read is of an older directory, hence
of an earlier second (`DaysInOrder`), and one that was cut off is no newer than what was kept
(`CollectedIsNewest`).

`TapProofs`: `TapKeepsItsBounds`, `FramingIsNeverLost`, `RouterKnowsTheUsers`,
`NobodyInheritsAChain`, `VoiceIsAttributed`. The invariant `Stream` says that what is in
hand and on the wire are the pieces of a sequence of whole messages (`Carries`) and that
of each session the last thing said, by a message or to the tap before, is what holds at
the far end (`Told`): reading moves pieces and keeps the sequence, handling takes its
head off, and a user is announced only where the last thing said is that nobody is there
(`AnnouncedIsNew`). That is why a session id that passes to another player finds neither a
client nor a vocoder chain.

Of the codec, in the same module: `VarintIsReadBack`, for every number below 2^63 and any
bytes around it. By the length class of the number (`PlainReads`): each class of the writer has a first
byte in the reader's range of that class, and the bytes add up (`WordValue`, `Halves`);
`MagnitudeHere` shows that no number written is taken for a negation, `Embedded` carries
the bytes into a buffer. `PacketParses` puts three of them and the audio together, and
gives `VoiceIsAttributed`.

`AudioProofs`, about the mixer:

- `NobodyHearsTwice` and `CollisionsAreSummed`. The invariant says of every mix that
  only AM lanes are queued, by radios, and that no queue is longer than `BACKLOG + FRAMES`
  (`MixesOK`, `IsMix`): a drain then has a shortest queue (`LeastThereIs`) and takes that
  much from each, and a flush a longest one; and of the packet in hand that its listeners are
  served on one route each (`HandOK`), although the table may have changed since it came. One
  client is served on one route of a patch (`ServedOnce`), hence in one lane, and what a drain
  gives has one piece for each lane (`DrainedOnce`) and none for the renderings sent beside
  it. `CollisionsAreSummed` is of the radios on one route; `interleaved` and
  `SummedAcrossThePatch` show where the promise fails for a console and over a patch.
- `NobodyStalls` and `NobodyIsClipped` are about single packets: what `Retired` leaves in
  a lane is of radios heard of in time (`RetiredIs`), and what leaves a queue is in the sum
  (`VoiceFlushes`).

`CallsProofs`, about the calls on top of the table: `EveryRecordingIsOfACall`,
`EveryTalkerIsRecorded`, `ModulesStayLit`. No one of the three is inductive: between the
router's lock and the recorder's, what is true of a route depends on what an interrupted
task still has to do. The invariant `CallsInv` says what that is:

- `HeldOpenly`: whoever holds a route has a button of its channel down, so a release or a
  drop, which knows of the button only, reaches every route held;
- `OneMessage`: while a socket's message is half served its client has no press on record but
  the one that message made, so the task that goes on cannot meet a second of its own;
- `OpenForCause`: an open recording has a talker, a unit that has yet to let go, or a task
  that is to end *that* recording (`Cause`); the run checks only that somebody is about;
- `ToldToAll`: a task that is to announce a call, and whose console still holds the route, has
  all on its list who watch it now; whoever comes to watch meanwhile makes it astray;
- `TookIsChannel`, from `RouterProofs`, for patches that do not change during a call.

`ModulesStayLit` is of every page on any route of a channel, for any boards and patches. A page
that a unit's press is told to is lit on the first route it watches; a press that is
accepted while others talk adds nobody to those who must be told, and the last of them to let
go is the one whose release darkens the channel, the holder or not.

The theorems except the routes in `astray`: those on which one of the gaps listed with the
module `Calls` has happened and that are not quiet yet.

Only model-checked: liveness (`QuietAtLast`, `BoardGoesDark`, `RevokedFallsSilent`,
`CatchesUp`, `LivesOffTheCopy`, `HearsEveryChannel`), which is out of the prover's reach,
and `AmMix` as the fold over its lanes that it is, for any number of frames (an induction
over data).

## Not modelled

- The vocoder and effects chain: floating point signal processing.
- TLS, HTTP and JSON parsing, the replies of the control API, `stats` and the
  heartbeat: they change no state, and the statistics are read by nobody in the node.
- Key hashing and the comparison of keys: `Authenticate` takes the id a key resolves to.
- Panics and poisoned mutexes: no handler is modelled as failing under a lock.
- Deadlock of the three mutexes: every task takes them in the order router, streams,
  recorder, or one after the other, so there is no cycle.
- Generated protocol code, build and packaging.

## The plan

Modelled in this order: the table, its disciplines and lanes, then calls over it,
sockets, the supervisor, taps and their codec, audio, recordings. What
is left is liveness for any number of servers and sockets, which stays with TLC.
