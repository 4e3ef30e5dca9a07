--------------------------- MODULE SupervisorProofs ---------------------------
(***************************************************************************)
(* The node follows its list of servers, for any servers and addresses:    *)
(* what holds in the middle of a pass for the key index, the taps, the     *)
(* attached set and the routing table to agree at its end.                 *)
(***************************************************************************)
EXTENDS Supervisor, TLAPS

SupTypes ==
    /\ pc \in {"start", "sleep", "patch", "index", "detach", "attach"}
    /\ dash \in Listing /\ list \in Listing /\ known \in Listing
    /\ cache # None => cache.servers \in Listing
    /\ detaching \in Server \cup {None}
    /\ keys \subseteq Server /\ inflight \subseteq Server /\ haunted \subseteq Server
    /\ rows \in [Server -> SUBSET (Addr \cup {"api"})]
    /\ tap \in [Server -> {"none", "live", "failed", "away"}]
    /\ ghost \in [Server -> Addr \cup {"drop", None}]
    /\ edits \in Nat

\* There is a task for exactly the taps that are known.
TapsAreKnown == \A id \in Server : tap[id] = "none" <=> known[id] = None

\* A server is being detached during the detach phase only, and has no tap then.
\* The heartbeat reports it until its rows are gone.
Detaching ==
    /\ detaching # None => pc = "detach" /\ known[detaching] = None
    /\ attached = {id \in Server : known[id] # None \/ id = detaching}

\* What each phase of the pass has achieved.
PhaseDone ==
    /\ pc \in {"detach", "attach", "sleep"} => keys = {id \in Server : list[id] # None}
    /\ pc \in {"attach", "sleep"} => \A id \in Server : known[id] \in {None, list[id]}
    /\ pc = "sleep" => known = list

\* At any moment the router holds of a server what its present tap met, unless
\* the detach is still to come or something late has touched it.
RowsAreOfTheTap ==
    \A id \in Server \ haunted : id # detaching =>
        rows[id] \subseteq IF known[id] = None THEN {} ELSE {known[id], "api"}

\* What OthersUndisturbed asks of a step.
RowsTakenInOwnName ==
    \A id \in Server : ~(rows[id] \subseteq rows'[id]) =>
        \/ detaching = id \/ tap[id] = "failed" \/ ghost[id] = "drop"
        \/ edits' # edits /\ known' = Nothing

SupInv == SupTypes /\ TapsAreKnown /\ Detaching /\ PhaseDone /\ RowsAreOfTheTap

-------------------------------------------------------------------------------

\* Every action keeps the types.
LEMMA TypesPreserved ==
    ASSUME SupTypes, TapsAreKnown, [Next]_svars
    PROVE  SupTypes'
<1> USE SupervisorAssumption DEF Listing, Nothing, SupTypes, TapsAreKnown
<1>1. ASSUME Index PROVE SupTypes'
    BY <1>1 DEF Index, outside, tasks
<1>2. ASSUME NoneStale PROVE SupTypes'
    BY <1>2 DEF NoneStale, Stale, outside, followed, tasks
<1>3. ASSUME Detach PROVE SupTypes'
    BY <1>3 DEF Detach, RowsWithout, outside
<1>4. ASSUME AllAttached PROVE SupTypes'
    BY <1>4 DEF AllAttached, outside, followed, tasks
<1>5. ASSUME SetPatches PROVE SupTypes'
    BY <1>5 DEF SetPatches, outside, tasks
<1>6. ASSUME PollAnswered PROVE SupTypes'
    BY <1>6 DEF PollAnswered, Asks, Adopt, Answer, Used, followed, tasks
<1>7. ASSUME PollFailed PROVE SupTypes'
    BY <1>7 DEF PollFailed, Asks, Adopt, Answer, Cached, outside, followed, tasks
<1>8. ASSUME PollStore PROVE SupTypes'
    BY <1>8 DEF PollStore, Asks, Adopt, Answer, outside, followed, tasks
<1>9. ASSUME NEW id \in Server, Abort(id) PROVE SupTypes'
    BY <1>9 DEF Abort, Stale, Aborted, outside
<1>10. ASSUME NEW id \in Server, Attach(id) PROVE SupTypes'
    BY <1>10 DEF Attach, outside, pass
<1>11. ASSUME OutsideActs PROVE SupTypes'
  <2>1. ASSUME NEW i \in Server, NEW addr \in Addr \cup {None}, Edit(i, addr) PROVE SupTypes'
    BY <2>1 DEF Edit, Used, pass, followed, tasks
  <2>2. ASSUME NEW i \in Server, NEW addr \in Addr \cup {None}, Save(i, addr) PROVE SupTypes'
    BY <2>2 DEF Save, pass, followed, tasks
  <2>3. ASSUME StartSaving PROVE SupTypes'
    BY <2>3 DEF StartSaving, Used, pass, followed, tasks
  <2>4. ASSUME PatchesSet PROVE SupTypes'
    BY <2>4 DEF PatchesSet, Used, pass, tasks
  <2>5. ASSUME Reachability PROVE SupTypes'
    BY <2>5 DEF Reachability, pass, followed, tasks
  <2>6. ASSUME Restart PROVE SupTypes'
    BY <2>6 DEF Restart, Used, outside
  <2> QED
    BY <1>11, <2>1, <2>2, <2>3, <2>4, <2>5, <2>6 DEF OutsideActs
<1>12. ASSUME NEW id \in Server, TapBinds(id) PROVE SupTypes'
    BY <1>12 DEF TapBinds, outside, pass, followed
<1>13. ASSUME NEW id \in Server, TapFails(id) PROVE SupTypes'
    BY <1>13 DEF TapFails, outside, pass, followed
<1>14. ASSUME NEW id \in Server, TapDrops(id) PROVE SupTypes'
    BY <1>14 DEF TapDrops, RowsWithout, outside, pass, followed
<1>15. ASSUME NEW id \in Server, TapReturns(id) PROVE SupTypes'
    BY <1>15 DEF TapReturns, outside, pass, followed
<1>16. ASSUME NEW id \in Server, GhostActs(id) PROVE SupTypes'
    BY <1>16 DEF GhostActs, RowsWithout, outside, pass, followed
<1>17. ASSUME NEW id \in Server, Authenticate(id) PROVE SupTypes'
    BY <1>17 DEF Authenticate, outside, pass, followed
<1>18. ASSUME NEW id \in Server, Serve(id) PROVE SupTypes'
    BY <1>18 DEF Serve, outside, pass, followed
<1>19. CASE UNCHANGED svars
    BY <1>19 DEF svars, outside, pass, followed, tasks
<1> QED
    BY <1>1, <1>2, <1>3, <1>4, <1>5, <1>6, <1>7, <1>8, <1>9, <1>10, <1>11,
       <1>12, <1>13, <1>14, <1>15, <1>16, <1>17, <1>18, <1>19
       DEF Next, Pass, TaskActs

\* A task is spawned and aborted together with what is known of it.
LEMMA TapsPreserved ==
    ASSUME SupTypes, TapsAreKnown, [Next]_svars
    PROVE  TapsAreKnown'
<1> USE SupervisorAssumption DEF Listing, Nothing, SupTypes, TapsAreKnown
<1>1. ASSUME Index PROVE TapsAreKnown'
    BY <1>1 DEF Index, outside, tasks
<1>2. ASSUME NoneStale PROVE TapsAreKnown'
    BY <1>2 DEF NoneStale, Stale, outside, followed, tasks
<1>3. ASSUME Detach PROVE TapsAreKnown'
    BY <1>3 DEF Detach, RowsWithout, outside
<1>4. ASSUME AllAttached PROVE TapsAreKnown'
    BY <1>4 DEF AllAttached, outside, followed, tasks
<1>5. ASSUME SetPatches PROVE TapsAreKnown'
    BY <1>5 DEF SetPatches, outside, tasks
<1>6. ASSUME PollAnswered PROVE TapsAreKnown'
    BY <1>6 DEF PollAnswered, Asks, Adopt, Answer, Used, followed, tasks
<1>7. ASSUME PollFailed PROVE TapsAreKnown'
    BY <1>7 DEF PollFailed, Asks, Adopt, Answer, Cached, outside, followed, tasks
<1>8. ASSUME PollStore PROVE TapsAreKnown'
    BY <1>8 DEF PollStore, Asks, Adopt, Answer, outside, followed, tasks
<1>9. ASSUME NEW id \in Server, Abort(id) PROVE TapsAreKnown'
    BY <1>9 DEF Abort, Stale, Aborted, outside
<1>10. ASSUME NEW id \in Server, Attach(id) PROVE TapsAreKnown'
    BY <1>10 DEF Attach, outside, pass
<1>11. ASSUME OutsideActs PROVE TapsAreKnown'
  <2>1. ASSUME NEW i \in Server, NEW addr \in Addr \cup {None}, Edit(i, addr) PROVE TapsAreKnown'
    BY <2>1 DEF Edit, Used, pass, followed, tasks
  <2>2. ASSUME NEW i \in Server, NEW addr \in Addr \cup {None}, Save(i, addr) PROVE TapsAreKnown'
    BY <2>2 DEF Save, pass, followed, tasks
  <2>3. ASSUME StartSaving PROVE TapsAreKnown'
    BY <2>3 DEF StartSaving, Used, pass, followed, tasks
  <2>4. ASSUME PatchesSet PROVE TapsAreKnown'
    BY <2>4 DEF PatchesSet, Used, pass, tasks
  <2>5. ASSUME Reachability PROVE TapsAreKnown'
    BY <2>5 DEF Reachability, pass, followed, tasks
  <2>6. ASSUME Restart PROVE TapsAreKnown'
    BY <2>6 DEF Restart, Used, outside
  <2> QED
    BY <1>11, <2>1, <2>2, <2>3, <2>4, <2>5, <2>6 DEF OutsideActs
<1>12. ASSUME NEW id \in Server, TapBinds(id) PROVE TapsAreKnown'
    BY <1>12 DEF TapBinds, outside, pass, followed
<1>13. ASSUME NEW id \in Server, TapFails(id) PROVE TapsAreKnown'
    BY <1>13 DEF TapFails, outside, pass, followed
<1>14. ASSUME NEW id \in Server, TapDrops(id) PROVE TapsAreKnown'
    BY <1>14 DEF TapDrops, RowsWithout, outside, pass, followed
<1>15. ASSUME NEW id \in Server, TapReturns(id) PROVE TapsAreKnown'
    BY <1>15 DEF TapReturns, outside, pass, followed
<1>16. ASSUME NEW id \in Server, GhostActs(id) PROVE TapsAreKnown'
    BY <1>16 DEF GhostActs, RowsWithout, outside, pass, followed
<1>17. ASSUME NEW id \in Server, Authenticate(id) PROVE TapsAreKnown'
    BY <1>17 DEF Authenticate, outside, pass, followed
<1>18. ASSUME NEW id \in Server, Serve(id) PROVE TapsAreKnown'
    BY <1>18 DEF Serve, outside, pass, followed
<1>19. CASE UNCHANGED svars
    BY <1>19 DEF svars, outside, pass, followed, tasks
<1> QED
    BY <1>1, <1>2, <1>3, <1>4, <1>5, <1>6, <1>7, <1>8, <1>9, <1>10, <1>11,
       <1>12, <1>13, <1>14, <1>15, <1>16, <1>17, <1>18, <1>19
       DEF Next, Pass, TaskActs

\* A detach is over before the pass goes on.
LEMMA DetachingPreserved ==
    ASSUME SupTypes, Detaching, [Next]_svars
    PROVE  Detaching'
<1> USE SupervisorAssumption DEF Listing, Nothing, SupTypes, Detaching
<1>1. ASSUME Index PROVE Detaching'
    BY <1>1 DEF Index, outside, tasks
<1>2. ASSUME NoneStale PROVE Detaching'
    BY <1>2 DEF NoneStale, Stale, outside, followed, tasks
<1>3. ASSUME Detach PROVE Detaching'
    BY <1>3 DEF Detach, RowsWithout, outside
<1>4. ASSUME AllAttached PROVE Detaching'
    BY <1>4 DEF AllAttached, outside, followed, tasks
<1>5. ASSUME SetPatches PROVE Detaching'
    BY <1>5 DEF SetPatches, outside, tasks
<1>6. ASSUME PollAnswered PROVE Detaching'
    BY <1>6 DEF PollAnswered, Asks, Adopt, Answer, Used, followed, tasks
<1>7. ASSUME PollFailed PROVE Detaching'
    BY <1>7 DEF PollFailed, Asks, Adopt, Answer, Cached, outside, followed, tasks
<1>8. ASSUME PollStore PROVE Detaching'
    BY <1>8 DEF PollStore, Asks, Adopt, Answer, outside, followed, tasks
<1>9. ASSUME NEW id \in Server, Abort(id) PROVE Detaching'
    BY <1>9 DEF Abort, Stale, Aborted, outside
<1>10. ASSUME NEW id \in Server, Attach(id) PROVE Detaching'
    BY <1>10 DEF Attach, outside, pass
<1>11. ASSUME OutsideActs PROVE Detaching'
  <2>1. ASSUME NEW i \in Server, NEW addr \in Addr \cup {None}, Edit(i, addr) PROVE Detaching'
    BY <2>1 DEF Edit, Used, pass, followed, tasks
  <2>2. ASSUME NEW i \in Server, NEW addr \in Addr \cup {None}, Save(i, addr) PROVE Detaching'
    BY <2>2 DEF Save, pass, followed, tasks
  <2>3. ASSUME StartSaving PROVE Detaching'
    BY <2>3 DEF StartSaving, Used, pass, followed, tasks
  <2>4. ASSUME PatchesSet PROVE Detaching'
    BY <2>4 DEF PatchesSet, Used, pass, tasks
  <2>5. ASSUME Reachability PROVE Detaching'
    BY <2>5 DEF Reachability, pass, followed, tasks
  <2>6. ASSUME Restart PROVE Detaching'
    BY <2>6 DEF Restart, Used, outside
  <2> QED
    BY <1>11, <2>1, <2>2, <2>3, <2>4, <2>5, <2>6 DEF OutsideActs
<1>12. ASSUME NEW id \in Server, TapBinds(id) PROVE Detaching'
    BY <1>12 DEF TapBinds, outside, pass, followed
<1>13. ASSUME NEW id \in Server, TapFails(id) PROVE Detaching'
    BY <1>13 DEF TapFails, outside, pass, followed
<1>14. ASSUME NEW id \in Server, TapDrops(id) PROVE Detaching'
    BY <1>14 DEF TapDrops, RowsWithout, outside, pass, followed
<1>15. ASSUME NEW id \in Server, TapReturns(id) PROVE Detaching'
    BY <1>15 DEF TapReturns, outside, pass, followed
<1>16. ASSUME NEW id \in Server, GhostActs(id) PROVE Detaching'
    BY <1>16 DEF GhostActs, RowsWithout, outside, pass, followed
<1>17. ASSUME NEW id \in Server, Authenticate(id) PROVE Detaching'
    BY <1>17 DEF Authenticate, outside, pass, followed
<1>18. ASSUME NEW id \in Server, Serve(id) PROVE Detaching'
    BY <1>18 DEF Serve, outside, pass, followed
<1>19. CASE UNCHANGED svars
    BY <1>19 DEF svars, outside, pass, followed, tasks
<1> QED
    BY <1>1, <1>2, <1>3, <1>4, <1>5, <1>6, <1>7, <1>8, <1>9, <1>10, <1>11,
       <1>12, <1>13, <1>14, <1>15, <1>16, <1>17, <1>18, <1>19
       DEF Next, Pass, TaskActs

\* Each phase of a pass leaves to the next what that one needs.
LEMMA PhasePreserved ==
    ASSUME SupTypes, Detaching, PhaseDone, [Next]_svars
    PROVE  PhaseDone'
<1> USE SupervisorAssumption DEF Listing, Nothing, SupTypes, Detaching, PhaseDone
<1>1. ASSUME Index PROVE PhaseDone'
    BY <1>1 DEF Index, outside, tasks
<1>2. ASSUME NoneStale PROVE PhaseDone'
    BY <1>2 DEF NoneStale, Stale, outside, followed, tasks
<1>3. ASSUME Detach PROVE PhaseDone'
    BY <1>3 DEF Detach, RowsWithout, outside
<1>4. ASSUME AllAttached PROVE PhaseDone'
    BY <1>4 DEF AllAttached, outside, followed, tasks
<1>5. ASSUME SetPatches PROVE PhaseDone'
    BY <1>5 DEF SetPatches, outside, tasks
<1>6. ASSUME PollAnswered PROVE PhaseDone'
    BY <1>6 DEF PollAnswered, Asks, Adopt, Answer, Used, followed, tasks
<1>7. ASSUME PollFailed PROVE PhaseDone'
    BY <1>7 DEF PollFailed, Asks, Adopt, Answer, Cached, outside, followed, tasks
<1>8. ASSUME PollStore PROVE PhaseDone'
    BY <1>8 DEF PollStore, Asks, Adopt, Answer, outside, followed, tasks
<1>9. ASSUME NEW id \in Server, Abort(id) PROVE PhaseDone'
    BY <1>9 DEF Abort, Stale, Aborted, outside
<1>10. ASSUME NEW id \in Server, Attach(id) PROVE PhaseDone'
    BY <1>10 DEF Attach, outside, pass
<1>11. ASSUME OutsideActs PROVE PhaseDone'
  <2>1. ASSUME NEW i \in Server, NEW addr \in Addr \cup {None}, Edit(i, addr) PROVE PhaseDone'
    BY <2>1 DEF Edit, Used, pass, followed, tasks
  <2>2. ASSUME NEW i \in Server, NEW addr \in Addr \cup {None}, Save(i, addr) PROVE PhaseDone'
    BY <2>2 DEF Save, pass, followed, tasks
  <2>3. ASSUME StartSaving PROVE PhaseDone'
    BY <2>3 DEF StartSaving, Used, pass, followed, tasks
  <2>4. ASSUME PatchesSet PROVE PhaseDone'
    BY <2>4 DEF PatchesSet, Used, pass, tasks
  <2>5. ASSUME Reachability PROVE PhaseDone'
    BY <2>5 DEF Reachability, pass, followed, tasks
  <2>6. ASSUME Restart PROVE PhaseDone'
    BY <2>6 DEF Restart, Used, outside
  <2> QED
    BY <1>11, <2>1, <2>2, <2>3, <2>4, <2>5, <2>6 DEF OutsideActs
<1>12. ASSUME NEW id \in Server, TapBinds(id) PROVE PhaseDone'
    BY <1>12 DEF TapBinds, outside, pass, followed
<1>13. ASSUME NEW id \in Server, TapFails(id) PROVE PhaseDone'
    BY <1>13 DEF TapFails, outside, pass, followed
<1>14. ASSUME NEW id \in Server, TapDrops(id) PROVE PhaseDone'
    BY <1>14 DEF TapDrops, RowsWithout, outside, pass, followed
<1>15. ASSUME NEW id \in Server, TapReturns(id) PROVE PhaseDone'
    BY <1>15 DEF TapReturns, outside, pass, followed
<1>16. ASSUME NEW id \in Server, GhostActs(id) PROVE PhaseDone'
    BY <1>16 DEF GhostActs, RowsWithout, outside, pass, followed
<1>17. ASSUME NEW id \in Server, Authenticate(id) PROVE PhaseDone'
    BY <1>17 DEF Authenticate, outside, pass, followed
<1>18. ASSUME NEW id \in Server, Serve(id) PROVE PhaseDone'
    BY <1>18 DEF Serve, outside, pass, followed
<1>19. CASE UNCHANGED svars
    BY <1>19 DEF svars, outside, pass, followed, tasks
<1> QED
    BY <1>1, <1>2, <1>3, <1>4, <1>5, <1>6, <1>7, <1>8, <1>9, <1>10, <1>11,
       <1>12, <1>13, <1>14, <1>15, <1>16, <1>17, <1>18, <1>19
       DEF Next, Pass, TaskActs

\* Rows appear in the name of a tap that is known, or are on record as late.
LEMMA RowsPreserved ==
    ASSUME SupTypes, TapsAreKnown, Detaching, RowsAreOfTheTap, [Next]_svars
    PROVE  RowsAreOfTheTap'
<1> USE SupervisorAssumption DEF Listing, Nothing, SupTypes, TapsAreKnown, Detaching, RowsAreOfTheTap
<1>1. ASSUME Index PROVE RowsAreOfTheTap'
    BY <1>1 DEF Index, outside, tasks
<1>2. ASSUME NoneStale PROVE RowsAreOfTheTap'
    BY <1>2 DEF NoneStale, Stale, outside, followed, tasks
<1>3. ASSUME Detach PROVE RowsAreOfTheTap'
    BY <1>3 DEF Detach, RowsWithout, outside
<1>4. ASSUME AllAttached PROVE RowsAreOfTheTap'
    BY <1>4 DEF AllAttached, outside, followed, tasks
<1>5. ASSUME SetPatches PROVE RowsAreOfTheTap'
    BY <1>5 DEF SetPatches, outside, tasks
<1>6. ASSUME PollAnswered PROVE RowsAreOfTheTap'
    BY <1>6 DEF PollAnswered, Asks, Adopt, Answer, Used, followed, tasks
<1>7. ASSUME PollFailed PROVE RowsAreOfTheTap'
    BY <1>7 DEF PollFailed, Asks, Adopt, Answer, Cached, outside, followed, tasks
<1>8. ASSUME PollStore PROVE RowsAreOfTheTap'
    BY <1>8 DEF PollStore, Asks, Adopt, Answer, outside, followed, tasks
<1>9. ASSUME NEW id \in Server, Abort(id) PROVE RowsAreOfTheTap'
    BY <1>9 DEF Abort, Stale, Aborted, outside
<1>10. ASSUME NEW id \in Server, Attach(id) PROVE RowsAreOfTheTap'
    BY <1>10 DEF Attach, outside, pass
<1>11. ASSUME OutsideActs PROVE RowsAreOfTheTap'
  <2>1. ASSUME NEW i \in Server, NEW addr \in Addr \cup {None}, Edit(i, addr) PROVE RowsAreOfTheTap'
    BY <2>1 DEF Edit, Used, pass, followed, tasks
  <2>2. ASSUME NEW i \in Server, NEW addr \in Addr \cup {None}, Save(i, addr) PROVE RowsAreOfTheTap'
    BY <2>2 DEF Save, pass, followed, tasks
  <2>3. ASSUME StartSaving PROVE RowsAreOfTheTap'
    BY <2>3 DEF StartSaving, Used, pass, followed, tasks
  <2>4. ASSUME PatchesSet PROVE RowsAreOfTheTap'
    BY <2>4 DEF PatchesSet, Used, pass, tasks
  <2>5. ASSUME Reachability PROVE RowsAreOfTheTap'
    BY <2>5 DEF Reachability, pass, followed, tasks
  <2>6. ASSUME Restart PROVE RowsAreOfTheTap'
    BY <2>6 DEF Restart, Used, outside
  <2> QED
    BY <1>11, <2>1, <2>2, <2>3, <2>4, <2>5, <2>6 DEF OutsideActs
<1>12. ASSUME NEW id \in Server, TapBinds(id) PROVE RowsAreOfTheTap'
    BY <1>12 DEF TapBinds, outside, pass, followed
<1>13. ASSUME NEW id \in Server, TapFails(id) PROVE RowsAreOfTheTap'
    BY <1>13 DEF TapFails, outside, pass, followed
<1>14. ASSUME NEW id \in Server, TapDrops(id) PROVE RowsAreOfTheTap'
    BY <1>14 DEF TapDrops, RowsWithout, outside, pass, followed
<1>15. ASSUME NEW id \in Server, TapReturns(id) PROVE RowsAreOfTheTap'
    BY <1>15 DEF TapReturns, outside, pass, followed
<1>16. ASSUME NEW id \in Server, GhostActs(id) PROVE RowsAreOfTheTap'
    BY <1>16 DEF GhostActs, RowsWithout, outside, pass, followed
<1>17. ASSUME NEW id \in Server, Authenticate(id) PROVE RowsAreOfTheTap'
    BY <1>17 DEF Authenticate, outside, pass, followed
<1>18. ASSUME NEW id \in Server, Serve(id) PROVE RowsAreOfTheTap'
    BY <1>18 DEF Serve, outside, pass, followed
<1>19. CASE UNCHANGED svars
    BY <1>19 DEF svars, outside, pass, followed, tasks
<1> QED
    BY <1>1, <1>2, <1>3, <1>4, <1>5, <1>6, <1>7, <1>8, <1>9, <1>10, <1>11,
       <1>12, <1>13, <1>14, <1>15, <1>16, <1>17, <1>18, <1>19
       DEF Next, Pass, TaskActs

\* The invariant holds at the start, and no action breaks it.
LEMMA SupervisorInductive ==
    Spec => []SupInv
<1>1. Init => SupInv
    BY SupervisorAssumption DEF Init, Nothing, Listing, SupInv, SupTypes, TapsAreKnown,
       Detaching, PhaseDone, RowsAreOfTheTap
<1>2. SupInv /\ [Next]_svars => SupInv'
    BY TypesPreserved, TapsPreserved, DetachingPreserved, PhasePreserved, RowsPreserved
       DEF SupInv
<1> QED
    BY <1>1, <1>2, PTL DEF Spec

-------------------------------------------------------------------------------
\* At every moment, in the middle of a pass too, a tap runs for exactly the
\* servers that are known, and each to an address (the `known` map and the tap
\* handles of main.rs).
THEOREM EachTapIsKnown ==
    Spec => []SupervisorTypeOK
<1>1. SupInv => SupervisorTypeOK
  <2> SUFFICES ASSUME SupInv PROVE SupervisorTypeOK
    OBVIOUS
  <2>1. (cache = None \/ cache.servers \in Listing) /\ {dash, list, known} \subseteq Listing
    BY DEF SupInv, SupTypes
  <2>2. UNION {keys, attached, inflight, haunted} \subseteq Server
    BY DEF SupInv, SupTypes, Detaching
  <2>3. \A id \in Server : tap[id] = "none" <=> known[id] = None
    BY DEF SupInv, TapsAreKnown
  <2> QED
    BY <2>1, <2>2, <2>3 DEF SupInv, SupTypes, SupervisorTypeOK
<1> QED
    BY <1>1, SupervisorInductive, PTL

\* Between two passes the key index, the taps and the attached set are those of
\* the list the pass was given (the detach and attach loops of main.rs).
THEOREM NodeFollowsTheList ==
    Spec => []FollowsTheList
<1>1. SupInv => FollowsTheList
  <2> SUFFICES ASSUME SupInv, pc = "sleep" PROVE Follows(list)
    BY DEF FollowsTheList
  <2>1. known = list /\ keys = {id \in Server : list[id] # None}
    BY DEF SupInv, PhaseDone
  <2>2. detaching = None
    BY DEF SupInv, Detaching
  <2>3. attached = {id \in Server : known[id] # None}
    BY <2>2, SupervisorAssumption DEF SupInv, Detaching
  <2> QED
    BY <2>1, <2>3 DEF Follows
<1> QED
    BY <1>1, SupervisorInductive, PTL

\* Between two passes the router holds nothing of a server that is gone or of an
\* address it has left (Router::drop_server), but for what came late.
THEOREM DetachLeavesNothing ==
    Spec => []NoGhosts
<1>1. SupInv => NoGhosts
    BY SupervisorAssumption DEF SupInv, SupTypes, Detaching, RowsAreOfTheTap, NoGhosts
<1> QED
    BY <1>1, SupervisorInductive, PTL

\* A step takes rows of the server being detached, of one whose own tap drops it,
\* or of all of them at a restart.
LEMMA OthersStep ==
    ASSUME SupTypes, [Next]_svars
    PROVE  RowsTakenInOwnName
<1> USE SupervisorAssumption DEF Nothing, SupTypes, RowsTakenInOwnName
<1>1. ASSUME Index PROVE RowsTakenInOwnName
    BY <1>1 DEF Index, outside, tasks
<1>2. ASSUME NoneStale PROVE RowsTakenInOwnName
    BY <1>2 DEF NoneStale, Stale, outside, followed, tasks
<1>3. ASSUME Detach PROVE RowsTakenInOwnName
    BY <1>3 DEF Detach, RowsWithout, outside
<1>4. ASSUME AllAttached PROVE RowsTakenInOwnName
    BY <1>4 DEF AllAttached, outside, followed, tasks
<1>5. ASSUME SetPatches PROVE RowsTakenInOwnName
    BY <1>5 DEF SetPatches, outside, tasks
<1>6. ASSUME PollAnswered PROVE RowsTakenInOwnName
    BY <1>6 DEF PollAnswered, Asks, Adopt, Answer, Used, followed, tasks
<1>7. ASSUME PollFailed PROVE RowsTakenInOwnName
    BY <1>7 DEF PollFailed, Asks, Adopt, Answer, Cached, outside, followed, tasks
<1>8. ASSUME PollStore PROVE RowsTakenInOwnName
    BY <1>8 DEF PollStore, Asks, Adopt, Answer, outside, followed, tasks
<1>9. ASSUME NEW id \in Server, Abort(id) PROVE RowsTakenInOwnName
    BY <1>9 DEF Abort, Stale, Aborted, outside
<1>10. ASSUME NEW id \in Server, Attach(id) PROVE RowsTakenInOwnName
    BY <1>10 DEF Attach, outside, pass
<1>11. ASSUME OutsideActs PROVE RowsTakenInOwnName
  <2>1. ASSUME NEW i \in Server, NEW addr \in Addr \cup {None}, Edit(i, addr) PROVE RowsTakenInOwnName
    BY <2>1 DEF Edit, Used, pass, followed, tasks
  <2>2. ASSUME NEW i \in Server, NEW addr \in Addr \cup {None}, Save(i, addr) PROVE RowsTakenInOwnName
    BY <2>2 DEF Save, pass, followed, tasks
  <2>3. ASSUME StartSaving PROVE RowsTakenInOwnName
    BY <2>3 DEF StartSaving, Used, pass, followed, tasks
  <2>4. ASSUME PatchesSet PROVE RowsTakenInOwnName
    BY <2>4 DEF PatchesSet, Used, pass, tasks
  <2>5. ASSUME Reachability PROVE RowsTakenInOwnName
    BY <2>5 DEF Reachability, pass, followed, tasks
  <2>6. ASSUME Restart PROVE RowsTakenInOwnName
    BY <2>6 DEF Restart, Used, outside
  <2> QED
    BY <1>11, <2>1, <2>2, <2>3, <2>4, <2>5, <2>6 DEF OutsideActs
<1>12. ASSUME NEW id \in Server, TapBinds(id) PROVE RowsTakenInOwnName
    BY <1>12 DEF TapBinds, outside, pass, followed
<1>13. ASSUME NEW id \in Server, TapFails(id) PROVE RowsTakenInOwnName
    BY <1>13 DEF TapFails, outside, pass, followed
<1>14. ASSUME NEW id \in Server, TapDrops(id) PROVE RowsTakenInOwnName
    BY <1>14 DEF TapDrops, RowsWithout, outside, pass, followed
<1>15. ASSUME NEW id \in Server, TapReturns(id) PROVE RowsTakenInOwnName
    BY <1>15 DEF TapReturns, outside, pass, followed
<1>16. ASSUME NEW id \in Server, GhostActs(id) PROVE RowsTakenInOwnName
    BY <1>16 DEF GhostActs, RowsWithout, outside, pass, followed
<1>17. ASSUME NEW id \in Server, Authenticate(id) PROVE RowsTakenInOwnName
    BY <1>17 DEF Authenticate, outside, pass, followed
<1>18. ASSUME NEW id \in Server, Serve(id) PROVE RowsTakenInOwnName
    BY <1>18 DEF Serve, outside, pass, followed
<1>19. CASE UNCHANGED svars
    BY <1>19 DEF svars, outside, pass, followed, tasks
<1> QED
    BY <1>1, <1>2, <1>3, <1>4, <1>5, <1>6, <1>7, <1>8, <1>9, <1>10, <1>11,
       <1>12, <1>13, <1>14, <1>15, <1>16, <1>17, <1>18, <1>19
       DEF Next, Pass, TaskActs

\* A server never loses what it has in the router to the attach, the detach or the
\* failure of another (Router::drop_server keeps every row but that server's).
THEOREM OthersKeepTalking ==
    Spec => OthersUndisturbed
<1>1. SupInv /\ [Next]_svars => [RowsTakenInOwnName]_svars
    BY OthersStep DEF SupInv
<1> QED
    BY <1>1, SupervisorInductive, PTL DEF Spec, OthersUndisturbed, RowsTakenInOwnName
===============================================================================
