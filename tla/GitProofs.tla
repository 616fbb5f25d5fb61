------------------------------ MODULE GitProofs ------------------------------
(***************************************************************************)
(* Proofs about GitWatcher, for any fetches at once and any number of      *)
(* moves: what the end of a fetch says about the listener.                 *)
(***************************************************************************)
EXTENDS GitWatcher, TLAPS

(* Nothing has been listed or remembered in the initial state. *)
LEMMA InitHolds == GitInit => GitInv
<1> SUFFICES ASSUME GitInit  PROVE GitInv
  OBVIOUS
<1>1. 0 \in Commits /\ 1 \in Commits /\ NoRefs \in TagMap
  BY MaxCommitAssumption DEF Commits, NoRefs, TagMap
<1>2. GitTypeOK
  BY <1>1 DEF GitInit, GitTypeOK, TagMap, FetcherStates
<1>3. RememberedIsTold /\ IdleHasNoRefs /\ BlueIsTold /\ RefreshTellsAll
  BY DEF GitInit, RememberedIsTold, IdleHasNoRefs, BlueIsTold, RefreshTellsAll
<1> QED BY <1>2, <1>3 DEF GitInv

(* A tag moves, or is listed, or is not. *)
LEMMA ListingSteps ==
  ASSUME GitInv,
         \/ \E t \in Tags : MoveTag(t)
         \/ \E f \in Fetchers : ListRefs(f) \/ ListFails(f)
  PROVE  GitInv'
<1> USE DEF GitInv, GitTypeOK, RememberedIsTold, IdleHasNoRefs, BlueIsTold, RefreshTellsAll,
            TagMap, FetcherStates, statusVars
<1>1. ASSUME NEW t \in Tags, MoveTag(t)  PROVE GitInv'
  <2>1. remote'[t] \in Commits
    BY <1>1, MaxCommitAssumption DEF MoveTag, Commits
  <2> QED BY <1>1, <2>1 DEF MoveTag
<1>2. ASSUME NEW f \in Fetchers, ListRefs(f)  PROVE GitInv'
  BY <1>2 DEF ListRefs
<1>3. ASSUME NEW f \in Fetchers, ListFails(f)  PROVE GitInv'
  <2>1. refs[f] = NoRefs
    BY <1>3 DEF ListFails
  <2>2. \A t \in Watched : ~(refs[f][t] > first[t])
    BY <2>1 DEF NoRefs, Tags, Watched, Commits
  <2> QED BY <1>3, <2>1, <2>2 DEF ListFails
<1> QED BY <1>1, <1>2, <1>3

(* The ghost told only grows, to a commit that was listed. *)
LEMMA ToldGrows ==
  ASSUME GitTypeOK, NEW f \in Fetchers, NEW t \in Watched, Told(f, t)
  PROVE  /\ told' \in [Watched -> Commits]
         /\ \A u \in Watched : told'[u] >= told[u]
         /\ told'[t] >= refs[f][t]
<1>1. refs[f][t] \in Commits /\ \A u \in Watched : told[u] \in Commits
  BY DEF GitTypeOK, TagMap, Tags, Watched
<1>2. told' = [told EXCEPT ![t] = IF refs[f][t] > @ THEN refs[f][t] ELSE @]
  BY DEF Told
<1>3. told \in [Watched -> Commits]
  BY DEF GitTypeOK
<1> QED BY <1>1, <1>2, <1>3 DEF Commits

(* Remembering a set of tags none of which is a change that has not been   *)
(* told: the first commit of a tag stays, and what is remembered is told.  *)
LEMMA RememberKeeps ==
  ASSUME GitTypeOK, RememberedIsTold, NEW f \in Fetchers, NEW tags \in SUBSET Watched,
         Remember(f, tags),
         told' \in [Watched -> Commits], \A u \in Watched : told'[u] >= told[u],
         \A t \in tags : Changed(f, t) => told'[t] >= refs[f][t]
  PROVE  /\ last' \in [Watched -> Commits] /\ first' \in [Watched -> Commits]
         /\ \A t \in Watched : /\ first'[t] = 0 <=> last'[t] = 0
                               /\ last'[t] > first'[t] => told'[t] >= last'[t]
         /\ \A t \in Watched : first[t] # 0 => first'[t] = first[t]
         /\ \A t \in tags : refs[f][t] > first'[t] => told'[t] >= refs[f][t]
<1>1. ASSUME NEW t \in Watched
      PROVE  /\ last[t] \in Commits /\ first[t] \in Commits /\ told[t] \in Commits
             /\ refs[f][t] \in Commits /\ told'[t] \in Commits
  BY DEF GitTypeOK, TagMap, Tags, Watched
<1>2. ASSUME NEW t \in Watched
      PROVE  /\ last'[t] = IF t \in tags /\ Found(f, t) THEN refs[f][t] ELSE last[t]
             /\ first'[t] = IF first[t] = 0 THEN last'[t] ELSE first[t]
  BY DEF Remember
<1>3. last' \in [Watched -> Commits] /\ first' \in [Watched -> Commits]
  <2>1. last' \in [Watched -> Commits]
    BY <1>1 DEF Remember
  <2>2. first' \in [Watched -> Commits]
    BY <1>1, <1>2, <2>1 DEF Remember
  <2> QED BY <2>1, <2>2
<1>4. ASSUME NEW t \in Watched
      PROVE  /\ first'[t] = 0 <=> last'[t] = 0
             /\ last'[t] > first'[t] => told'[t] >= last'[t]
             /\ first[t] # 0 => first'[t] = first[t]
             /\ t \in tags /\ refs[f][t] > first'[t] => told'[t] >= refs[f][t]
  BY <1>1, <1>2 DEF RememberedIsTold, Changed, Found, Commits
<1> QED BY <1>3, <1>4

------------------------------------------------------------------------------
(* The sections under w.mu of a fetch f, and the listener's call, change   *)
(* of the others' state nothing but what is remembered and told.  What     *)
(* they leave is GitInv again, if it is for f.                             *)
LEMMA SectionKeeps ==
  ASSUME GitInv, NEW f \in Fetchers, NEW tags \in SUBSET Watched,
         Remember(f, tags),
         told' \in [Watched -> Commits], \A u \in Watched : told'[u] >= told[u],
         \A t \in tags : Changed(f, t) => told'[t] >= refs[f][t],
         NEW shown \in SUBSET Tags, Show(f, shown), fetchError' \in BOOLEAN,
         NEW state \in FetcherStates \ {"idle"}, GoTo(f, state),
         state \in {"notify_green", "in_green"} => "blue" \in tags,
         state = "done" =>
           \A t \in Watched : t \in tags \/ (refs[f][t] > first[t] => told[t] >= refs[f][t]),
         UNCHANGED <<remote, refs>>
  PROVE  GitInv'
<1>1. GitTypeOK /\ RememberedIsTold
  BY DEF GitInv
<1>2. /\ last' \in [Watched -> Commits] /\ first' \in [Watched -> Commits]
      /\ RememberedIsTold'
      /\ \A t \in Watched : first[t] # 0 => first'[t] = first[t]
      /\ \A t \in tags : refs[f][t] > first'[t] => told'[t] >= refs[f][t]
  BY <1>1, RememberKeeps DEF RememberedIsTold
<1>3. ASSUME NEW g \in Fetchers, NEW t \in Watched,
             refs[g][t] > first[t] => told[t] >= refs[g][t]
      PROVE  refs'[g][t] > first'[t] => told'[t] >= refs'[g][t]
  <2>1. /\ first[t] \in Commits /\ first'[t] \in Commits /\ refs[g][t] \in Commits
        /\ told[t] \in Commits /\ told'[t] \in Commits /\ told'[t] >= told[t]
    BY <1>1, <1>2 DEF GitTypeOK, TagMap, Tags, Watched
  <2>2. CASE first[t] # 0
    BY <1>2, <1>3, <2>1, <2>2 DEF Commits
  <2>3. CASE first[t] = 0
    BY <1>3, <2>1, <2>3 DEF Commits
  <2> QED BY <2>2, <2>3
<1>4. status' \in TagMap
  <2>1. \A t \in Tags : refs[f][t] \in Commits /\ status[t] \in Commits
    BY <1>1 DEF GitTypeOK, TagMap
  <2> QED BY <2>1 DEF Show, TagMap
<1>5. GitTypeOK'
  BY <1>1, <1>2, <1>4 DEF GitTypeOK, GoTo
<1>6. \A g \in Fetchers : fpc'[g] = IF g = f THEN state ELSE fpc[g]
  BY <1>1 DEF GitTypeOK, GoTo
<1>7. IdleHasNoRefs'
  BY <1>6 DEF GitInv, IdleHasNoRefs
<1>8. BlueIsTold'
  <2> SUFFICES ASSUME NEW g \in Fetchers, fpc'[g] \in {"notify_green", "in_green"}
               PROVE  refs'[g]["blue"] > first'["blue"] => told'["blue"] >= refs'[g]["blue"]
    BY DEF BlueIsTold
  <2>1. CASE g = f
    BY <1>2, <1>6, <2>1
  <2>2. CASE g # f
    BY <1>3, <1>6, <2>2 DEF GitInv, BlueIsTold, Watched
  <2> QED BY <2>1, <2>2
<1>9. RefreshTellsAll'
  <2> SUFFICES ASSUME NEW g \in Fetchers, NEW t \in Watched, fpc'[g] = "done"
               PROVE  refs'[g][t] > first'[t] => told'[t] >= refs'[g][t]
    BY DEF RefreshTellsAll
  <2>1. CASE g = f /\ t \in tags
    BY <1>2, <2>1
  <2>2. CASE g = f /\ t \notin tags
    BY <1>3, <1>6, <2>2
  <2>3. CASE g # f
    BY <1>3, <1>6, <2>3 DEF GitInv, RefreshTellsAll
  <2> QED BY <2>1, <2>2, <2>3
<1> QED BY <1>2, <1>5, <1>7, <1>8, <1>9 DEF GitInv

(* The first section: nothing has been told in this fetch. *)
LEMMA CheckBlueKeeps ==
  ASSUME GitInv, NEW f \in Fetchers, CheckBlue(f)
  PROVE  GitInv'
<1>1. /\ told' \in [Watched -> Commits] /\ \A u \in Watched : told'[u] >= told[u]
      /\ fetchError' \in BOOLEAN /\ UNCHANGED <<remote, refs>>
  <2>1. UNCHANGED <<told, remote, refs>> /\ fetchError' = FALSE
    BY DEF CheckBlue
  <2>2. told \in [Watched -> Commits]
    BY DEF GitInv, GitTypeOK
  <2>3. \A u \in Watched : told[u] >= told[u]
    BY <2>2 DEF Commits
  <2>4. fetchError' \in BOOLEAN /\ told' = told
    BY <2>1
  <2> QED BY <2>1, <2>2, <2>3, <2>4
<1> USE DEF Tags, Watched, FetcherStates
<1>2. CASE Show(f, {"blue"}) /\ Remember(f, {}) /\ GoTo(f, "notify_blue")
  BY <1>1, <1>2, SectionKeeps
<1>3. CASE /\ ~Changed(f, "blue")
           /\ Show(f, Watched) /\ Remember(f, {"blue"}) /\ GoTo(f, "notify_green")
  BY <1>1, <1>3, SectionKeeps
<1>4. CASE /\ ~Changed(f, "blue") /\ ~Changed(f, "green")
           /\ Show(f, Tags) /\ Remember(f, Watched) /\ GoTo(f, "done")
  BY <1>1, <1>4, SectionKeeps
<1> QED BY <1>2, <1>3, <1>4 DEF CheckBlue

(* After the listener was told of blue. *)
LEMMA CheckGreenKeeps ==
  ASSUME GitInv, NEW f \in Fetchers, CheckGreen(f)
  PROVE  GitInv'
<1>1. Told(f, "blue")
  BY DEF CheckGreen
<1>2. /\ told' \in [Watched -> Commits] /\ \A u \in Watched : told'[u] >= told[u]
      /\ told'["blue"] >= refs[f]["blue"]
  BY <1>1, ToldGrows DEF GitInv, Watched
<1>3. fetchError' \in BOOLEAN /\ UNCHANGED <<remote, refs>>
  BY DEF CheckGreen, GitInv, GitTypeOK
<1> USE DEF Tags, Watched, FetcherStates
<1>4. CASE Show(f, {"green"}) /\ Remember(f, {"blue"}) /\ GoTo(f, "notify_green")
  BY <1>2, <1>3, <1>4, SectionKeeps
<1>5. CASE /\ ~Changed(f, "green")
           /\ Show(f, {"green", "active"}) /\ Remember(f, Watched) /\ GoTo(f, "done")
  BY <1>2, <1>3, <1>5, SectionKeeps
<1> QED BY <1>4, <1>5 DEF CheckGreen

(* After the listener was told of green; blue was dealt with before. *)
LEMMA CheckActiveKeeps ==
  ASSUME GitInv, NEW f \in Fetchers, CheckActive(f)
  PROVE  GitInv'
<1>1. Told(f, "green")
  BY DEF CheckActive
<1>2. /\ told' \in [Watched -> Commits] /\ \A u \in Watched : told'[u] >= told[u]
      /\ told'["green"] >= refs[f]["green"]
  BY <1>1, ToldGrows DEF GitInv, Watched
<1>3. /\ fetchError' \in BOOLEAN /\ UNCHANGED <<remote, refs>>
      /\ refs[f]["blue"] > first["blue"] => told["blue"] >= refs[f]["blue"]
  BY DEF CheckActive, GitInv, GitTypeOK, BlueIsTold
<1>4. Show(f, {"active"}) /\ Remember(f, {"green"}) /\ GoTo(f, "done")
  BY DEF CheckActive
<1> QED BY <1>2, <1>3, <1>4, SectionKeeps DEF Tags, Watched, FetcherStates

(* The call of the listener, and the end of the fetch. *)
LEMMA NotifyKeeps ==
  ASSUME GitInv, NEW f \in Fetchers, NEW t \in Watched, Notify(f, t)
  PROVE  GitInv'
BY DEF Notify, GoTo, GitInv, GitTypeOK, RememberedIsTold, IdleHasNoRefs, BlueIsTold,
       RefreshTellsAll, FetcherStates, statusVars, Watched

(* The end of a fetch preserves the invariant. *)
LEMMA ReturnKeeps ==
  ASSUME GitInv, NEW f \in Fetchers, FetchReturns(f)
  PROVE  GitInv'
<1>1. NoRefs \in TagMap
  BY MaxCommitAssumption DEF NoRefs, TagMap, Commits
<1> QED BY <1>1 DEF FetchReturns, GoTo, GitInv, GitTypeOK, RememberedIsTold, IdleHasNoRefs,
       BlueIsTold, RefreshTellsAll, FetcherStates, statusVars

(* Every step of the watcher keeps GitInv. *)
LEMMA StepKeeps == GitInv /\ [GitNext]_gvars => GitInv'
<1> SUFFICES ASSUME GitInv, [GitNext]_gvars  PROVE GitInv'
  OBVIOUS
<1>1. CASE \/ \E t \in Tags : MoveTag(t)
           \/ \E f \in Fetchers : ListRefs(f) \/ ListFails(f)
  BY <1>1, ListingSteps
<1>2. ASSUME NEW f \in Fetchers, FetchSteps(f)  PROVE GitInv'
  BY <1>2, CheckBlueKeeps, CheckGreenKeeps, CheckActiveKeeps, NotifyKeeps, ReturnKeeps
     DEF FetchSteps
<1>3. CASE UNCHANGED gvars
  BY <1>3 DEF gvars, statusVars, GitInv, GitTypeOK, RememberedIsTold, IdleHasNoRefs, BlueIsTold,
              RefreshTellsAll
<1> QED BY <1>1, <1>2, <1>3 DEF GitNext

------------------------------------------------------------------------------
(* The inductive invariant of the watcher, for any fetches at once. *)
THEOREM GitInvariant == GitSpec => []GitInv
BY InitHolds, StepKeeps, PTL DEF GitSpec

(* When FetchNow answers (webhook.go:48), the listener has returned for    *)
(* every commit that its fetch found beyond the first of a tag.            *)
THEOREM GitRefreshTellsAll == GitSpec => []RefreshTellsAll
<1>1. GitInv => RefreshTellsAll
  BY DEF GitInv
<1> QED BY <1>1, GitInvariant, PTL

------------------------------------------------------------------------------
(* Fetches one at a time, as when nothing but the polling loop fetches.    *)

OneFetcher == \A f, g \in Fetchers : f = g

(* What is told is remembered, what is remembered was listed, and what the *)
(* fetch under way has listed is at least as new as what is remembered.    *)
OnlyForwards ==
  /\ \A t \in Watched : told[t] <= last[t] /\ last[t] <= remote[t]
  /\ \A f \in Fetchers, t \in Watched :
       /\ fpc[f] \notin {"idle", "done"} => last[t] <= refs[f][t] /\ refs[f][t] <= remote[t]
       /\ fpc[f] = (IF t = "blue" THEN "notify_blue" ELSE "notify_green") => last[t] < refs[f][t]

(* Nothing has been told in the initial state. *)
LEMMA ForwardsStart == GitInit => OnlyForwards
<1> SUFFICES ASSUME GitInit PROVE OnlyForwards
  OBVIOUS
<1>1. \A t \in Watched : remote[t] \in {0, 1} /\ last[t] = 0 /\ told[t] = 0
  BY DEF GitInit, Tags, Watched
<1>2. \A f \in Fetchers : fpc[f] = "idle"
  BY DEF GitInit
<1> QED BY <1>1, <1>2 DEF OnlyForwards, Watched

(* The values of a tag as the numbers that they are. *)
LEMMA WatchedCommits ==
  ASSUME GitTypeOK
  PROVE  \A t \in Watched : /\ remote[t] \in Commits /\ last[t] \in Commits
                            /\ told[t] \in Commits
                            /\ \A f \in Fetchers : refs[f][t] \in Commits
BY DEF GitTypeOK, TagMap, Tags, Watched

(* A section that remembers tags which the fetch lists, and tells of no    *)
(* other, and goes on to a notification only of a change.                  *)
LEMMA SectionForwards ==
  ASSUME OneFetcher, GitTypeOK, OnlyForwards, NEW f \in Fetchers,
         fpc[f] \in {"listed", "in_blue", "in_green"},
         NEW tags \in SUBSET Watched, Remember(f, tags), UNCHANGED <<remote, refs>>,
         told' \in [Watched -> Commits],
         \A t \in Watched : \/ told'[t] = told[t]
                            \/ t \in tags /\ Found(f, t) /\ told'[t] \in {told[t], refs[f][t]},
         NEW state \in FetcherStates, GoTo(f, state),
         state = "notify_blue" => "blue" \notin tags /\ Changed(f, "blue"),
         state = "notify_green" => "green" \notin tags /\ Changed(f, "green")
  PROVE  OnlyForwards'
<1>1. \A t \in Watched : /\ remote[t] \in Commits /\ last[t] \in Commits
                        /\ told[t] \in Commits /\ refs[f][t] \in Commits
  BY WatchedCommits
<1>2. Fetchers = {f} /\ fpc'[f] = state
  BY DEF OneFetcher, GoTo, GitTypeOK
<1>3. ASSUME NEW t \in Watched
      PROVE  /\ last[t] <= refs[f][t] /\ refs[f][t] <= remote[t]
             /\ told[t] <= last[t]
             /\ last'[t] = IF t \in tags /\ Found(f, t) THEN refs[f][t] ELSE last[t]
  BY DEF OnlyForwards, Remember
<1>4. ASSUME NEW t \in Watched
      PROVE  /\ told'[t] <= last'[t] /\ last'[t] <= remote'[t]
             /\ last'[t] <= refs'[f][t] /\ refs'[f][t] <= remote'[t]
             /\ fpc'[f] = (IF t = "blue" THEN "notify_blue" ELSE "notify_green")
                  => last'[t] < refs'[f][t]
  BY <1>1, <1>2, <1>3 DEF Found, Changed, Commits, Watched
<1> QED BY <1>2, <1>4 DEF OnlyForwards

(* Every step of the one fetcher tells of later commits only. *)
LEMMA ForwardsStep ==
  ASSUME OneFetcher, GitInv, OnlyForwards, [GitNext]_gvars
  PROVE  OnlyForwards'
<1> USE DEF GitInv
<1>1. GitTypeOK
  OBVIOUS
<1>2. ASSUME NEW t \in Tags, MoveTag(t)  PROVE OnlyForwards'
  <2>1. \A u \in Watched : remote'[u] \in Int /\ remote'[u] >= remote[u]
    BY <1>1, <1>2 DEF MoveTag, GitTypeOK, TagMap, Commits, Watched, Tags
  <2> QED BY <1>2, <2>1, WatchedCommits DEF MoveTag, OnlyForwards, Commits, statusVars
<1>3. ASSUME NEW f \in Fetchers, ListRefs(f) \/ ListFails(f) \/ FetchReturns(f)
      PROVE  OnlyForwards'
  <2>1. UNCHANGED <<remote, last, told>> /\ Fetchers = {f}
    BY <1>3 DEF ListRefs, ListFails, FetchReturns, statusVars, OneFetcher
  <2>2. \/ fpc'[f] \in {"idle", "done"}
        \/ fpc'[f] = "listed" /\ refs'[f] = remote
    BY <1>1, <1>3 DEF ListRefs, ListFails, FetchReturns, GoTo, GitTypeOK
  <2> QED BY <2>1, <2>2, WatchedCommits, <1>1 DEF OnlyForwards, Commits, Watched
<1>4. ASSUME NEW f \in Fetchers, NEW t \in Watched, Notify(f, t)  PROVE OnlyForwards'
  <2>1. /\ UNCHANGED <<remote, last, told, refs>> /\ Fetchers = {f}
        /\ fpc[f] \notin {"idle", "done"} /\ fpc'[f] \in {"in_blue", "in_green"}
    BY <1>4, <1>1 DEF Notify, GoTo, GitTypeOK, statusVars, OneFetcher
  <2> QED BY <2>1 DEF OnlyForwards, Watched
<1>5. ASSUME NEW f \in Fetchers, CheckBlue(f)  PROVE OnlyForwards'
  <2>1. told' = told /\ UNCHANGED <<remote, refs>> /\ fpc[f] = "listed"
        /\ told' \in [Watched -> Commits]
    BY <1>1, <1>5 DEF CheckBlue, GitTypeOK
  <2> USE DEF Watched, FetcherStates
  <2>2. CASE Changed(f, "blue") /\ Remember(f, {}) /\ GoTo(f, "notify_blue")
    BY <1>1, <2>1, <2>2, SectionForwards
  <2>3. CASE Changed(f, "green") /\ Remember(f, {"blue"}) /\ GoTo(f, "notify_green")
    BY <1>1, <2>1, <2>3, SectionForwards
  <2>4. CASE Remember(f, Watched) /\ GoTo(f, "done")
    BY <1>1, <2>1, <2>4, SectionForwards
  <2> QED BY <1>5, <2>2, <2>3, <2>4 DEF CheckBlue
<1>6. ASSUME NEW f \in Fetchers, NEW t \in Watched, Told(f, t)
      PROVE  /\ told' \in [Watched -> Commits]
             /\ \A u \in Watched :
                  \/ told'[u] = told[u]
                  \/ u = t /\ Found(f, u) /\ told'[u] \in {told[u], refs[f][u]}
  <2>1. told'[t] # told[t] => Found(f, t)
    BY <1>1, <1>6, WatchedCommits DEF Told, Found, GitTypeOK, Commits
  <2> QED BY <1>1, <1>6, <2>1, ToldGrows DEF Told, GitTypeOK
<1>7. ASSUME NEW f \in Fetchers, CheckGreen(f)  PROVE OnlyForwards'
  <2>1. Told(f, "blue") /\ UNCHANGED <<remote, refs>> /\ fpc[f] = "in_blue"
    BY <1>7 DEF CheckGreen
  <2> USE DEF Watched, FetcherStates
  <2>2. CASE Changed(f, "green") /\ Remember(f, {"blue"}) /\ GoTo(f, "notify_green")
    BY <1>1, <1>6, <2>1, <2>2, SectionForwards
  <2>3. CASE Remember(f, Watched) /\ GoTo(f, "done")
    BY <1>1, <1>6, <2>1, <2>3, SectionForwards
  <2> QED BY <1>7, <2>2, <2>3 DEF CheckGreen
<1>8. ASSUME NEW f \in Fetchers, CheckActive(f)  PROVE OnlyForwards'
  <2>1. /\ Told(f, "green") /\ UNCHANGED <<remote, refs>> /\ fpc[f] = "in_green"
        /\ Remember(f, {"green"}) /\ GoTo(f, "done")
    BY <1>8 DEF CheckActive
  <2> QED BY <1>1, <1>6, <2>1, SectionForwards DEF Watched, FetcherStates
<1>9. CASE UNCHANGED gvars
  BY <1>9 DEF gvars, statusVars, OnlyForwards
<1> QED BY <1>2, <1>3, <1>4, <1>5, <1>7, <1>8, <1>9 DEF GitNext, FetchSteps

(* A listener is told of a commit later than those it was told of, hence   *)
(* once of each (e2e_test.go:664).                                         *)
THEOREM SerialTellsOnlyNews ==
  ASSUME OneFetcher PROVE GitSpec => TellsOnlyNews
<1>1. ASSUME GitInv, OnlyForwards, [GitNext]_gvars PROVE OnlyForwards'
  BY <1>1, OneFetcher, ForwardsStep
<1>2. ASSUME GitInv, OnlyForwards
      PROVE  \A f \in Fetchers, t \in Watched : Notify(f, t) => refs[f][t] > told[t]
  <2> SUFFICES ASSUME NEW f \in Fetchers, NEW t \in Watched, Notify(f, t)
               PROVE  refs[f][t] > told[t]
    OBVIOUS
  <2>1. told[t] <= last[t] /\ last[t] < refs[f][t]
    BY <1>2 DEF Notify, OnlyForwards
  <2> QED BY <1>2, <2>1, WatchedCommits DEF GitInv, Commits
<1> QED BY <1>1, <1>2, ForwardsStart, GitInvariant, PTL DEF GitSpec, TellsOnlyNews
==============================================================================
