----------------------------- MODULE GitWatcher -----------------------------
(***************************************************************************)
(* The git watcher, internal/switcher/gitwatcher.go.  The polling loop and *)
(* every FetchNow (a webhook or an API call) run fetchAndCheck, so that    *)
(* several are under way at once.  Each lists the remote's tags, and       *)
(* later, under w.mu, compares them with the commits it saw last; w.mu is  *)
(* released while the listener is told of a change.                        *)
(*                                                                         *)
(* A commit is a number, which grows as a tag is moved on: a greater one   *)
(* is a later one.  0 stands for a tag that does not exist, and for the    *)
(* empty string of a commit not yet seen.                                  *)
(***************************************************************************)
EXTENDS Integers, FiniteSets

CONSTANTS Fetchers,     \* goroutines that may run fetchAndCheck
          Poller,       \* the one of them that is the polling loop
          MaxCommit     \* bound on the moves of each tag, for TLC

ASSUME PollerAssumption == Poller \in Fetchers
ASSUME MaxCommitAssumption == MaxCommit \in Nat \ {0}

Tags == {"blue", "green", "active"}
Watched == {"blue", "green"}

VARIABLES remote,       \* the tags of the remote repository
          status,       \* w.status: a commit per tag
          fetchError,   \* w.status.Error is set
          last,         \* w.lastBlue, w.lastGreen
          refs,         \* per fetcher, the tags its fetchRefs returned
          fpc,          \* per fetcher, how far it is
          told,         \* ghost: per tag, the latest commit whose listener has returned
          first         \* ghost: per tag, the first commit remembered

statusVars == <<status, fetchError, last, first>>
gvars == <<remote, statusVars, refs, fpc, told>>

Commits == 0..MaxCommit
TagMap == [Tags -> Commits]
NoRefs == [t \in Tags |-> 0]
FetcherStates == {"idle", "listed", "notify_blue", "in_blue",
                  "notify_green", "in_green", "done"}

GitInit ==
  /\ remote \in [Tags -> {0, 1}]
  /\ status = NoRefs
  /\ fetchError = FALSE
  /\ last = [t \in Watched |-> 0]
  /\ refs = [f \in Fetchers |-> NoRefs]
  /\ fpc = [f \in Fetchers |-> "idle"]
  /\ told = [t \in Watched |-> 0]
  /\ first = [t \in Watched |-> 0]

------------------------------------------------------------------------------
(* Somebody pushes a tag. *)
MoveTag(t) ==
  /\ remote[t] < MaxCommit
  /\ remote' = [remote EXCEPT ![t] = @ + 1]
  /\ UNCHANGED <<statusVars, refs, fpc, told>>

(* The remote answers with its tags as they are now. *)
ListRefs(f) ==
  /\ fpc[f] = "idle"
  /\ refs' = [refs EXCEPT ![f] = remote]
  /\ fpc' = [fpc EXCEPT ![f] = "listed"]
  /\ UNCHANGED <<remote, statusVars, told>>

ListFails(f) ==
  /\ fpc[f] = "idle"
  /\ fetchError' = TRUE
  /\ fpc' = [fpc EXCEPT ![f] = "done"]
  /\ UNCHANGED <<remote, status, last, first, refs, told>>

------------------------------------------------------------------------------
(* fetchAndCheck after the listing.  A section under w.mu is one step; it  *)
(* ends where a change is to be notified, or at the end.                   *)

Found(f, t) == refs[f][t] # 0

Changed(f, t) == Found(f, t) /\ last[t] # 0 /\ last[t] # refs[f][t]

(* What a section does with the tags in Handled and with those it sees. *)
Remember(f, tags) ==
  /\ last' = [t \in Watched |-> IF t \in tags /\ Found(f, t) THEN refs[f][t] ELSE last[t]]
  /\ first' = [t \in Watched |-> IF first[t] = 0 THEN last'[t] ELSE first[t]]
Show(f, tags) ==
  status' = [t \in Tags |-> IF t \in tags /\ Found(f, t) THEN refs[f][t] ELSE status[t]]

GoTo(f, state) == fpc' = [fpc EXCEPT ![f] = state]
Told(f, t) == told' = [told EXCEPT ![t] = IF refs[f][t] > @ THEN refs[f][t] ELSE @]

\* Mutant: blue's new commit is remembered and green's change checked first.
CheckBlueSkips(f) ==
  /\ fpc[f] = "listed"
  /\ fetchError' = FALSE
  /\ \/ /\ Changed(f, "green")
        /\ Show(f, Watched) /\ Remember(f, {"blue"})
        /\ GoTo(f, "notify_green")
     \/ /\ ~Changed(f, "green") /\ Changed(f, "blue")
        /\ Show(f, {"blue"}) /\ Remember(f, {})
        /\ GoTo(f, "notify_blue")
     \/ /\ ~Changed(f, "blue") /\ ~Changed(f, "green")
        /\ Show(f, Tags) /\ Remember(f, Watched)
        /\ GoTo(f, "done")
  /\ UNCHANGED <<remote, refs, told>>

\* Mutant: blue's new commit is remembered before the listener is told.
CheckBlueEarly(f) ==
  /\ fpc[f] = "listed"
  /\ fetchError' = FALSE
  /\ \/ /\ Changed(f, "blue")
        /\ Show(f, {"blue"}) /\ Remember(f, {"blue"})
        /\ GoTo(f, "notify_blue")
     \/ /\ ~Changed(f, "blue") /\ Changed(f, "green")
        /\ Show(f, Watched) /\ Remember(f, {"blue"})
        /\ GoTo(f, "notify_green")
     \/ /\ ~Changed(f, "blue") /\ ~Changed(f, "green")
        /\ Show(f, Tags) /\ Remember(f, Watched)
        /\ GoTo(f, "done")
  /\ UNCHANGED <<remote, refs, told>>

CheckBlue(f) ==
  /\ fpc[f] = "listed"
  /\ fetchError' = FALSE
  /\ \/ /\ Changed(f, "blue")
        /\ Show(f, {"blue"}) /\ Remember(f, {})
        /\ GoTo(f, "notify_blue")
     \/ /\ ~Changed(f, "blue") /\ Changed(f, "green")
        /\ Show(f, Watched) /\ Remember(f, {"blue"})
        /\ GoTo(f, "notify_green")
     \/ /\ ~Changed(f, "blue") /\ ~Changed(f, "green")
        /\ Show(f, Tags) /\ Remember(f, Watched)
        /\ GoTo(f, "done")
  /\ UNCHANGED <<remote, refs, told>>

(* onTagChange is called with w.mu released, and takes its time.  Only     *)
(* when it has returned is the commit remembered.                          *)
Notify(f, t) ==
  /\ fpc[f] = (IF t = "blue" THEN "notify_blue" ELSE "notify_green")
  /\ GoTo(f, IF t = "blue" THEN "in_blue" ELSE "in_green")
  /\ UNCHANGED <<remote, statusVars, refs, told>>

\* Mutant: the first change notified is not remembered.
CheckGreenForgetsBlue(f) ==
  /\ fpc[f] = "in_blue"
  /\ \/ /\ Changed(f, "green")
        /\ Show(f, {"green"}) /\ Remember(f, {})
        /\ GoTo(f, "notify_green")
     \/ /\ ~Changed(f, "green")
        /\ Show(f, {"green", "active"}) /\ Remember(f, {"green"})
        /\ GoTo(f, "done")
  /\ Told(f, "blue")
  /\ UNCHANGED <<remote, fetchError, refs>>

CheckGreen(f) ==
  /\ fpc[f] = "in_blue"
  /\ \/ /\ Changed(f, "green")
        /\ Show(f, {"green"}) /\ Remember(f, {"blue"})
        /\ GoTo(f, "notify_green")
     \/ /\ ~Changed(f, "green")
        /\ Show(f, {"green", "active"}) /\ Remember(f, Watched)
        /\ GoTo(f, "done")
  /\ Told(f, "blue")
  /\ UNCHANGED <<remote, fetchError, refs>>

\* Mutant: a notified change ends the fetch before it is remembered.
CheckActiveForgetsGreen(f) ==
  /\ fpc[f] = "in_green"
  /\ Show(f, {"active"}) /\ Remember(f, {})
  /\ GoTo(f, "done")
  /\ Told(f, "green")
  /\ UNCHANGED <<remote, fetchError, refs>>

CheckActive(f) ==
  /\ fpc[f] = "in_green"
  /\ Show(f, {"active"}) /\ Remember(f, {"green"})
  /\ GoTo(f, "done")
  /\ Told(f, "green")
  /\ UNCHANGED <<remote, fetchError, refs>>

(* The poll loop goes back to its ticker; FetchNow answers with the error  *)
(* that w.status has at that moment.                                       *)
FetchReturns(f) ==
  /\ fpc[f] = "done"
  /\ GoTo(f, "idle")
  /\ refs' = [refs EXCEPT ![f] = NoRefs]
  /\ UNCHANGED <<remote, statusVars, told>>

------------------------------------------------------------------------------
FetchSteps(f) == \/ CheckBlue(f) \/ CheckGreen(f) \/ CheckActive(f) \/ FetchReturns(f)
                 \/ \E t \in Watched : Notify(f, t)
GitNext == \/ \E t \in Tags : MoveTag(t)
           \/ \E f \in Fetchers : ListRefs(f) \/ ListFails(f) \/ FetchSteps(f)

GitSpec == GitInit /\ [][GitNext]_gvars

(* The polling loop's ticker keeps firing, a remote that is asked again    *)
(* and again answers now and then, and a fetch that has begun goes on: the *)
(* listener returns (switches end, see SwitchReturns).  Nobody is obliged  *)
(* to push a tag or to call FetchNow.                                      *)
GitFairness ==
  /\ \A f \in Fetchers : WF_gvars(FetchSteps(f))
  /\ SF_gvars(ListRefs(Poller))

GitFairSpec == GitSpec /\ GitFairness

------------------------------------------------------------------------------
(* Properties *)

(* Type invariant of the watcher's state and its fetches. *)
GitTypeOK ==
  /\ remote \in TagMap /\ status \in TagMap
  /\ fetchError \in BOOLEAN
  /\ last \in [Watched -> Commits] /\ told \in [Watched -> Commits]
  /\ first \in [Watched -> Commits]
  /\ refs \in [Fetchers -> TagMap]
  /\ fpc \in [Fetchers -> FetcherStates]

(* The answer to "trigger an immediate git fetch" (webhook.go:48) comes    *)
(* when all that the fetch listed has been acted on: of each tag it found  *)
(* beyond the first commit ever remembered, the listener has been told     *)
(* that commit or a later one, by this fetch or by another, and has        *)
(* returned.  A fetch finds nothing to do only when that is so.            *)
RefreshTellsAll ==
  \A f \in Fetchers, t \in Watched :
    fpc[f] = "done" /\ refs[f][t] > first[t] => told[t] >= refs[f][t]

(* The inductive invariant: what is remembered of a tag after its first    *)
(* commit has been told before, and so has what a fetch has dealt with.    *)
RememberedIsTold ==
  \A t \in Watched : /\ first[t] = 0 <=> last[t] = 0
                     /\ last[t] > first[t] => told[t] >= last[t]
IdleHasNoRefs == \A f \in Fetchers : fpc[f] = "idle" => refs[f] = NoRefs
BlueIsTold ==
  \A f \in Fetchers :
    fpc[f] \in {"notify_green", "in_green"} /\ refs[f]["blue"] > first["blue"]
      => told["blue"] >= refs[f]["blue"]
GitInv == GitTypeOK /\ RememberedIsTold /\ IdleHasNoRefs /\ BlueIsTold /\ RefreshTellsAll

(* "switch count should not change when no tag changes detected"           *)
(* (tests/integration/headscale/e2e_test.go:664): a listener is told only  *)
(* of a commit later than those it was told of, hence once of each.        *)
TellsOnlyNews ==
  [][\A f \in Fetchers, t \in Watched : Notify(f, t) => refs[f][t] > told[t]]_gvars

(* What the dashboard shows and what changes are compared with follow the  *)
(* remote: once its tags rest, status and last come to agree with it and   *)
(* stay so, in spite of failed listings and of stale ones applied late.    *)
StatusFollowsRemote == <>[](status = remote /\ \A t \in Watched : last[t] = remote[t])

(* A move of a tag whose commit the watcher knows is told, if not at once  *)
(* then with a later one: no interleaving of fetches, no failed and no     *)
(* stale listing loses it.                                                 *)
NoMoveIsLost ==
  \A t \in Watched : (last[t] # 0 /\ last[t] < remote[t]) ~> told[t] = remote[t]
==============================================================================
