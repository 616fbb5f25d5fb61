----------------------------- MODULE Deployment -----------------------------
(***************************************************************************)
(* The git watcher and the switcher together, as internal/app/app.go joins *)
(* them: the goroutine that fetches (the poll loop or a webhook's request) *)
(* itself runs HandleTagChange as its listener, hence a whole Switch with  *)
(* its drain, before it goes on with the tags it has listed.               *)
(***************************************************************************)
EXTENDS Switcher, GitWatcher

ASSUME FetchersCall == Fetchers = Callers

VARIABLE news   \* ghost: the target of the last tag change that was told of
                \* while its backend was healthy; at first the active target

deploymentVars == <<allVars, gvars, news>>

DeploymentInit ==
  /\ SwitcherInit
  /\ GitInit
  /\ news = activeTarget

------------------------------------------------------------------------------
(* Fetching, up to a change and between two of them. *)
Watch(f) ==
  /\ ListRefs(f) \/ ListFails(f) \/ CheckBlue(f) \/ FetchReturns(f)
  /\ UNCHANGED <<allVars, news>>

(* HandleTagChange calls Switch for the tag's target.  What the check      *)
(* answers, and what Switch returns in the end, is only logged.            *)
HandleTagChange(f, target) ==
  /\ Notify(f, target)
  /\ CheckRefused(f, target) \/ CheckAccepted(f, target)
  /\ news' = IF healthy[target] THEN target ELSE news

Switching(f) == SwitchCall(f) /\ UNCHANGED <<gvars, news>>

(* The listener has returned: the fetch goes on. *)
Resume(f) ==
  /\ phase[f] = "idle"
  /\ CheckGreen(f) \/ CheckActive(f)
  /\ UNCHANGED <<allVars, news>>

Fetching(f) == \/ Watch(f) \/ Switching(f) \/ Resume(f)
               \/ \E t \in Targets : HandleTagChange(f, t)

World == \/ \E t \in Tags : MoveTag(t) /\ UNCHANGED <<allVars, news>>
         \/ Environment /\ UNCHANGED <<gvars, news>>

DeploymentNext == (\E f \in Fetchers : Fetching(f)) \/ World

DeploymentSpec == DeploymentInit /\ [][DeploymentNext]_deploymentVars

(* The fairness of the parts, but for the assumption that the watcher's    *)
(* listener returns: a fetch goes on where the code it runs can.  Requests *)
(* may hang, backends may stay unhealthy.                                  *)
Progress(f) == \/ CheckBlue(f) /\ UNCHANGED <<allVars, news>>
               \/ FetchReturns(f) /\ UNCHANGED <<allVars, news>>
               \/ \E t \in Targets : HandleTagChange(f, t)
               \/ Switching(f) \/ Resume(f)

DeploymentFairness ==
  /\ \A f \in Fetchers :
       /\ WF_deploymentVars(Progress(f))
       /\ SF_deploymentVars(pc[f] \in {"drain_lock", "reset_lock"} /\ Switching(f))
  /\ SF_deploymentVars(ListRefs(Poller) /\ UNCHANGED <<allVars, news>>)
  /\ \A d \in Dones : WF_deploymentVars(Background(d) /\ UNCHANGED <<svars, gvars, news>>)

DeploymentFairSpec == DeploymentSpec /\ DeploymentFairness

------------------------------------------------------------------------------
(* Properties *)

Settled == \A f \in Fetchers : fpc[f] \in {"idle", "listed"}

(* With one fetch at a time, traffic goes to the backend of the last tag   *)
(* change that the switcher was told of while that backend was healthy,    *)
(* and nothing else moves it: no hanging request, no drain that times out, *)
(* no change that is refused because its backend is not healthy.           *)
NewsIsFollowed == Settled => activeTarget = news

(* The watcher keeps its promises when its listener is the switcher: a     *)
(* switch in the middle of a fetch always comes to its end, though drains  *)
(* may hold it up to their timeouts and requests never end.                *)
ImplementsGitWatcher == GitFairSpec

(* "When the git watcher detects that deploy/active points to a different  *)
(* commit than the current active backend" (README.md:179) it switches to  *)
(* the backend whose tag has the same commit.                              *)
ActiveTagIsServed ==
  \A t \in Targets :
    <>[](/\ healthy[t]
         /\ remote["active"] # 0
         /\ \A u \in Targets : remote[u] = remote["active"] <=> u = t)
      => <>[](activeTarget = t)
==============================================================================
