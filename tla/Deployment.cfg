SPECIFICATION DeploymentFairSpec
CONSTANTS
  Requests = {r1}
  Callers = {poll}
  Dones = {d1, d2}
  NoCaller = NoCaller
  NoDone = NoDone
  NoTarget = NoTarget
  HistoryCap = 2
  MaxSwitches = 3
  Fetchers = {poll}
  Poller = poll
  MaxCommit = 2
INVARIANTS
  OpenMeansCurrent
  HistoryChains
  CountsOnlyChanges
  NewsIsFollowed
PROPERTIES
  DrainedBeforeSwitch
  TellsOnlyNews
  ImplementsGitWatcher
