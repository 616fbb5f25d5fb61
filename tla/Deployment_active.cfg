SPECIFICATION DeploymentFairSpec
CONSTANTS
  Requests = {}
  Callers = {poll}
  Dones = {d1, d2}
  NoCaller = NoCaller
  NoDone = NoDone
  NoTarget = NoTarget
  HistoryCap = 1
  MaxSwitches = 3
  Fetchers = {poll}
  Poller = poll
  MaxCommit = 2
PROPERTIES
  ActiveTagIsServed
