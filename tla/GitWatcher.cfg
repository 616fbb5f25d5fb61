SPECIFICATION GitFairSpec
CONSTANTS
  Fetchers = {poll, now}
  Poller = poll
  MaxCommit = 2
INVARIANTS
  GitInv
  RefreshTellsAll
PROPERTIES
  StatusFollowsRemote
  NoMoveIsLost
