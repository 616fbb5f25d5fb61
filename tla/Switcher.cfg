SPECIFICATION SwitcherSpec
CONSTANTS
  Requests = {}
  Callers = {c1, c2}
  Dones = {d1, d2}
  NoCaller = NoCaller
  NoDone = NoDone
  NoTarget = NoTarget
  HistoryCap = 2
  MaxSwitches = 3
INVARIANTS
  SwitcherInv
  ChangesAreCounted
