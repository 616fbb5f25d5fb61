SPECIFICATION ProxyHangingSpec
CONSTANTS
  Requests = {r1, r2}
  Callers = {c1, c2}
  Dones = {d1, d2}
  NoCaller = NoCaller
  NoDone = NoDone
  NoTarget = NoTarget
PROPERTIES
  ImplementsDrainer
  SwitchReturns
  CleanedUpByNextSwitch
