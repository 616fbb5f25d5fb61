SPECIFICATION ProxySpec
CONSTANTS
  Requests = {r1}
  Callers = {c1, c2}
  Dones = {d1, d2}
  NoCaller = NoCaller
  NoDone = NoDone
  NoTarget = NoTarget
PROPERTIES
  DrainedBeforeSwitch
