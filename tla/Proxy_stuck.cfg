SPECIFICATION ProxyFairSpec
CONSTANTS
  Requests = {r1}
  Callers = {c1}
  Dones = {d1, d2}
  NoCaller = NoCaller
  NoDone = NoDone
  NoTarget = NoTarget
PROPERTIES
  ServiceRestored
