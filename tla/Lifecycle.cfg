SPECIFICATION LifecycleSpec
CONSTANTS
  Requests = {r1, r2}
  Webhooks = {h1}
  Poller = poller
  SignalCap = 1
INVARIANTS
  LifecycleInv
  GracefulStop
  NoSwitchIsCut
PROPERTIES
  StopReturns
\* The program exits.
CHECK_DEADLOCK FALSE
