SPECIFICATION BrokerFairSpec
CONSTANTS
  Clients = {c1, c2}
  Readers = {c1}
  QueueCap = 2
  BufferCap = 2
  MaxEvents = 3
  NoClient = NoClient
INVARIANTS
  BrokerInv
  DeliveredInOrder
PROPERTIES
  EventsArrive
  StopEndsStreams
  ConnectIsServed
