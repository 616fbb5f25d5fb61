SPECIFICATION MCSpec
CONSTANTS
  MaxBuckets = 4
  Resolution = 2
  Millisecond = 2
  Latencies = {1, 2}
  MaxLatencies = 1
  MaxTime = 18
  Recorders = {r1, r2}
  MaxRequests = 2
SYMMETRY Symmetry
INVARIANTS
  CollectorTypeOK
  CountsAgree
  SnapshotHangsTogether
  RingIsWindow
  HistoryIsTruth
  AggregateCounts
  PercentilesRank
CHECK_DEADLOCK FALSE
