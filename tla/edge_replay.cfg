CONSTANTS
  EdgeSensors = {s1}
  MaxAcquired = 2
  MaxBuffered = 1
  SnapshotLimit = 2
  OfflineAfter = 2
  RecoveredAfter = 2
  Procs = {run, replay}
  Runner = run
  MaxOutbox = 2
  MaxCrashes = 0
  NoEdgeEvent = NoEdgeEvent
SPECIFICATION GatewaySpec
PROPERTIES FirstDeliveryInOrder
