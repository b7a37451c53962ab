CONSTANTS
  EdgeSensors = {s1, s2}
  MaxAcquired = 2
  MaxBuffered = 1
  SnapshotLimit = 2
  OfflineAfter = 2
  RecoveredAfter = 2
  Procs = {run}
  Runner = run
  MaxOutbox = 2
  MaxCrashes = 1
  NoEdgeEvent = NoEdgeEvent
  Sensors = {s1}
  MaxSeq = 2
  Malformed <- SecondMalformed
  Handlers = {h1}
  Drainer = Drainer
  MaxTries = 1
  DrainBatch = 2
  MaxMessages = 2
  MaxTroubles = 1
  MaxStops = 1
  BatchSize = 2
  MaxFaults = 1
  NoEvent = NoEvent
SPECIFICATION PathSpec
INVARIANTS GatewayTypeOK MintedIsFresh BacklogBounded ConnectivityTellsTheTruth SettledMeansDelivered
INVARIANTS PipelineTypeOK CommittedIsStored
PROPERTIES FirstDeliveryInOrder CustodyPromise BacklogDrains
PROPERTIES IngestionPromise AcknowledgedIsStored SpoolEmpties
