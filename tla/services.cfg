SPECIFICATION ServicesSpec
CONSTANTS
  Signals = {"FLOW", "PRESSURE", "RESERVOIR_DEPLETION"}
  Tracked <- MCTracked
  Required <- MCRequired
  FindingSlots = 2
  Windows <- MCWindows
  MaxReprocess = 1
  Sensors = {1, 2}
  BatchSize = 2
  MaxEvents = 2
  MaxChanges = 1
  MaxErrors = 1
  Machines = {m1, m2}
  Requests = {q1, q2}
  MaxSensors = 1
  MaxSnapshots = 2
  FailureThreshold = 3
  OutOfRange <- MCOutOfRange
  CriticalTypes = {"PRESSURE"}
  FaultTicks = 2
  FailureSeconds = 2
  MaxTime = 4
INVARIANTS ServicesTypeOK NoContradiction AssessedBehindOffset MonitoredHasSensors SnapshotsLinear
PROPERTIES FindingsDebounced FindingsFollowMachine QualityFollowsSensors BreakerCloses CycleFailureConfirmed
CHECK_DEADLOCK FALSE
