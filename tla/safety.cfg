CONSTANTS
  good = good
  bad = bad
  Sensors = {good, bad}
  MaxSeq = 2
  Malformed <- BadEvents
  Handlers = {h1, h2}
  Drainer = Drainer
  MaxTries = 2
  DrainBatch = 2
  MaxMessages = 3
  MaxTroubles = 2
  MaxStops = 1
  NoEvent = NoEvent
  Numbers = {0, 1, 2}
  SourceTime <- ClockGoesBack
  EventBatch = 2
  MaxDeliveries = 4
  MaxReruns = 1
  MaxFaults = 1
  ModelVersions = {v1, v2}
  Builds = {b1, b2}
  Scripts = {p1, p2}
  MaxScripts = 3
SYMMETRY HandlerSymmetry
SPECIFICATION SafetySpec
INVARIANTS NeverDropped OvertakenOnlyInTrouble NumbersAccounted RegistryConsistent
CHECK_DEADLOCK FALSE
