CONSTANTS
  good = good
  bad = bad
  Sensors = {good}
  MaxSeq = 2
  Malformed = {}
  Handlers = {h1, h2}
  Drainer = Drainer
  MaxTries = 2
  DrainBatch = 2
  MaxMessages = 2
  MaxTroubles = 2
  MaxStops = 1
  NoEvent = NoEvent
SPECIFICATION Spec
INVARIANTS AtLeastOnce
