SPECIFICATION QualitySpec
CONSTANTS
  Sensors = {1, 2, 3}
  BatchSize = 1
  MaxEvents = 1
  MaxChanges = 2
  MaxErrors = 0
PROPERTIES LossRecovers
CHECK_DEADLOCK FALSE
