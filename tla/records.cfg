SPECIFICATION RecordsSpec
CONSTANTS
  Levels = {1, 2}
  Near <- NearItself
  NoLevel = NoLevel
  RequiredCycles = 2
  Firmwares = {f1, f2}
  NoFirmware = NoFirmware
  MaxVersion = 4
  MaxSignals = 2
  MaxBackfills = 1
  Requesters = {q1, q2}
  Places = {1, 2, 3, 4, 5}
  Rows <- ManyRows
  MaxEvidence = 3
  Documents = {d1, d2, d3}
  DocumentVersions = {v1, v2}
  Editors = {e1, e2}
  NoRow = NoRow
  DraftCases = {k1, k2}
  References = {w1, w2, w3}
  Clients = {c1, c2}
  NoReference = NoReference
  Factors = {x1, x2, x3}
  Admins = {a1, a2}
  MaxTime = 2
INVARIANTS RecordsTypeOK VersionsUnlessOvertaken ReferencesAgree OneFactorAtATime Corroboration
PROPERTIES AnchorMovesConfirmed SettledLevelIsServed DecisionsConverge ConfigurationHeals
CHECK_DEADLOCK FALSE
