CONSTANTS
  Incidents = {i1, i2}
  Cases = {c1, c2}
  Keys = {k1}
  Requests = {r1, r2}
  MaxFeedback = 2
  NoRow = NoRow
SYMMETRY RowSymmetry
SPECIFICATION WorkflowSpec
PROPERTIES TransitionsValidated
