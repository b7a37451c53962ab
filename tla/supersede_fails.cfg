SPECIFICATION KnowledgeSpec
CONSTANTS
  Documents = {d1, d2}
  DocumentVersions = {v1, v2}
  Editors = {e1}
  NoRow = NoRow
INVARIANT ApprovalSupersedes
CHECK_DEADLOCK FALSE
