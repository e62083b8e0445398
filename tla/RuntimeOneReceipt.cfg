SPECIFICATION Spec
CONSTANTS
  Path = {memo, notes, sketch}
  Required = {memo}
  MaxArtifacts = 2
  MaxVersions = 2
  Timebox = 2
  TicksPerSecond = 2
  MaxTime = 7
  MaxSegments = 2
  MaxReceipts = 2
INVARIANT OneReceipt
CHECK_DEADLOCK FALSE
