SPECIFICATION Spec
CONSTANTS
  Request = {r1, r2}
  Artifact = {a1}
  MaxRevision = 3
  MaxUpload = 2
PROPERTY AcceptedIsTerminal
CHECK_DEADLOCK FALSE
