SPECIFICATION FairSpec
CONSTANTS
  Request = {r1, r2}
  Artifact = {a1}
  MaxRevision = 3
  MaxUpload = 2
INVARIANTS
  ManifestPinsDraft
  DisclosureFirst
  SavesAreEvidenced
PROPERTIES
  SealedStaysSealed
  ImplementsLifecycle
  RequestsEnd
CHECK_DEADLOCK FALSE
