SPECIFICATION Spec
CONSTANTS
  Writers = {w1, w2}
  Readers = {r1}
  Requests <- MCRequests
  MaxUpload = 3
  Old = Old
  None = None
INVARIANTS
  PublishedWhole
  ResumesInPlace
  ReadersUndisturbed
  OvertakenCreateFails
PROPERTIES
  UploadsEnd
CHECK_DEADLOCK FALSE
