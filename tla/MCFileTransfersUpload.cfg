\* A failed upload and the code it returns.
SPECIFICATION TSpec
CONSTANTS
  MaxBody = 2
  IdleLimit = 1
  Downloads = 2
  MaxFile = 1
  Uploads = 1
  MaxStops = 2
CHECK_DEADLOCK FALSE
INVARIANT FailedUploadIsNegative
