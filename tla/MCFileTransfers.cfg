\* Two downloads and one upload in parallel, two stop requests.
SPECIFICATION TFairSpec
CONSTANTS
  MaxBody = 2
  IdleLimit = 1
  Downloads = 2
  MaxFile = 1
  Uploads = 1
  MaxStops = 2
CHECK_DEADLOCK FALSE
INVARIANTS SuccessLeavesBody FailureLeavesNoFile ProgressIsFileSize
INVARIANT StoppedTransferFails
PROPERTIES DeliversFile StopEndsOneTransfer DownloadReturns
