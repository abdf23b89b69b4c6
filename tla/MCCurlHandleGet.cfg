\* A download without data after one with data.
SPECIFICATION Spec
CONSTANTS
  Speeds <- HostSpeeds
  Lengths = {12}
  Timeouts = {0, 5000}
  MaxWriteSize = 2
  DefaultTimeout = 2000
  Width = 14
  MaxCalls = 2
  MaxStores = 2
CHECK_DEADLOCK FALSE
INVARIANT GetDownloadStaysGet
