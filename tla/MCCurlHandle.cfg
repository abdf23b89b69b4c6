\* Two calls on a handle of each kind while the limits change.
SPECIFICATION Spec
CONSTANTS
  Speeds <- HostSpeeds
  Lengths = {12}
  Timeouts = {0, 5000}
  MaxWriteSize = 2
  DefaultTimeout = 2000
  Width = 14
  MaxCalls = 2
  MaxStores = 2
CHECK_DEADLOCK FALSE
INVARIANTS TransferUsesOwnObjects PostsOwnBody 
INVARIANTS TimeoutCoversUpload ZeroLimitIsSeen
