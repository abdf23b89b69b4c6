\* Every call, with and without a call mutex, on two threads.
SPECIFICATION Spec
CONSTANTS
  t1 = t1
  t2 = t2
  NoThread = NoThread
  Threads = {t1, t2}
  Kinds = {"Request", "RequestWithoutToken", "RequestLocalIp", "ReDetectChannelIp", "GetChannelIpInfo", "Download", "Upload", "GetAuthLocalIp", "SetTranssionMissSpeeds"}
  MaxCalls = 1
  MaxChunks = 1
SYMMETRY Symmetry
INVARIANTS SomeCallRuns LockDiscipline LockOrder
INVARIANTS AuthedTransferCarriesToken TornTokenNeedsUnlockedAccess
INVARIANTS LockedCallsKeepHandle HandleSharedOnlyWithUnlocked
PROPERTIES CallsAreSerial StoresNewestToken StopsEndTransfers CallsAdvance
