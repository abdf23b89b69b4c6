\* Contending calls, a stalled upload among them, all return.
SPECIFICATION FairSpec
CONSTANTS
  t1 = t1
  t2 = t2
  NoThread = NoThread
  Threads = {t1, t2}
  Kinds = {"Download", "Upload", "RequestLocalIp"}
  MaxCalls = 1
  MaxChunks = 1
PROPERTY NonUploadCallsReturn
