\* A request closes the handle that LIBHTTPGetAuthLocalIp uses.
SPECIFICATION Spec
CONSTANTS
  t1 = t1
  t2 = t2
  NoThread = NoThread
  Threads = {t1, t2}
  Kinds = {"Request", "GetAuthLocalIp"}
  MaxCalls = 1
  MaxChunks = 0
SYMMETRY Symmetry
INVARIANT LocalIpPointerNotFreed
