\* Two threads read what the host sets meanwhile.
SPECIFICATION Spec
CONSTANTS
  t1 = t1
  t2 = t2
  s1 = s1
  s2 = s2
  NoThread = NoThread
  Threads = {t1, t2}
  Settings = {s1, s2}
  MaxCalls = 1
  MaxSets = 2
SYMMETRY Symmetry
CHECK_DEADLOCK FALSE
INVARIANTS HostIdentityStays IdentityIsHosts TransferUsesProxy
