\* Two threads call the former library while the host aborts and moves files.
SPECIFICATION LFairSpec
CONSTANTS
  t1 = t1
  t2 = t2
  f1 = f1
  Absent = Absent
  Host = Host
  Threads = {t1, t2}
  Names = {f1}
  Full = 2
  Block = 2
  MaxBody = 3
  MaxCalls = 1
INVARIANTS HandlesReleased PartialOnlyIfAborted AbortedCallsStop
INVARIANTS OpenFailureFreesName OneBlockResponseIsBody PostMissesLessThanBlock
PROPERTY AbortEndsCalls
