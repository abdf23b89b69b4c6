\* Two threads with three calls each: they log while the listener is replaced.
SPECIFICATION FairSpec
CONSTANTS
  Threads = {t1, t2}
  NoThread = NoThread
  Listeners = {l1, l2, l3}
  NULL = NULL
  MaxCalls = 3
CHECK_DEADLOCK FALSE
INVARIANT ReplacedListenerIsQuiet
PROPERTIES LogsAreAtomic LogCallsReturn
