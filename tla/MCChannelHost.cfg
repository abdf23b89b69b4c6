\* Two threads with two calls each; the proxy comes and goes.
SPECIFICATION Spec
CONSTANTS
  Threads = {t1, t2}
  NoThread = NoThread
  Families <- BothOrOne
  Proxies = {"none", "v6"}
  MaxCalls = 2
INVARIANTS ChannelFollowsConfig LockedDetectionsExclude UrlOfOneHost
SYMMETRY Symmetry
