SPECIFICATION Spec
CONSTANTS
  Threads = {main, early, c1, c2, c3}
  Main = main
  Early = {early}
  affinity_nodes <- MCNodes
  Cpus <- MCCpus
  MaxInt = 2
  Failures = {"wrap", "create", "bind"}
  NoThread = nobody
  NoNode = none
INVARIANTS NoNodeOversubscribed WrapperInFlight
PROPERTIES CreateReturns
CHECK_DEADLOCK FALSE
