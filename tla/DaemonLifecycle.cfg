SPECIFICATION LifecycleSpec
CONSTANTS
  MaxPids = 3
  MaxCrashes = 2
  MaxReuses = 1
  NoFile = nofile
  EmptyFile = empty
  NoPid = nopid
INVARIANTS OneDaemon LiveDaemonReachable
PROPERTIES StopEndsDaemon StartSucceeds
CONSTRAINT MCUntilCrossed
CHECK_DEADLOCK FALSE
