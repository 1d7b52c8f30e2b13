SPECIFICATION Spec
CONSTANTS
  Pids = {1, 2}
  Exes = {app, tool}
  Profiled = {app}
  RuleProfiles = {app}
  UserEnvs <- MCUserEnvs
  UserConf = userconf
  Unset = unset
  LocalRules = TRUE
  NumaAvailable = TRUE
  CrossSocket = TRUE
  NodesNamed = TRUE
  MaxQueue = 2
  MaxStarts = 2
  MaxExecs = 1
INVARIANTS OwnConfigOrPassive PassiveInert ExplicitEnvWins RegistryCurrent
PROPERTY ReachesMain
CHECK_DEADLOCK FALSE
