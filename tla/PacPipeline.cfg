SPECIFICATION PipelineSpec
CONSTANTS
  UserPages = {1, 2, 4, 5}
  Junk = 7
  MaxScan = 4
  BigRange = 4
  Dumps <- MCDumps
  Logs <- MCLogs
  Nodes = {1, local}
  MaxWorkers = 3
  MinParallel = 20
  MaxSize = 8
  LocalWord = local
INVARIANTS CountsSurviveChunks HotPagesCover RangesPartition RoutedAreHotSized
CHECK_DEADLOCK FALSE
