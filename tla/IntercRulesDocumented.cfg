SPECIFICATION Spec
CONSTANTS
  Threads = {t1}
  Loader = t0
  Lines <- MCParsedLines
  MaxFile = 1
  MaxAddrRules = 1
  MaxNameRules = 2
  RouteThreshold = 1
  Requests <- MCRequests
  Home <- MCHome
  CpuNode <- MCCpuNode
  LocalWord = local
  NoFile = nofile
  NoThread = nobody
PROPERTIES RoutedAsDocumented
