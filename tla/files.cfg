CONSTANTS
  Pipeline <- Chain
  Exchange <- ChainFiles
  MaxLost = 0
  Reporting <- ClusterReports
SPECIFICATION FilesSpec
INVARIANT InputsFromLast OwnWorkspace JunitKept
CHECK_DEADLOCK FALSE
