SPECIFICATION Spec
CONSTANTS
  d1 = d1
  d2 = d2
  d3 = d3
  ctl = ctl
  daemon = daemon
  dragomanctl = dragomanctl
  f1 = f1
  f2 = f2
  Callers <- MCCallers
  Procs = {daemon, dragomanctl}
  ProcOf <- MCProcOf
  Daemon = daemon
  Threads <- MCThreads
  Versions = {1, 2}
  Supported = {1, 2}
  System = {1, 3}
  ModelFiles = {f1, f2}
  MaxCalls = 3
  MaxKills = 1
INVARIANTS OneWriter
PROPERTIES OkIsResolved RemovedIsGone InstallIsAtomic OnlyHeadlessBlocks EveryOperationEnds
CHECK_DEADLOCK FALSE
