SPECIFICATION Spec
CONSTANTS
  d1 = d1
  d2 = d2
  d3 = d3
  ctl = ctl
  daemon = daemon
  dragomanctl = dragomanctl
  f1 = f1
  f2 = f2
  Callers <- BusyCallers
  Procs = {daemon}
  ProcOf <- BusyProcOf
  Daemon = daemon
  Threads <- BusyThreads
  Versions = {1, 2}
  Supported = {1, 2}
  System = {1, 3}
  ModelFiles = {f1}
  MaxCalls = 3
  MaxKills = 0
PROPERTY EveryOperationEnds
CHECK_DEADLOCK FALSE
