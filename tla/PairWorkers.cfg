SPECIFICATION Spec
CONSTANTS
  t1 = t1
  t2 = t2
  t3 = t3
  None = None
  Tasks <- MCTasks
  Call <- MCCall
  Pairs <- MCPairs
  InitiallyInstalled <- MCInstalled
  Removable <- MCRemovable
  PIVOT_LANGUAGE = "en"
  ESTIMATED_MODEL_MB = 1
  Measured = {0}
  Budgets = {2}
  KEEP_WARM = 1
INVARIANT HeldIsOpen
PROPERTIES LoadsOnce EvictsLeastRecent EveryTaskEnds IdleUnloads EntriesImplementLife
