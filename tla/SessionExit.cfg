SPECIFICATION Spec
CONSTANTS
  c1 = c1
  c2 = c2
  Clients = {c1, c2}
  Commands <- MCCommands
  MaxDaemons = 2
  MaxSignals = 1
  Killable = FALSE
INVARIANTS NoneStranded
CHECK_DEADLOCK FALSE
