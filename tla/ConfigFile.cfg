SPECIFICATION Spec
CONSTANTS
  c1 = c1
  c2 = c2
  Clients = {c1}
  Changes <- MCChanges
  Edits <- MCEdits
INVARIANTS AllOrNothing InStep
PROPERTY ReplacedAtomically
