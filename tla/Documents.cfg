SPECIFICATION Spec
CONSTANTS
  MaxLines = 4
  MaxLength = 3
  ChunkLines = 2
  MaxBytes = 2
INVARIANTS OutputIsWhole
PROPERTIES SettledWhenAnswered Answered
CHECK_DEADLOCK FALSE
