SPECIFICATION Spec
CONSTANTS
  i1 = i1
  b1 = b1
  b2 = b2
  NoJob = NoJob
  Jobs <- MCJobs
  Priority <- MCPriority
  Segments <- MCSegments
  Flagged <- MCFlagged
  BATCH_CHUNK = 2
INVARIANTS ActiveCounts NoJobLost OkIsComplete InteractiveDelay
PROPERTIES ImplementsService ImplementsLife AcceptedAnswered
