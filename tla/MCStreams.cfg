SPECIFICATION MCSpec
CONSTANTS
  a = a
  b = b
  c = c
  None = None
  Columns = 2
  Results <- MCResults
  Merge <- MCMerge
  MaxBytes = 3
  Faults = {"retryable", "fatal", "truncate"}
  m1 = m1
  m2 = m2
  Message = {m1, m2}
  Size <- MCSize
  MaxCount = 2
  MaxSize = 2
  NoMessage = NoMessage
  MaxExtending = 1
INVARIANTS RowsAsSent EndsAsSent BufferBounded KeptAlive SettledAtReturn
PROPERTIES NothingTwice CanceledReturns ReceiveReturns
CHECK_DEADLOCK FALSE
