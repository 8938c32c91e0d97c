\* Three lines and two faults; or four sessions, a queue of two and batches of two.
SPECIFICATION DbSpec
CONSTANTS
  Lines <- MCLines
  MaxPending = 3
  MaxLines = 3
  MaxFaults = 2
  Capacity = 2
  BatchSize = 2
  MaxSamples = 4
  LastFlushDay = 1
INVARIANTS
  DbTypeOK
  LinesHandledOnce
  RowsFitLines
  SamplesAccounted
PROPERTY TasksCatchUp
CHECK_DEADLOCK FALSE
