\* A query over a fixed set of records, and a continuous one while records are
\* being written.
CONSTANTS
  QueryThread = q
  MaxRecords = 2
  MaxAvailable = 5
SPECIFICATION LiveSpec
INVARIANTS NoRecordLostOrRepeated OkIsComplete ContinuousGoesOn
PROPERTIES StopIsFinal QueryReturns WrittenIsSeen
