\* Everything that has begun ends, until a GET fails after its headers; what a
\* failed one leaves behind is accounted for.
CONSTANTS
  Caller = {c1, c2}
  Worker = w
  NoThread = none
  MaxRecords = 1
  MaxCalls = 1
  LateErrors = TRUE
SPECIFICATION LiveSpec
INVARIANTS OnlyLateErrorsLeak TasksAccounted
PROPERTIES CallsReturn DestructorReturns
