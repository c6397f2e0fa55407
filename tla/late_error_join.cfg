\* The destructor after a GET that failed after its headers.
CONSTANTS
  Caller = {c1}
  Worker = w
  NoThread = none
  MaxRecords = 1
  MaxCalls = 1
  LateErrors = TRUE
SPECIFICATION LiveSpec
PROPERTY DestructorAlwaysReturns
