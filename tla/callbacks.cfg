\* Two application threads and nested calls, no error after the headers.
CONSTANTS
  Caller = {c1, c2}
  Worker = w
  NoThread = none
  MaxRecords = 2
  MaxCalls = 1
  LateErrors = FALSE
SPECIFICATION Spec
SYMMETRY Symmetry
INVARIANTS TypeOK NoTaskOutlivesCall
PROPERTY ContractHolds
