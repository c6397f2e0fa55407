\* Careful and careless callbacks, records of no, one and three bytes.
CONSTANTS
  Protocols = {"single", "v1", "v2"}
  MaxRecords = 3
  Sizes = {0, 1, 3}
  MaxChunk = 4
  Habits = {{}, {"skip", "partial", "again"}}
SPECIFICATION LiveSpec
INVARIANTS TypeOK CarefulGetOwnBytes WholeRecords NoCrash BytesInOrder
PROPERTY CarefulReadReturns
