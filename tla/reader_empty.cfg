\* Batches with empty records; every callback reads its record.
CONSTANTS
  Protocols = {"v2"}
  MaxRecords = 2
  Sizes = {0, 1}
  MaxChunk = 2
  Habits = {{}}
SPECIFICATION LiveSpec
PROPERTY ReadReturns
