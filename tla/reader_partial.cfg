\* A callback stops the transfer of its record.
CONSTANTS
  Protocols = {"v2"}
  MaxRecords = 2
  Sizes = {1, 2}
  MaxChunk = 2
  Habits = {{"partial"}}
SPECIFICATION Spec
INVARIANT OwnBytes
