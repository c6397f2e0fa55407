\* Batches of three records for two entries, with slices shorter than a record.
CONSTANTS
  Entries = 2
  Times = {1, 2, 4}
  Sizes = {0, 3}
  MaxRecords = 3
  MaxChunk = 2
  Types = {"write", "update", "remove"}
  Protocols = {1, 2}
SPECIFICATION Spec
INVARIANTS TypeOK StoredAsAdded ErrorsAttributed NeverCutOff
