\* The overload for an entry, on a server without V2.
CONSTANTS
  Entries = 2
  Times = {1}
  Sizes = {1}
  MaxRecords = 1
  MaxChunk = 1
  Types = {"write"}
  Protocols = {1}
SPECIFICATION Spec
INVARIANT StoredWhereAdded
