\* Three records of two entries; times of one and of two digits.
CONSTANTS
  Entries = 2
  Times = {9, 10, 11}
  Sizes = {1}
  ContentTypes = {octets, text}
  DefaultType = octets
  NoType = no_type
  Labels = {a, b}
  Values = {x}
  Erase = erase
  NoHeader = no_header
  MaxRecords = 3
  Protocols = {1, 2}
SPECIFICATION ResponseSpec
INVARIANTS ParsedAsSent NoneMissing
