CONSTANTS
  Threads = {t1}
  Clients = {c}
  Buckets = {b}
  Versions <- MCVersions
SPECIFICATION Spec
INVARIANTS TokensAsAsked
