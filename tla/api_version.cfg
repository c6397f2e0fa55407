CONSTANTS
  Threads = {t1, t2}
  Clients = {c}
  Buckets = {b}
  Versions <- MCVersions
SPECIFICATION Spec
INVARIANTS TypeOK VersionBracketed FormFits
PROPERTY CallsReturn
