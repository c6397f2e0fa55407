CONSTANTS
  Threads = {t1, t2}
  Clients = {c}
  Buckets = {b}
  Versions <- MCThreeVersions
SPECIFICATION Spec
SYMMETRY ThreadSymmetry
INVARIANTS TypeOK VersionBracketed FormFits
