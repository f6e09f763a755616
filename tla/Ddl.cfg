CONSTANTS
  Docs <- MCDocs
  Values <- MCValues
  Expired <- MCExpired
  Writers = {w1}
  Builders = {b1, b2}
  Unique = TRUE
  LeafCap = 1
  MaxWrites = 3
  MaxDdl = 3
SPECIFICATION Spec
CONSTRAINTS MCUntorn MCMaxOps
SYMMETRY MCSymmetry
INVARIANTS ReadyIndexAgrees CatalogAgrees NoOrphanBuild
CHECK_DEADLOCK FALSE
