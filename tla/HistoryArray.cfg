\* Both algorithms, snapshots of two words.
CONSTANTS
  Depth = 3
  Size = 2
  Val = {u, v}
  Junk = Junk
  Magic = 999
  Orders = {TRUE, FALSE}
SPECIFICATION Spec
INVARIANTS TypeOK PtrsOnBoundary NSnapshotsExact DSnapshotsAgree
SYMMETRY Symmetry
