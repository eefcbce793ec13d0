\* The O(d) algorithm under every sequence of assignments.
CONSTANTS
  Depth = 2
  Size = 2
  Val = {u, v}
  Junk = Junk
  Magic = 999
  Orders = {TRUE}
SPECIFICATION Spec
INVARIANT SnapshotsAgree
