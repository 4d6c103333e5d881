SPECIFICATION Spec
CONSTANTS
  ann = ann
  bob = bob
  Users = {ann, bob}
  Admins = {bob}
  NoOne = NoOne
  Readers = {r1}
  OwnerOf <- MCOwnerOf
  Score <- MCScore
  PageSize = 2
  MaxDocs = 3
CHECK_DEADLOCK FALSE
INVARIANT ReviewQueueIsFifo
