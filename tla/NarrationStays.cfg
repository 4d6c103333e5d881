SPECIFICATION Spec
CONSTANTS
  r1 = r1
  r2 = r2
  None = None
  Requests = {r1, r2}
  MaxGallery = 2
  MaxFiles = 3
  MaxDownloads = 0
  MaxVersion = 3
CHECK_DEADLOCK FALSE
INVARIANT OldNarrationIsDeleted
