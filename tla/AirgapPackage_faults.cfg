SPECIFICATION Spec
CONSTANTS
  d1 = d1  d2 = d2  v1 = v1  v2 = v2  amd64 = amd64  arm64 = arm64
  None = None
  Corrupt = Corrupt
  Proc <- OneDownloader
  Version <- Versions
  Arch <- TwoArchs
  Overlap = FALSE
  Offline = TRUE
  Damage = TRUE
  Cancels = TRUE
  RemoveFails = TRUE
  ImportOver = TRUE
  MaxOps = 5
  MaxCrash = 1
SYMMETRY Symmetry
INVARIANTS TypeOK DoneArchIsReal
PROPERTY KeepsWanted
CHECK_DEADLOCK FALSE
