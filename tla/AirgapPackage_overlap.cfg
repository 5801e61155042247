SPECIFICATION Spec
CONSTANTS
  d1 = d1  d2 = d2  v1 = v1  v2 = v2  amd64 = amd64  arm64 = arm64
  None = None
  Corrupt = Corrupt
  Proc <- TwoDownloaders
  Version <- Versions
  Arch <- OneArch
  Overlap = TRUE
  Offline = TRUE
  Damage = TRUE
  Cancels = FALSE
  RemoveFails = FALSE
  ImportOver = FALSE
  MaxOps = 3
  MaxCrash = 0
INVARIANTS InProgressHasDownloader CancelReachesRunning
PROPERTY StateSettles
CHECK_DEADLOCK FALSE
