SPECIFICATION FairSpec
CONSTANTS
  Tender = {t1}
  Url = {u1}
  UnsafeUrl = {}
  ExtractionId = {j1}
  CleanupId = cleanup
  Goroutine = {g1}
  Loop = loop
  Startup = startup
  Handler = {}
  None = none
  Ageable = {}
  MaxAttempts = 2
  ClaimLimit = 2
  SyncOnStartup = FALSE
  CanCrash = TRUE
  StoreMayFail = FALSE


PROPERTIES JobsSettle
