SPECIFICATION FairSpec
CONSTANTS
  Tender = {t1}
  Url = {u1}
  UnsafeUrl = {}
  ExtractionId = {j1}
  CleanupId = cleanup
  Goroutine = {g1}
  Loop = loop
  Startup = startup
  Handler = {h1}
  None = none
  Ageable = {}
  MaxAttempts = 2
  ClaimLimit = 3
  SyncOnStartup = FALSE
  CanCrash = FALSE
  StoreMayFail = FALSE


PROPERTIES JobsSettle
