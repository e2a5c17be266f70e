SPECIFICATION FairSpec
CONSTANTS
  Tender = {t1}
  Url = {u1, u2}
  UnsafeUrl = {u2}
  ExtractionId = {j1, j2}
  CleanupId = cleanup
  Goroutine = {g1}
  Loop = loop
  Startup = startup
  Handler = {}
  None = none
  Ageable = {t1}
  MaxAttempts = 2
  ClaimLimit = 2
  SyncOnStartup = TRUE
  CanCrash = TRUE
  StoreMayFail = TRUE
PROPERTIES ResultsStay PassesEnd
