SPECIFICATION Spec
CONSTANTS
  Tender = {t1}
  Url = {u1}
  UnsafeUrl = {}
  ExtractionId = {j1, j2}
  CleanupId = cleanup
  Goroutine = {g1, g2}
  Loop = loop
  Startup = startup
  Handler = {h1}
  None = none
  Ageable = {}
  MaxAttempts = 2
  ClaimLimit = 2
  SyncOnStartup = TRUE
  CanCrash = FALSE
  StoreMayFail = FALSE
SYMMETRY Symmetry
INVARIANTS TypeOK OneRowPerDocument ProcessingIsOwned ClaimsAreExclusive
PROPERTIES LifecycleSpec
