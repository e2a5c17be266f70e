CONSTANTS
  None = none
  Request = {q1, q2}
  Session = {m1, m2}
  MaxFailedLogins = 1
  CodesPerSet = 1
  MaxChanges = 1
  MaxSets = 2
  AdminRequest = {q1, q2}
  User = {root, m1, m2}
  Root = root
  Tenant = {tenant1, tenant2, tenant3}
  tenant1 = tenant1
  tenant2 = tenant2
  tenant3 = tenant3
  Home = tenant1
  Rank <- MCRank
  Slug <- MCSlug
  OldRole = {"admin", "portfolio_manager", "tenant_owner", "viewer"}
  FormRole = {"tenant_owner", "tenant_admin", "viewer"}
  MaxRows = 2
  Process = {q1, q2}
  Table = {bookmarks}
  Item = {"old", "new"}
  JSONRows <- MCJSONRows
  tender1 = tender1
  Indexable = {tender1}
  JobTables <- MCJobTables
  Attempt = {q1, q2}
  Key = {m1, m2}
  Window = 2
  MaxAttempts = 3
  MaxBlocks = 2
SPECIFICATION MCSpec
SYMMETRY MCSymmetry
INVARIANTS
  RecordsTypeOK
  SessionsFollowThePassword
  CodesWorkOnce
  OwnersStay
  RolesAreTranslated
  DeletedStaysDeleted
  MigrationIsComplete
PROPERTIES GrantsAreOwned BlocksFollowFailures
CHECK_DEADLOCK FALSE
