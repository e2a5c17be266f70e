SPECIFICATION FairSpec
CONSTANTS
  Attempt = {a1}
  Key = {k1}
  Window = 2
  MaxAttempts = 3
  MaxBlocks = 2
  None = None
  Backups = {"fresh"}
  Extractors = {}
  Unreadable = Unreadable
  JobSnapshots <- QuietOrFailing
  ThrottleThreshold = 1
  FailureThreshold = 2
  BacklogMaxJobs = 3
  BacklogMaxAge = 1
  MaxRestarts = 1
INVARIANTS MonitorTypeOK ReceiverAgrees NoDuplicatePosts
PROPERTY AlertsArrive
