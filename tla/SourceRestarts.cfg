SPECIFICATION FairSpec
CONSTANTS
  a = a
  c1 = c1
  c2 = c2
  g1 = g1
  g2 = g2
  Key = {a}
  Default = {a}
  ConfigId = {c1,c2}
  Goroutine = {g1,g2}
  Handler = {}
  Loop = loop
  Startup = startup
  None = none
  SyncOnStartup = TRUE
  StoreMayFail = FALSE
  MaxKills = 3
INVARIANTS RunningIsOwned OneCheckPerSource
PROPERTY ChecksGoOn
