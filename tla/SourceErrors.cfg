SPECIFICATION Spec
CONSTANTS
  a = a
  c1 = c1
  g1 = g1
  h = h
  Key = {a}
  Default = {a}
  ConfigId = {c1}
  Goroutine = {g1}
  Handler = {h}
  Loop = loop
  Startup = startup
  None = none
  SyncOnStartup = FALSE
  StoreMayFail = TRUE
  MaxKills = 0
SYMMETRY Symmetry
INVARIANTS TypeOK StatusFitsFailures
