SPECIFICATION MCSpec
CONSTANTS
  Intervals = {10, 60, 180}
  Tick = 7
  MaxFailures = 7
  None = none
  word1 = word1
  word2 = word2
  group1 = group1
  Word = {word1, word2}
  Group = {group1}
  Page = {page}
  Writer = {writer}
  Cleanup = cleanup
  Row = {1, 2}
  Tender = {tender1}
  Texts <- MCTexts
  GroupForms <- MCGroupForms
  KeywordForms <- MCKeywordForms
  Seed <- MCSeed
  MaxOperations = 2
  Person = {person1, person2}
  Post = {person1, person2}
  Notice = {notice1, notice2}
  Search = {search1}
  Status = {"bidding"}
SYMMETRY MCSymmetry
INVARIANTS SettingsTypeOK DatesFollowSettings FailuresAreShown PagesFollowKeywords
  HomeShowsOwnChanges HistoryEndsWithWorkflow
PROPERTY RetriesBackOff
