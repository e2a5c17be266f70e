CONSTANTS
  Run = {r1, r2}
  View = {v1}
  Subject = {"tender", "test"}
  TestSubject = "test"
  Channel = {"mail", "hook"}
  Emailing = {"mail"}
  Forms <- MCForms
  Settings <- MCSettings
  MaxUnsure = 1
  New = new
  Gone = gone
  None = none
  Request = {p1, p2}
  Writer = {w1}
  Row = {i1}
  Word = {"pipe"}
  Tender = {t1}
  Texts <- MCTexts
  Off = off
SPECIFICATION MCSpec
SYMMETRY MCSymmetry
INVARIANTS
  ViewsTypeOK
  MailIsRemembered
  NoRunRepeatsItself
  SentWasMailed
  NothingIsSkipped
  MatchesAreExact
  RunningIsTrue
