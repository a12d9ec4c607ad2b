SPECIFICATION Spec
CONSTANTS
  Memos = {m1}
  Procs = {p1, p2}
  t1 = t1
  t2 = t2
  s1 = s1
  s2 = s2
  x = x
  y = y
  tag = tag
  p1 = p1
  p2 = p2
  Titles <- MCTitles
  Stems <- MCStems
  Frags <- MCFrags
  Tags <- MCTags
  StemOf <- MCStemOf
  Payloads <- FewForms
  OpsOf <- CommitOrSave
  CanCrash = TRUE
  TicksPerSecond = 2
  MaxClock = 4
  NoFile = NoFile
  NotYet = NotYet
  Deleted = Deleted
  Nobody = Nobody
INVARIANT CleanTextMatchesHead
PROPERTY AppendedTextSurvives
CHECK_DEADLOCK FALSE
