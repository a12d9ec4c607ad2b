SPECIFICATION FairSpec
CONSTANTS
  Memos = {m1}
  Procs = {p1, p2}
  t1 = t1
  t2 = t2
  s1 = s1
  s2 = s2
  x = x
  y = y
  tag = tag
  p1 = p1
  p2 = p2
  Titles <- MCTitles
  Stems <- MCStems
  Frags <- MCFrags
  Tags <- MCTags
  StemOf <- MCStemOf
  Payloads <- TwoTitles
  OpsOf <- FileOps
  CanCrash = TRUE
  TicksPerSecond = 2
  MaxClock = 3
  NoFile = NoFile
  NotYet = NotYet
  Deleted = Deleted
  Nobody = Nobody
INVARIANT TypeOK
INVARIANT CommittedHasHead
PROPERTY StagedEntrySurvives
PROPERTY EveryRequestEnds
CHECK_DEADLOCK FALSE
