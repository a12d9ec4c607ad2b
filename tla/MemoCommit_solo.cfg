SPECIFICATION Spec
CONSTANTS
  Memos = {m1}
  Procs = {p1}
  t1 = t1
  t2 = t2
  s1 = s1
  s2 = s2
  x = x
  y = y
  tag = tag
  p1 = p1
  p2 = p2
  Titles <- MCTitles
  Stems <- MCStems
  Frags <- MCFrags
  Tags <- MCTags
  StemOf <- MCStemOf
  Payloads <- AllForms
  OpsOf <- AllOps
  CanCrash = FALSE
  TicksPerSecond = 2
  MaxClock = 5
  NoFile = NoFile
  NotYet = NotYet
  Deleted = Deleted
  Nobody = Nobody
INVARIANT OnePathPerMemo
PROPERTY SlugKeptOnceCommitted
PROPERTY RevertRestores
CHECK_DEADLOCK FALSE
