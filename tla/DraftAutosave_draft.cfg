SPECIFICATION FairSpec
CONSTANTS
  t1 = t1
  t2 = t2
  b0 = b0
  b1 = b1
  b2 = b2
  h1 = h1
  h2 = h2
  own = own
  tag = tag
  p0 = p0
  p1 = p1
  Tabs = {t1, t2}
  Bodies <- MCBodies
  Tags <- MCTags
  Props <- MCProps
  Derived <- MCDerived
  Custom <- MCCustom
  Blank = Blank
  Untitled = Untitled
  EmptyBody = b0
  NoProps = p0
  NoBody = NoBody
  NoForm = NoForm
  Scenes <- MCScenes
  MaxEdits = 2
  MaxFaults = 1
  MaxCalls = 1
INVARIANT TypeOK
PROPERTY UnsavedTextKept
INVARIANT OneMemoPerPage
INVARIANT AckedDraftIsSnapshot
INVARIANT TitleFollowsBody
PROPERTY AutosaveSettles
CHECK_DEADLOCK FALSE
