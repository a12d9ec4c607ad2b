SPECIFICATION FairSpec
CONSTANTS
  Histories <- MCHistories
  MaxTurns = 2
  MaxAttempts = 2
  MaxExtras = 1
INVARIANT TypeOK
INVARIANT OneAnswerPerQuestion
INVARIANT PanelShowsItsTurn
PROPERTY SendingEnds
PROPERTY PollingEnds
CHECK_DEADLOCK FALSE
