SPECIFICATION Spec
CONSTANTS
  Cards = {1, 2, 3}
  Procs = {p1}
  boardA = boardA
  boardB = boardB
  todo = todo
  doing = doing
  other = other
  p1 = p1
  p2 = p2
  Boards <- MCBoards
  Columns <- MCColumns
  BoardOf <- MCBoardOf
  OpsOf <- AllOps
  MaxPosition = 4
  Off = Off
  NotYet = NotYet
  Deleted = Deleted
  None = None
INVARIANT TypeOK
PROPERTY ImplementsLists
PROPERTY ColumnsRenumbered
CHECK_DEADLOCK FALSE
