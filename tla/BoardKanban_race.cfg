SPECIFICATION Spec
CONSTANTS
  Cards = {1, 2}
  Procs = {p1, p2}
  boardA = boardA
  boardB = boardB
  todo = todo
  doing = doing
  other = other
  p1 = p1
  p2 = p2
  Boards <- MCBoards
  Columns <- MCColumns
  BoardOf <- MCBoardOf
  OpsOf <- AddMoveDelete
  MaxPosition = 2
  Off = Off
  NotYet = NotYet
  Deleted = Deleted
  None = None
INVARIANT PlacementConsistent
CHECK_DEADLOCK FALSE
