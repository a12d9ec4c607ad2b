--------------------------- MODULE MCBoardKanban ---------------------------
(* Small instances of BoardKanban for TLC: a board of two columns and a     *)
(* second board of one.                                                     *)
EXTENDS BoardLists, TLC

CONSTANTS boardA, boardB, todo, doing, other, p1, p2

MCBoards == {boardA, boardB}
MCColumns == {todo, doing, other}
MCBoardOf == todo :> boardA @@ doing :> boardA @@ other :> boardB

AllOps == [p \in Procs |-> Ops]
\* One moves and removes cards; the other moves and adds cards and deletes boards.
AddMoveDelete == p1 :> {"move", "remove"} @@ p2 :> {"move", "add", "destroyBoard"}
=============================================================================
