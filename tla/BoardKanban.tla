---------------------------- MODULE BoardKanban ----------------------------
(***************************************************************************)
(* Kanban boards: a memo is a card when its row names a board, a column of *)
(* that board and a position; a column shows its cards by (position, id).  *)
(* Each service of BoardKanban works on rows it has loaded and writes row  *)
(* by row.  A transaction reads committed rows and its own writes, and an  *)
(* UPDATE waits for the transaction that has written the same row.         *)
(***************************************************************************)
EXTENDS Integers, FiniteSets

CONSTANTS
  Cards,        \* memo ids
  Boards, Columns,
  BoardOf,      \* the board of a column
  Procs,
  OpsOf,        \* the operations each process may be asked for
  MaxPosition,  \* bound: no card is appended behind this position
  Off, NotYet, Deleted,
  None          \* no entry in a write set or a plan

Ops == {"move", "remove", "add", "create", "destroyMemo", "destroyBoard"}

ASSUME CardsAssumption    == Cards \subseteq Nat /\ IsFiniteSet(Cards)
ASSUME BoardOfAssumption  == BoardOf \in [Columns -> Boards]
ASSUME OpsAssumption      == OpsOf \in [Procs -> SUBSET Ops]
ASSUME PositionAssumption == MaxPosition \in Nat
ASSUME OffAssumption      == Off \notin Boards /\ Off \notin Columns

\* board_id, kanban_column_id and kanban_position of a memo; Off is NULL.
Rows == [board : Boards \cup {Off}, column : Columns \cup {Off}, position : Nat]
Absent == {NotYet, Deleted}
OffBoard == [board |-> Off, column |-> Off, position |-> 0]

ASSUME AbsentAssumption == Absent \cap Rows = {}
ASSUME NoneAssumption   == None \notin Rows \cup Absent \cup Nat

Pcs == {"place", "list", "renumber", "compact", "renumberOld", "max", "put", "insert"}
Idle == [pc |-> "idle"]

\* A request: the row it loaded, the column and index it was asked for, and the
\* positions it still has to write.
Requests ==
  [pc : Pcs, op : Ops, card : Cards, ld : Rows, board : Boards,
   column : Columns \cup {Off}, index : Nat, plan : [Cards -> Nat \cup {None}]]

VARIABLES
  cards,   \* memo -> committed row
  boards,  \* the boards that exist
  ws,      \* process -> rows its open transaction has written
  req      \* process -> request

vars == <<cards, boards, ws, req>>

TypeOK ==
  /\ cards \in [Cards -> Rows \cup Absent]
  /\ boards \subseteq Boards
  /\ ws \in [Procs -> [Cards -> Rows \cup {None}]]
  /\ req \in [Procs -> Requests \cup {Idle}]

-----------------------------------------------------------------------------
\* Helpers

At(p, pc) == req[p].pc = pc
Finish(p) == req' = [req EXCEPT ![p] = Idle]

Empty == [c \in Cards |-> None]
Entries(f) == {c \in Cards : f[c] # None}

\* What the statements of p read.
Seen(p) == [c \in Cards |-> IF ws[p][c] = None THEN cards[c] ELSE ws[p][c]]

\* The row of c is locked by another transaction.
Held(p, c) == \E q \in Procs \ {p} : ws[q][c] # None

\* UPDATE of the row of c; one that is gone is not updated.
Write(p, c, row) ==
  ws' = IF Seen(p)[c] \in Absent THEN ws ELSE [ws EXCEPT ![p][c] = row]

OnBoard(view, b) == {c \in Cards : view[c] \notin Absent /\ view[c].board = b}
InColumn(view, b, col) == {c \in OnBoard(view, b) : view[c].column = col}

\* order(:kanban_position, :id)
Before(view, c, d) ==
  \/ view[c].position < view[d].position
  \/ view[c].position = view[d].position /\ c < d
Rank(view, S, c) == Cardinality({d \in S : Before(view, d, c)})

\* The next free position of a column: one more than the largest, 1 if empty.
NextPosition(view, b, col) ==
  LET taken == {view[c].position : c \in InColumn(view, b, col)}
  IN  IF taken = {} THEN 1 ELSE 1 + (CHOOSE i \in taken : \A j \in taken : j <= i)

\* Mutated: the card is put behind the card at the index.
InsertPlanAfter(view, S, card, index) ==
  LET others == S \ {card}
      spot == IF index < Cardinality(others) THEN index + 1 ELSE Cardinality(others)
      at(c) == IF c = card THEN spot
               ELSE IF Rank(view, others, c) < spot THEN Rank(view, others, c)
               ELSE Rank(view, others, c) + 1
  IN  [c \in Cards |-> IF c \in S \cup {card} /\ view[c].position # at(c) THEN at(c) ELSE None]

\* reorder_column!: the new position of every card that does not have it yet.
InsertPlan(view, S, card, index) ==
  LET others == S \ {card}
      spot == IF index < Cardinality(others) THEN index ELSE Cardinality(others)
      at(c) == IF c = card THEN spot
               ELSE IF Rank(view, others, c) < spot THEN Rank(view, others, c)
               ELSE Rank(view, others, c) + 1
  IN  [c \in Cards |-> IF c \in S \cup {card} /\ view[c].position # at(c) THEN at(c) ELSE None]

\* Mutated: the column is read in the order of the ids.
CompactPlanById(view, S) ==
  [c \in Cards |-> IF c \in S THEN Cardinality({d \in S : d < c}) ELSE None]

\* Mutated: the positions are counted from -1.
CompactPlanBelowZero(view, S) ==
  [c \in Cards |-> IF c \in S THEN Rank(view, S, c) - 1 ELSE None]

\* compact_column!
CompactPlan(view, S) ==
  [c \in Cards |-> IF c \in S /\ view[c].position # Rank(view, S, c)
                   THEN Rank(view, S, c) ELSE None]

\* A memo may have been written before, away from the boards.
Init ==
  /\ cards \in [Cards -> {NotYet, OffBoard}]
  /\ boards = Boards
  /\ ws = [p \in Procs |-> Empty]
  /\ req = [p \in Procs |-> Idle]

-----------------------------------------------------------------------------
\* Starting a request: the controller loads the memo and finds the column.

CanStart(p, op) == At(p, "idle") /\ op \in OpsOf[p]

Start(p, op, pc, c, ld, b, col, index) ==
  /\ req' = [req EXCEPT ![p] = [pc |-> pc, op |-> op, card |-> c, ld |-> ld, board |-> b,
                                column |-> col, index |-> index, plan |-> Empty]]
  /\ UNCHANGED <<cards, boards, ws>>

BeginMove(p, c, col, index) ==
  LET b == BoardOf[col] IN
  /\ CanStart(p, "move") /\ b \in boards /\ c \in OnBoard(cards, b)
  /\ Start(p, "move", "place", c, cards[c], b, col, index)

BeginRemove(p, c, b) ==
  /\ CanStart(p, "remove") /\ b \in boards /\ c \in OnBoard(cards, b)
  /\ Start(p, "remove", "place", c, cards[c], b, Off, 0)

\* Only a memo on no board can be found to be added (available_for_board).
BeginAdd(p, c, col) ==
  /\ CanStart(p, "add") /\ BoardOf[col] \in boards /\ c \in OnBoard(cards, Off)
  /\ Start(p, "add", "max", c, cards[c], BoardOf[col], col, 0)

\* The id is fresh: no other request is creating it.
BeginCreate(p, c, col) ==
  /\ CanStart(p, "create") /\ BoardOf[col] \in boards /\ cards[c] = NotYet
  /\ \A q \in Procs : ~At(q, "idle") => req[q].card # c
  /\ Start(p, "create", "max", c, OffBoard, BoardOf[col], col, 0)

-----------------------------------------------------------------------------
\* Steps of a request

\* An UPDATE writes the attributes that differ from the loaded row.
Differing(row, ld, new) ==
  [f \in {"board", "column", "position"} |-> IF new[f] # ld[f] THEN new[f] ELSE row[f]]

\* The first statement of a move or a removal; a column that is gone breaks the
\* foreign key.  A move within a column has nothing to update yet.
Place(p) ==
  LET r == req[p]
      c == r.card
      new == IF r.op = "move" THEN [r.ld EXCEPT !.board = r.board, !.column = r.column]
             ELSE OffBoard
  IN  /\ At(p, "place")
      /\ \/ /\ new # r.ld /\ ~Held(p, c)
            /\ r.op = "move" => r.board \in boards
            /\ Write(p, c, Differing(Seen(p)[c], r.ld, new))
            /\ req' = [req EXCEPT ![p].pc = IF r.op = "move" THEN "list" ELSE "compact"]
         \/ /\ new = r.ld /\ UNCHANGED ws
            /\ req' = [req EXCEPT ![p].pc = "list"]
         \/ /\ new # r.ld /\ r.op = "move" /\ r.board \notin boards
            /\ Finish(p) /\ UNCHANGED ws
      /\ UNCHANGED <<cards, boards>>

\* Mutated: the moved card is not looked up on the board again.
ListUnchecked(p) ==
  LET r == req[p] IN
  /\ At(p, "list")
  /\ req' = [req EXCEPT ![p].pc = "renumber",
               ![p].plan = CompactPlan(Seen(p), InColumn(Seen(p), r.board, r.column))]
  /\ UNCHANGED <<cards, boards, ws>>

\* reorder_column! reads the column, and finds the card on the board or fails.
List(p) ==
  LET r == req[p]
      view == Seen(p)
  IN  /\ At(p, "list")
      /\ IF r.card \in OnBoard(view, r.board)
         THEN /\ req' = [req EXCEPT ![p].pc = "renumber",
                ![p].plan = InsertPlan(view, InColumn(view, r.board, r.column), r.card, r.index)]
              /\ UNCHANGED ws
         ELSE Finish(p) /\ ws' = [ws EXCEPT ![p] = Empty]
      /\ UNCHANGED <<cards, boards>>

\* compact_column! reads the column the card was loaded from.
Compact(p) ==
  LET r == req[p]
      view == Seen(p)
  IN  /\ At(p, "compact")
      /\ req' = [req EXCEPT ![p].pc = "renumberOld",
                            ![p].plan = CompactPlan(view, InColumn(view, r.board, r.ld.column))]
      /\ UNCHANGED <<cards, boards, ws>>

\* One update_column(:kanban_position), in the order of the new positions.
Renumber(p) ==
  LET plan == req[p].plan IN
  /\ req[p].pc \in {"renumber", "renumberOld"}
  /\ \E c \in Entries(plan) :
       /\ \A d \in Entries(plan) : plan[c] <= plan[d]
       /\ ~Held(p, c)
       /\ Write(p, c, [Seen(p)[c] EXCEPT !.position = plan[c]])
       /\ req' = [req EXCEPT ![p].plan[c] = None]
  /\ UNCHANGED <<cards, boards>>

\* A move to another column goes on with the old column.
Renumbered(p) ==
  LET r == req[p] IN
  /\ At(p, "renumber") /\ r.plan = Empty
  /\ r.ld.column # r.column
  /\ req' = [req EXCEPT ![p].pc = "compact"]
  /\ UNCHANGED <<cards, boards, ws>>

Commit(p) ==
  LET r == req[p] IN
  /\ r.pc \in {"renumber", "renumberOld"} /\ r.plan = Empty
  /\ At(p, "renumber") => r.ld.column = r.column
  /\ cards' = Seen(p)
  /\ ws' = [ws EXCEPT ![p] = Empty]
  /\ Finish(p)
  /\ UNCHANGED boards

\* maximum(:kanban_position).to_i + 1
ReadMax(p) ==
  LET r == req[p]
      next == NextPosition(cards, r.board, r.column)
  IN  /\ At(p, "max") /\ next \in 1..MaxPosition
      /\ req' = [req EXCEPT ![p].index = next,
                            ![p].pc = IF r.op = "add" THEN "put" ELSE "insert"]
      /\ UNCHANGED <<cards, boards, ws>>

Placed(r) == [board |-> r.board, column |-> r.column, position |-> r.index]

\* AddMemo: one UPDATE of the memo, in a transaction of its own.
Put(p) ==
  LET r == req[p]
      c == r.card
  IN  /\ At(p, "put") /\ ~Held(p, c)
      /\ cards' = IF cards[c] \in Absent \/ r.board \notin boards THEN cards
                  ELSE [cards EXCEPT ![c] = Differing(@, r.ld, Placed(r))]
      /\ Finish(p) /\ UNCHANGED <<boards, ws>>

\* CreateCard: INSERT.
Insert(p) ==
  LET r == req[p] IN
  /\ At(p, "insert")
  /\ cards' = IF r.board \in boards THEN [cards EXCEPT ![r.card] = Placed(r)] ELSE cards
  /\ Finish(p) /\ UNCHANGED <<boards, ws>>

\* A transaction that holds a row and waits for another may be chosen to break
\* a deadlock.
Rollback(p) ==
  /\ req[p].pc \in {"renumber", "renumberOld"} /\ ws[p] # Empty
  /\ \E c \in Entries(req[p].plan) : Held(p, c)
  /\ ws' = [ws EXCEPT ![p] = Empty]
  /\ Finish(p)
  /\ UNCHANGED <<cards, boards>>

\* A memo that is deleted leaves a gap in its column.
DestroyMemo(p, c) ==
  /\ CanStart(p, "destroyMemo") /\ cards[c] \notin Absent /\ ~Held(p, c)
  /\ cards' = [cards EXCEPT ![c] = Deleted]
  /\ UNCHANGED <<boards, ws, req>>

\* Board#destroy: the columns nullify the memos' column, the board nullifies
\* their board; clear_memo_placements, declared after them, finds no memo left.
\* It waits for the transactions that have written a memo or a column of it.
DestroyBoard(p, b) ==
  LET mine == OnBoard(cards, b) IN
  /\ CanStart(p, "destroyBoard") /\ b \in boards
  /\ \A q \in Procs, c \in Cards :
       ws[q][c] # None => /\ c \notin mine
                          /\ ws[q][c].board # b
                          /\ ws[q][c].column # Off => BoardOf[ws[q][c].column] # b
  /\ cards' = [c \in Cards |-> IF c \in mine
                               THEN [cards[c] EXCEPT !.board = Off, !.column = Off]
                               ELSE cards[c]]
  /\ boards' = boards \ {b}
  /\ UNCHANGED <<ws, req>>

-----------------------------------------------------------------------------
\* An index beyond the end means the end, so no other is needed.
Indices == 0..Cardinality(Cards) - 1

Begin(p) ==
  \E c \in Cards :
    \/ \E col \in Columns :
         \/ \E index \in Indices : BeginMove(p, c, col, index)
         \/ BeginAdd(p, c, col) \/ BeginCreate(p, c, col)
    \/ \E b \in Boards : BeginRemove(p, c, b)
    \/ DestroyMemo(p, c)

Step(p) ==
  \/ Place(p) \/ List(p) \/ Compact(p) \/ Renumber(p) \/ Renumbered(p) \/ Commit(p)
  \/ ReadMax(p) \/ Put(p) \/ Insert(p) \/ Rollback(p)

Next == \E p \in Procs : Begin(p) \/ Step(p) \/ \E b \in Boards : DestroyBoard(p, b)

Spec == Init /\ [][Next]_vars

-----------------------------------------------------------------------------
\* Properties

\* A row names a board and a column of that board, or neither
\* (kanban_placement_consistency), whichever copies the requests have validated.
Consistent(row) ==
  \/ row.board = Off /\ row.column = Off
  \/ row.board \in boards /\ row.column \in Columns /\ BoardOf[row.column] = row.board

PlacementConsistent == \A c \in Cards : cards[c] \notin Absent => Consistent(cards[c])

Dense(view, b, col) ==
  \A i \in 0..Cardinality(InColumn(view, b, col)) - 1 :
    \E c \in InColumn(view, b, col) : view[c].position = i

\* A move puts the card at the index it was asked for, or at the end if there are
\* fewer cards, and neither a move nor a removal leaves gaps or ties in the columns
\* it renumbers, whatever positions they had.
ColumnsRenumbered ==
  [][\A p \in Procs : Commit(p) =>
       LET r == req[p] IN
       /\ r.op = "move" =>
            /\ Dense(cards', r.board, r.column)
            /\ \/ cards'[r.card].position = r.index
               \/ /\ r.index >= Cardinality(InColumn(cards', r.board, r.column))
                  /\ \A c \in InColumn(cards', r.board, r.column) \ {r.card} :
                       cards'[c].position < cards'[r.card].position
       /\ Dense(cards', r.board, r.ld.column)]_vars

-----------------------------------------------------------------------------
\* What makes PlacementConsistent inductive

\* The steps a service takes.
StepsOf(op) ==
  CASE op = "move"   -> {"place", "list", "renumber", "compact", "renumberOld"}
    [] op = "remove" -> {"place", "compact", "renumberOld"}
    [] op = "add"    -> {"max", "put"}
    [] op = "create" -> {"max", "insert"}
    [] OTHER         -> {}

\* What a service has checked of the memo and the column it works with.
RequestAgrees(r) ==
  /\ r.pc \in StepsOf(r.op)
  /\ r.op \in {"move", "add", "create"} => r.column \in Columns /\ BoardOf[r.column] = r.board
  /\ r.op \in {"move", "remove"} => r.ld.board = r.board /\ r.ld.column \in Columns
  /\ r.op = "add" => r.ld.board = Off /\ r.ld.column = Off

RequestsAgree == \A p \in Procs : ~At(p, "idle") => RequestAgrees(req[p])

\* Until a move has found its card on the board again, the row it has written may
\* name a column of a board the memo has left; a transaction never commits there.
WrittenAgrees(p, c) ==
  /\ req[p].pc \in {"list", "renumber", "compact", "renumberOld"}
  /\ IF At(p, "list")
     THEN /\ c = req[p].card /\ req[p].board \in boards
          /\ ws[p][c].column = req[p].column
     ELSE Consistent(ws[p][c])

WritesAgree == \A p \in Procs, c \in Cards : ws[p][c] # None => WrittenAgrees(p, c)

PlacementInv == PlacementConsistent /\ RequestsAgree /\ WritesAgree
=============================================================================
