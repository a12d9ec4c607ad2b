------------------------- MODULE BoardKanbanProofs -------------------------
(* Proofs about BoardKanban: what every interleaving of requests keeps, for  *)
(* every number of memos, boards and requests, and, in the second half, that *)
(* one user's services keep the columns as lists.                            *)
EXTENDS BoardLists, FiniteSetTheorems, SequenceTheorems, TLAPS

-----------------------------------------------------------------------------
\* Helpers

\* Ranks count cards.
LEMMA RankType == ASSUME NEW view, NEW S \in SUBSET Cards, NEW c PROVE Rank(view, S, c) \in Nat
<1>1. IsFiniteSet({d \in S : Before(view, d, c)})
  BY CardsAssumption, FS_Subset
<1> QED BY <1>1, FS_CardinalityType DEF Rank

\* The plans of reorder_column! and compact_column! give positions.
LEMMA PlanType ==
  ASSUME NEW view, NEW S \in SUBSET Cards, NEW card \in Cards, NEW index \in Nat
  PROVE  /\ InsertPlan(view, S, card, index) \in [Cards -> Nat \cup {None}]
         /\ CompactPlan(view, S) \in [Cards -> Nat \cup {None}]
<1> DEFINE others == S \ {card}
<1>1. Cardinality(others) \in Nat
  BY CardsAssumption, FS_Subset, FS_CardinalityType
<1>2. \A c : Rank(view, others, c) \in Nat /\ Rank(view, S, c) \in Nat
  BY RankType
<1>3. \A k : Rank(view, others, k) + 1 \in Nat
  BY <1>2
<1> QED BY <1>1, <1>2, <1>3 DEF InsertPlan, CompactPlan

\* A request under way is a request.
LEMMA ActiveRequest ==
  ASSUME TypeOK, NEW p \in Procs, ~At(p, "idle") PROVE req[p] \in Requests
BY DEF TypeOK, At, Idle

\* No step of a service is called idle.
LEMMA IdleIsNoRequest == Idle.pc = "idle" /\ \A r \in Requests : r.pc # "idle"
BY DEF Idle, Requests, Pcs

\* What a transaction reads are rows.
LEMMA SeenType ==
  ASSUME TypeOK, NEW p \in Procs PROVE Seen(p) \in [Cards -> Rows \cup Absent]
BY DEF TypeOK, Seen

\* No entry is a write set and a plan.
LEMMA EmptyType == Empty \in [Cards -> Rows \cup {None}] /\ Empty \in [Cards -> Nat \cup {None}]
BY DEF Empty

\* An UPDATE keeps the write sets well-formed.
LEMMA WriteType ==
  ASSUME TypeOK, NEW p \in Procs, NEW c \in Cards, NEW row, Write(p, c, row),
         Seen(p)[c] \notin Absent => row \in Rows
  PROVE  ws' \in [Procs -> [Cards -> Rows \cup {None}]]
BY DEF TypeOK, Write

\* An UPDATE of the attributes that differ leaves a row.
LEMMA DifferingType ==
  ASSUME NEW row \in Rows, NEW ld, NEW new \in Rows PROVE Differing(row, ld, new) \in Rows
<1> DEFINE v(f) == IF new[f] # ld[f] THEN new[f] ELSE row[f]
<1>1. Differing(row, ld, new) = [board |-> v("board"), column |-> v("column"),
                                 position |-> v("position")]
  BY DEF Differing
<1>2. v("board") \in Boards \cup {Off} /\ v("column") \in Columns \cup {Off} /\ v("position") \in Nat
  BY DEF Rows
<1> HIDE DEF v
<1> QED BY <1>1, <1>2 DEF Rows

-----------------------------------------------------------------------------
\* Type correctness

\* The initial state has its type.
LEMMA InitType == Init => TypeOK
BY DEF Init, TypeOK, Empty, OffBoard, Rows, Absent

\* Ending a request keeps the requests typed.
LEMMA FinishType ==
  ASSUME TypeOK, NEW p \in Procs, Finish(p)
  PROVE  req' \in [Procs -> Requests \cup {Idle}]
BY DEF TypeOK, Finish

\* A service that starts with a typed row is a request.
LEMMA StartType ==
  ASSUME TypeOK, NEW p \in Procs, NEW op \in Ops, NEW pc \in Pcs, NEW c \in Cards, NEW ld \in Rows,
         NEW b \in Boards, NEW col \in Columns \cup {Off}, NEW index \in Nat,
         Start(p, op, pc, c, ld, b, col, index)
  PROVE  TypeOK'
<1> DEFINE r == [pc |-> pc, op |-> op, card |-> c, ld |-> ld, board |-> b,
                 column |-> col, index |-> index, plan |-> Empty]
<1>1. r \in Requests
  BY EmptyType DEF Requests
<1>2. req' = [req EXCEPT ![p] = r] /\ UNCHANGED <<cards, boards, ws>>
  BY DEF Start
<1> HIDE DEF r
<1> QED BY <1>1, <1>2 DEF TypeOK

\* Starting a request keeps the types.
LEMMA BeginType == ASSUME TypeOK, NEW p \in Procs, Begin(p) PROVE TypeOK'
<1> {"place", "max"} \subseteq Pcs /\ {"move", "remove", "add", "create"} \subseteq Ops
  BY DEF Pcs, Ops
<1> OffBoard \in Rows /\ 0 \in Nat
  BY DEF OffBoard, Rows
<1>1. \A c \in Cards : \A b : c \in OnBoard(cards, b) => cards[c] \in Rows
  BY DEF OnBoard, TypeOK
<1>2. \A col \in Columns : BoardOf[col] \in Boards
  BY BoardOfAssumption
<1>3. Indices \subseteq Nat
  BY CardsAssumption, FS_CardinalityType DEF Indices
<1>4. ASSUME NEW c \in Cards, NEW col \in Columns, NEW index \in Indices, BeginMove(p, c, col, index)
      PROVE  TypeOK'
  BY <1>1, <1>2, <1>3, <1>4, StartType DEF BeginMove
<1>5. ASSUME NEW c \in Cards, NEW b \in Boards, BeginRemove(p, c, b)
      PROVE  TypeOK'
  BY <1>1, <1>5, StartType DEF BeginRemove
<1>6. ASSUME NEW c \in Cards, NEW col \in Columns, BeginAdd(p, c, col) PROVE TypeOK'
  BY <1>1, <1>2, <1>6, StartType DEF BeginAdd
<1>7. ASSUME NEW c \in Cards, NEW col \in Columns, BeginCreate(p, c, col) PROVE TypeOK'
  BY <1>2, <1>7, StartType DEF BeginCreate
<1>8. ASSUME NEW c \in Cards, DestroyMemo(p, c) PROVE TypeOK'
  BY <1>8 DEF DestroyMemo, TypeOK, Absent
<1> QED BY <1>4, <1>5, <1>6, <1>7, <1>8 DEF Begin

\* The first UPDATE of a move or a removal keeps the types.
LEMMA PlaceType == ASSUME TypeOK, NEW p \in Procs, Place(p) PROVE TypeOK'
<1> DEFINE r == req[p]
           new == IF r.op = "move" THEN [r.ld EXCEPT !.board = r.board, !.column = r.column]
                  ELSE OffBoard
<1>1. ~At(p, "idle") /\ r \in Requests
  BY ActiveRequest DEF Place, At
<1>2. new \in Rows
  BY <1>1 DEF Requests, Rows, OffBoard
<1>3. ws' \in [Procs -> [Cards -> Rows \cup {None}]]
  <2>1. CASE Write(p, r.card, Differing(Seen(p)[r.card], r.ld, new))
    <3>1. r.card \in Cards
      BY <1>1 DEF Requests
    <3>2. Seen(p)[r.card] \notin Absent => Differing(Seen(p)[r.card], r.ld, new) \in Rows
      BY <1>2, <3>1, SeenType, DifferingType
    <3> HIDE DEF new
    <3> QED BY <2>1, <3>1, <3>2, WriteType
  <2>2. CASE UNCHANGED ws
    BY <2>2 DEF TypeOK
  <2> QED BY <2>1, <2>2 DEF Place
<1>4. req' \in [Procs -> Requests \cup {Idle}]
  <2>1. ASSUME NEW pc \in Pcs, req' = [req EXCEPT ![p].pc = pc]
        PROVE  req' \in [Procs -> Requests \cup {Idle}]
    BY <1>1, <2>1 DEF TypeOK, Requests
  <2>2. "list" \in Pcs /\ "compact" \in Pcs
    BY DEF Pcs
  <2> QED BY <2>1, <2>2, FinishType DEF Place
<1> QED BY <1>3, <1>4 DEF Place, TypeOK

\* Reading and renumbering a column, commit and rollback keep the types.
LEMMA RenumberingType ==
  ASSUME TypeOK, NEW p \in Procs,
         List(p) \/ Compact(p) \/ Renumber(p) \/ Renumbered(p) \/ Commit(p) \/ Rollback(p)
  PROVE  TypeOK'
<1> DEFINE r == req[p]
           view == Seen(p)
<1>1. ~At(p, "idle") /\ r \in Requests
  BY ActiveRequest DEF List, Compact, Renumber, Renumbered, Commit, Rollback, At
<1>2. view \in [Cards -> Rows \cup Absent]
  BY SeenType
<1>3. \A b, col : InColumn(view, b, col) \in SUBSET Cards
  BY DEF InColumn, OnBoard
<1>4. {"renumber", "compact", "renumberOld"} \subseteq Pcs
  BY DEF Pcs
<1>5. CASE List(p)
  <2>1. InsertPlan(view, InColumn(view, r.board, r.column), r.card, r.index)
          \in [Cards -> Nat \cup {None}]
    BY <1>1, <1>3, PlanType DEF Requests
  <2> DEFINE plan == InsertPlan(view, InColumn(view, r.board, r.column), r.card, r.index)
  <2>2. CASE req' = [req EXCEPT ![p].pc = "renumber", ![p].plan = plan] /\ UNCHANGED ws
    <3> HIDE DEF plan
    <3> QED BY <1>1, <1>4, <1>5, <2>1, <2>2 DEF plan, List, TypeOK, Requests
  <2>3. CASE Finish(p) /\ ws' = [ws EXCEPT ![p] = Empty]
    BY <1>5, <2>3, FinishType, EmptyType DEF List, TypeOK
  <2> QED BY <1>5, <2>2, <2>3 DEF List
<1>6. CASE Compact(p)
  <2> DEFINE plan == CompactPlan(view, InColumn(view, r.board, r.ld.column))
  <2>1. plan \in [Cards -> Nat \cup {None}]
    BY <1>1, <1>3, PlanType DEF Requests
  <2>2. /\ req' = [req EXCEPT ![p] = [r EXCEPT !.pc = "renumberOld", !.plan = plan]]
        /\ UNCHANGED <<cards, boards, ws>>
    BY <1>6 DEF Compact
  <2> HIDE DEF plan
  <2>3. [r EXCEPT !.pc = "renumberOld", !.plan = plan] \in Requests
    BY <1>1, <1>4, <2>1 DEF Requests
  <2> QED BY <2>2, <2>3 DEF TypeOK
<1>7. CASE Renumber(p)
  <2>1. PICK c \in Entries(r.plan) :
          /\ Write(p, c, [view[c] EXCEPT !.position = r.plan[c]])
          /\ req' = [req EXCEPT ![p].plan[c] = None]
    BY <1>7 DEF Renumber
  <2>2. c \in Cards /\ r.plan[c] \in Nat
    BY <1>1 DEF Entries, Requests
  <2>3. view[c] \notin Absent => [view[c] EXCEPT !.position = r.plan[c]] \in Rows
    BY <1>2, <2>2 DEF Rows
  <2>4. ws' \in [Procs -> [Cards -> Rows \cup {None}]]
    BY <2>1, <2>2, <2>3, WriteType
  <2>5. [r.plan EXCEPT ![c] = None] \in [Cards -> Nat \cup {None}]
    BY <1>1, <2>2 DEF Requests
  <2>6. req' = [req EXCEPT ![p] = [r EXCEPT !.plan = [r.plan EXCEPT ![c] = None]]]
    BY <2>1
  <2>7. [r EXCEPT !.plan = [r.plan EXCEPT ![c] = None]] \in Requests
    BY <1>1, <2>5 DEF Requests
  <2> QED BY <1>7, <2>4, <2>6, <2>7 DEF Renumber, TypeOK
<1>8. CASE Renumbered(p)
  BY <1>1, <1>4, <1>8 DEF Renumbered, TypeOK, Requests
<1>9. CASE Commit(p)
  BY <1>2, <1>9, FinishType, EmptyType DEF Commit, TypeOK
<1>10. CASE Rollback(p)
  BY <1>10, FinishType, EmptyType DEF Rollback, TypeOK
<1> QED BY <1>5, <1>6, <1>7, <1>8, <1>9, <1>10

\* Reading the maximum and placing a card keep the types.
LEMMA AddType ==
  ASSUME TypeOK, NEW p \in Procs, ReadMax(p) \/ Put(p) \/ Insert(p)
  PROVE  TypeOK'
<1> DEFINE r == req[p]
<1>1. ~At(p, "idle") /\ r \in Requests
  BY ActiveRequest DEF ReadMax, Put, Insert, At
<1>2. CASE ReadMax(p)
  <2> DEFINE next == NextPosition(cards, r.board, r.column)
  <2>1. next \in Nat
    BY <1>2, PositionAssumption DEF ReadMax
  <2>2. "put" \in Pcs /\ "insert" \in Pcs
    BY DEF Pcs
  <2> DEFINE pc == IF r.op = "add" THEN "put" ELSE "insert"
  <2>3. /\ req' = [req EXCEPT ![p] = [r EXCEPT !.index = next, !.pc = pc]]
        /\ UNCHANGED <<cards, boards, ws>>
    BY <1>2 DEF ReadMax
  <2> HIDE DEF next
  <2>4. [r EXCEPT !.index = next, !.pc = pc] \in Requests
    BY <1>1, <2>1, <2>2 DEF Requests
  <2> QED BY <2>3, <2>4 DEF TypeOK
<1>3. CASE Put(p) \/ Insert(p)
  <2>1. Placed(r) \in Rows /\ r.card \in Cards
    BY <1>1 DEF Placed, Requests, Rows
  <2>2. cards[r.card] \notin Absent => Differing(cards[r.card], r.ld, Placed(r)) \in Rows
    BY <2>1, DifferingType DEF TypeOK
  <2>3. cards' \in [Cards -> Rows \cup Absent]
    BY <1>3, <2>1, <2>2 DEF Put, Insert, TypeOK
  <2> QED BY <1>3, <2>3, FinishType DEF Put, Insert, TypeOK
<1> QED BY <1>2, <1>3

\* Deleting a board keeps the types.
LEMMA DestroyBoardType ==
  ASSUME TypeOK, NEW p \in Procs, NEW b \in Boards, DestroyBoard(p, b)
  PROVE  TypeOK'
<1>1. \A c \in OnBoard(cards, b) : [cards[c] EXCEPT !.board = Off, !.column = Off] \in Rows
  BY DEF OnBoard, TypeOK, Rows
<1> QED BY <1>1 DEF DestroyBoard, TypeOK

\* Every step keeps the types.
LEMMA NextType == TypeOK /\ [Next]_vars => TypeOK'
<1> SUFFICES ASSUME TypeOK, [Next]_vars PROVE TypeOK'
  OBVIOUS
<1>1. CASE UNCHANGED vars
  BY <1>1 DEF vars, TypeOK
<1>2. ASSUME NEW p \in Procs, Begin(p) \/ Step(p) \/ \E b \in Boards : DestroyBoard(p, b)
      PROVE  TypeOK'
  BY <1>2, BeginType, PlaceType, RenumberingType, AddType, DestroyBoardType DEF Step
<1> QED BY <1>1, <1>2 DEF Next

\* Every value of the state has its type, in every interleaving.
THEOREM TypeCorrect == Spec => []TypeOK
BY InitType, NextType, PTL DEF Spec

-----------------------------------------------------------------------------
\* Every committed placement is consistent

\* At first no memo is placed and no service runs.
LEMMA InitPlacement == Init => PlacementInv
<1> SUFFICES ASSUME Init PROVE PlacementInv
  OBVIOUS
<1>1. PlacementConsistent
  BY DEF Init, PlacementConsistent, Consistent, OffBoard, Absent
<1>2. RequestsAgree
  BY DEF Init, RequestsAgree, At, Idle
<1>3. WritesAgree
  BY DEF Init, WritesAgree, Empty
<1> QED BY <1>1, <1>2, <1>3 DEF PlacementInv

\* A step of one request leaves what the others have checked and written.
LEMMA Frame ==
  ASSUME TypeOK, PlacementInv, NEW p \in Procs, NEW r,
         req' = [req EXCEPT ![p] = r], r.pc = "idle" \/ RequestAgrees(r),
         UNCHANGED boards, \A q \in Procs \ {p} : ws'[q] = ws[q],
         \A c \in Cards : ws'[p][c] # None => WrittenAgrees(p, c)'
  PROVE  RequestsAgree' /\ WritesAgree'
<1>1. \A q \in Procs : req'[q] = IF q = p THEN r ELSE req[q]
  BY DEF TypeOK
<1>2. RequestsAgree'
  BY <1>1 DEF PlacementInv, RequestsAgree, At
<1>3. ASSUME NEW q \in Procs, NEW c \in Cards, ws'[q][c] # None, q # p
      PROVE  WrittenAgrees(q, c)'
  <2>1. req'[q] = req[q] /\ ws'[q] = ws[q]
    BY <1>1, <1>3
  <2>2. WrittenAgrees(q, c)
    BY <1>3, <2>1 DEF PlacementInv, WritesAgree
  <2> QED BY <2>1, <2>2 DEF WrittenAgrees, At, Consistent
<1>4. WritesAgree'
  BY <1>3 DEF WritesAgree
<1> QED BY <1>2, <1>4

\* What a transaction reads is consistent, but for the row a move has yet to find.
LEMMA SeenConsistent ==
  ASSUME TypeOK, PlacementInv, NEW p \in Procs, ~At(p, "list"), NEW c \in Cards,
         Seen(p)[c] \notin Absent
  PROVE  Consistent(Seen(p)[c])
BY DEF TypeOK, Seen, PlacementInv, PlacementConsistent, WritesAgree, WrittenAgrees

\* Outside a transaction nothing is written but not committed.
LEMMA NothingWritten ==
  ASSUME TypeOK, PlacementInv, NEW p \in Procs,
         req[p].pc \notin {"list", "renumber", "compact", "renumberOld"}
  PROVE  \A c \in Cards : ws[p][c] = None
BY DEF PlacementInv, WritesAgree, WrittenAgrees

\* Only the columns of boards are loaded.
LEMMA LoadedOnBoard ==
  ASSUME TypeOK, PlacementInv, NEW b \in Boards, NEW c \in OnBoard(cards, b)
  PROVE  cards[c] \in Rows /\ cards[c].board = b /\ cards[c].column \in Columns
BY OffAssumption DEF OnBoard, TypeOK, PlacementInv, PlacementConsistent, Consistent

\* A memo found on no board is in no column either.
LEMMA LoadedOffBoard ==
  ASSUME TypeOK, PlacementInv, NEW c \in OnBoard(cards, Off)
  PROVE  cards[c] \in Rows /\ cards[c].board = Off /\ cards[c].column = Off
BY OffAssumption DEF OnBoard, TypeOK, PlacementInv, PlacementConsistent, Consistent

\* A service that starts with what the controller has checked keeps the invariant.
LEMMA StartPlacement ==
  ASSUME TypeOK, PlacementInv, NEW p \in Procs, At(p, "idle"), NEW op, NEW pc, NEW c, NEW ld, NEW b,
         NEW col, NEW index, Start(p, op, pc, c, ld, b, col, index),
         RequestAgrees([pc |-> pc, op |-> op, card |-> c, ld |-> ld, board |-> b,
                        column |-> col, index |-> index, plan |-> Empty])
  PROVE  PlacementInv'
<1> DEFINE r == [pc |-> pc, op |-> op, card |-> c, ld |-> ld, board |-> b,
                 column |-> col, index |-> index, plan |-> Empty]
<1>1. req' = [req EXCEPT ![p] = r] /\ UNCHANGED <<cards, boards, ws>>
  BY DEF Start
<1>2. \A d \in Cards : ws'[p][d] = None
  BY <1>1, NothingWritten DEF At
<1>3. RequestAgrees(r)
  OBVIOUS
<1> HIDE DEF r
<1>4. RequestsAgree' /\ WritesAgree'
  BY <1>1, <1>2, <1>3, Frame
<1>5. PlacementConsistent'
  BY <1>1 DEF PlacementInv, PlacementConsistent, Consistent
<1> QED BY <1>4, <1>5 DEF PlacementInv

\* Every service starts with a card and a column that have been checked.
LEMMA BeginPlacement == ASSUME TypeOK, PlacementInv, NEW p \in Procs, Begin(p) PROVE PlacementInv'
<1>1. \A col \in Columns : BoardOf[col] \in Boards
  BY BoardOfAssumption
<1>2. ASSUME NEW c \in Cards, NEW col \in Columns, NEW index \in Indices, BeginMove(p, c, col, index)
      PROVE  PlacementInv'
  <2>1. cards[c].board = BoardOf[col] /\ cards[c].column \in Columns
    BY <1>1, <1>2, LoadedOnBoard DEF BeginMove
  <2>2. RequestAgrees([pc |-> "place", op |-> "move", card |-> c, ld |-> cards[c],
                       board |-> BoardOf[col], column |-> col, index |-> index, plan |-> Empty])
    BY <2>1 DEF RequestAgrees, StepsOf
  <2> QED BY <1>2, <2>2, StartPlacement DEF BeginMove, CanStart
<1>3. ASSUME NEW c \in Cards, NEW b \in Boards, BeginRemove(p, c, b) PROVE PlacementInv'
  <2>1. cards[c].board = b /\ cards[c].column \in Columns
    BY <1>3, LoadedOnBoard DEF BeginRemove
  <2>2. RequestAgrees([pc |-> "place", op |-> "remove", card |-> c, ld |-> cards[c],
                       board |-> b, column |-> Off, index |-> 0, plan |-> Empty])
    BY <2>1 DEF RequestAgrees, StepsOf
  <2> QED BY <1>3, <2>2, StartPlacement DEF BeginRemove, CanStart
<1>4. ASSUME NEW c \in Cards, NEW col \in Columns, BeginAdd(p, c, col) PROVE PlacementInv'
  <2>1. cards[c].board = Off /\ cards[c].column = Off
    BY <1>4, LoadedOffBoard DEF BeginAdd
  <2>2. RequestAgrees([pc |-> "max", op |-> "add", card |-> c, ld |-> cards[c],
                       board |-> BoardOf[col], column |-> col, index |-> 0, plan |-> Empty])
    BY <2>1 DEF RequestAgrees, StepsOf
  <2> QED BY <1>4, <2>2, StartPlacement DEF BeginAdd, CanStart
<1>5. ASSUME NEW c \in Cards, NEW col \in Columns, BeginCreate(p, c, col) PROVE PlacementInv'
  <2>2. RequestAgrees([pc |-> "max", op |-> "create", card |-> c, ld |-> OffBoard,
                       board |-> BoardOf[col], column |-> col, index |-> 0, plan |-> Empty])
    BY DEF RequestAgrees, StepsOf
  <2> QED BY <1>5, <2>2, StartPlacement DEF BeginCreate, CanStart
<1>6. ASSUME NEW c \in Cards, DestroyMemo(p, c) PROVE PlacementInv'
  <2>1. PlacementConsistent'
    BY <1>6 DEF DestroyMemo, PlacementInv, PlacementConsistent, Consistent, Absent, TypeOK
  <2>2. RequestsAgree' /\ WritesAgree'
    BY <1>6 DEF DestroyMemo, PlacementInv, RequestsAgree, WritesAgree, WrittenAgrees, Consistent, At
  <2> QED BY <2>1, <2>2 DEF PlacementInv
<1> QED BY <1>2, <1>3, <1>4, <1>5, <1>6 DEF Begin

\* The row a move or a removal writes first.
LEMMA PlacePlacement == ASSUME TypeOK, PlacementInv, NEW p \in Procs, Place(p) PROVE PlacementInv'
<1> DEFINE r == req[p]
           c == r.card
           new == IF r.op = "move" THEN [r.ld EXCEPT !.board = r.board, !.column = r.column]
                  ELSE OffBoard
           row == Differing(Seen(p)[c], r.ld, new)
<1>1. /\ At(p, "place") /\ r \in Requests /\ RequestAgrees(r)
      /\ r.op \in {"move", "remove"}
  BY ActiveRequest DEF Place, At, PlacementInv, RequestsAgree, RequestAgrees, StepsOf
<1>2. \A d \in Cards : ws[p][d] = None
  BY <1>1, NothingWritten DEF At
<1>3. UNCHANGED <<cards, boards>>
  BY DEF Place
<1>4. PlacementConsistent'
  BY <1>3 DEF PlacementInv, PlacementConsistent, Consistent
<1>5. c \in Cards /\ r.ld \in Rows /\ r.board \in Boards
  BY <1>1 DEF Requests
<1>6. \A q \in Procs \ {p} : ws'[q] = ws[q]
  BY DEF Place, Write, TypeOK
<1>7. CASE /\ Write(p, c, row) /\ r.op = "move" /\ new # r.ld /\ r.board \in boards
           /\ req' = [req EXCEPT ![p].pc = "list"]
  <2>1. r.ld.column # r.column
    BY <1>1, <1>5, <1>7 DEF Rows, RequestAgrees
  <2>2. new.column = r.column
    BY <1>5, <1>7 DEF Rows
  <2>3. row.column = r.column
    BY <2>1, <2>2 DEF Differing
  <2> HIDE DEF row
  <2>4. \A d \in Cards : ws'[p][d] # None => d = c /\ ws'[p][d] = row
    BY <1>2, <1>5, <1>7 DEF Write, TypeOK
  <2>5. req' = [req EXCEPT ![p] = [r EXCEPT !.pc = "list"]]
    BY <1>7
  <2>6. RequestAgrees([r EXCEPT !.pc = "list"])
    BY <1>1, <1>7 DEF RequestAgrees, StepsOf, Requests
  <2>7. req'[p] = [r EXCEPT !.pc = "list"]
    BY <2>5 DEF TypeOK
  <2>8. req'[p].pc = "list" /\ req'[p].card = c /\ req'[p].board = r.board /\ req'[p].column = r.column
    BY <1>1, <2>7 DEF Requests
  <2>9. \A d \in Cards : ws'[p][d] # None => WrittenAgrees(p, d)'
    BY <1>3, <1>7, <2>3, <2>4, <2>8 DEF WrittenAgrees, At
  <2> QED BY <1>3, <1>4, <1>6, <2>5, <2>6, <2>9, Frame DEF PlacementInv
<1>8. CASE /\ Write(p, c, row) /\ r.op = "remove"
           /\ req' = [req EXCEPT ![p].pc = "compact"]
  <2>1. row.board = Off /\ row.column = Off
    BY <1>1, <1>5, <1>8, OffAssumption DEF Differing, OffBoard, RequestAgrees
  <2> HIDE DEF row
  <2>2. \A d \in Cards : ws'[p][d] # None => d = c /\ ws'[p][d] = row
    BY <1>2, <1>5, <1>8 DEF Write, TypeOK
  <2>3. req' = [req EXCEPT ![p] = [r EXCEPT !.pc = "compact"]]
    BY <1>8
  <2>4. RequestAgrees([r EXCEPT !.pc = "compact"])
    BY <1>1, <1>8 DEF RequestAgrees, StepsOf, Requests
  <2>5. req'[p].pc = "compact"
    BY <1>1, <2>3 DEF TypeOK, Requests
  <2>6. \A d \in Cards : ws'[p][d] # None => WrittenAgrees(p, d)'
    BY <2>1, <2>2, <2>5 DEF WrittenAgrees, At, Consistent
  <2> QED BY <1>3, <1>4, <1>6, <2>3, <2>4, <2>6, Frame DEF PlacementInv
<1>9. CASE new = r.ld /\ UNCHANGED ws /\ req' = [req EXCEPT ![p].pc = "list"]
  <2>1. r.op = "move"
    BY <1>1, <1>5, <1>9, OffAssumption DEF OffBoard, RequestAgrees
  <2>2. req' = [req EXCEPT ![p] = [r EXCEPT !.pc = "list"]]
    BY <1>9
  <2>3. RequestAgrees([r EXCEPT !.pc = "list"])
    BY <1>1, <2>1 DEF RequestAgrees, StepsOf, Requests
  <2> QED BY <1>2, <1>3, <1>4, <1>9, <2>2, <2>3, Frame DEF PlacementInv
<1>10. CASE Finish(p) /\ UNCHANGED ws
  BY <1>2, <1>3, <1>4, <1>10, Frame DEF PlacementInv, Finish, Idle
<1> QED BY <1>1, <1>7, <1>8, <1>9, <1>10 DEF Place

\* A move finds its card on the board before it renumbers, or is rolled back.
LEMMA ListPlacement == ASSUME TypeOK, PlacementInv, NEW p \in Procs, List(p) PROVE PlacementInv'
<1> DEFINE r == req[p]
<1>1. At(p, "list") /\ r \in Requests /\ RequestAgrees(r) /\ UNCHANGED <<cards, boards>>
  BY ActiveRequest DEF List, At, PlacementInv, RequestsAgree
<1>2. PlacementConsistent'
  BY <1>1 DEF PlacementInv, PlacementConsistent, Consistent
<1>3. r.op = "move"
  BY <1>1 DEF RequestAgrees, StepsOf, At
<1>4. ASSUME NEW plan, UNCHANGED ws, r.card \in OnBoard(Seen(p), r.board),
             req' = [req EXCEPT ![p].pc = "renumber", ![p].plan = plan]
      PROVE  PlacementInv'
  <2>1. req' = [req EXCEPT ![p] = [r EXCEPT !.pc = "renumber", !.plan = plan]]
    BY <1>4
  <2>2. RequestAgrees([r EXCEPT !.pc = "renumber", !.plan = plan])
    BY <1>1, <1>3 DEF RequestAgrees, StepsOf, Requests
  <2>3. req'[p].pc = "renumber"
    BY <1>1, <2>1 DEF TypeOK, Requests
  <2>4. ASSUME NEW c \in Cards, ws[p][c] # None PROVE Consistent(ws[p][c])
    <3>1. c = r.card /\ r.board \in boards /\ ws[p][c].column = r.column
      BY <1>1, <2>4 DEF PlacementInv, WritesAgree, WrittenAgrees
    <3>2. ws[p][c].board = r.board
      BY <1>4, <2>4, <3>1 DEF OnBoard, Seen
    <3> QED BY <1>1, <1>3, <3>1, <3>2 DEF Consistent, RequestAgrees
  <2>5. \A c \in Cards : ws'[p][c] # None => WrittenAgrees(p, c)'
    BY <1>1, <1>4, <2>3, <2>4 DEF WrittenAgrees, At, Consistent
  <2> QED BY <1>1, <1>2, <1>4, <2>1, <2>2, <2>5, Frame DEF PlacementInv
<1>5. CASE Finish(p) /\ ws' = [ws EXCEPT ![p] = Empty]
  BY <1>1, <1>2, <1>5, Frame DEF PlacementInv, Finish, Idle, Empty, TypeOK
<1> QED BY <1>4, <1>5 DEF List

\* Renumbering changes positions only.
LEMMA RenumberingPlacement ==
  ASSUME TypeOK, PlacementInv, NEW p \in Procs, Compact(p) \/ Renumber(p) \/ Renumbered(p)
  PROVE  PlacementInv'
<1> DEFINE r == req[p]
<1>1. /\ r.pc \in {"compact", "renumber", "renumberOld"} /\ r \in Requests /\ RequestAgrees(r)
      /\ UNCHANGED <<cards, boards>>
  BY ActiveRequest DEF Compact, Renumber, Renumbered, At, PlacementInv, RequestsAgree
<1>2. PlacementConsistent'
  BY <1>1 DEF PlacementInv, PlacementConsistent, Consistent
<1>3. \A c \in Cards : ws[p][c] # None => Consistent(ws[p][c])
  BY <1>1 DEF PlacementInv, WritesAgree, WrittenAgrees, At
<1>4. ASSUME NEW pc \in {"compact", "renumber", "renumberOld"}, NEW plan,
             req' = [req EXCEPT ![p] = [r EXCEPT !.pc = pc, !.plan = plan]],
             pc \in StepsOf(r.op),
             \A q \in Procs \ {p} : ws'[q] = ws[q],
             \A c \in Cards : ws'[p][c] # None => Consistent(ws'[p][c])
      PROVE  PlacementInv'
  <2>1. RequestAgrees([r EXCEPT !.pc = pc, !.plan = plan])
    BY <1>1, <1>4 DEF RequestAgrees, Requests
  <2>2. req'[p].pc = pc
    BY <1>1, <1>4 DEF TypeOK, Requests
  <2>3. \A c \in Cards : ws'[p][c] # None => WrittenAgrees(p, c)'
    BY <1>1, <1>4, <2>2 DEF WrittenAgrees, At, Consistent
  <2> QED BY <1>1, <1>2, <1>4, <2>1, <2>3, Frame DEF PlacementInv
<1>5. r.pc \in StepsOf(r.op)
  BY <1>1 DEF RequestAgrees
<1>6. CASE Compact(p)
  <2>1. "renumberOld" \in StepsOf(r.op)
    BY <1>5, <1>6 DEF StepsOf, Compact, At
  <2> DEFINE plan == CompactPlan(Seen(p), InColumn(Seen(p), r.board, r.ld.column))
  <2>2. req' = [req EXCEPT ![p] = [r EXCEPT !.pc = "renumberOld", !.plan = plan]] /\ UNCHANGED ws
    BY <1>6 DEF Compact
  <2> HIDE DEF plan
  <2> QED BY <1>3, <1>4, <2>1, <2>2
<1>7. CASE Renumbered(p)
  <2>1. "compact" \in StepsOf(r.op)
    BY <1>5, <1>7 DEF StepsOf, Renumbered, At
  <2>2. req' = [req EXCEPT ![p] = [r EXCEPT !.pc = "compact", !.plan = r.plan]] /\ UNCHANGED ws
    BY <1>1, <1>7 DEF Renumbered, Requests
  <2> QED BY <1>3, <1>4, <2>1, <2>2
<1>8. CASE Renumber(p)
  <2>1. PICK c \in Entries(r.plan) :
          /\ Write(p, c, [Seen(p)[c] EXCEPT !.position = r.plan[c]])
          /\ req' = [req EXCEPT ![p].plan[c] = None]
    BY <1>8 DEF Renumber
  <2> DEFINE row == [Seen(p)[c] EXCEPT !.position = r.plan[c]]
             plan == [r.plan EXCEPT ![c] = None]
  <2>2. c \in Cards
    BY DEF Entries
  <2>3. Seen(p)[c] \notin Absent => Consistent(row)
    <3> HAVE Seen(p)[c] \notin Absent
    <3>1. Seen(p)[c] \in Rows
      BY <2>2, SeenType
    <3>2. Consistent(Seen(p)[c])
      BY <1>1, <2>2, SeenConsistent DEF At
    <3> QED BY <3>1, <3>2 DEF Consistent, Rows
  <2>4. req' = [req EXCEPT ![p] = [r EXCEPT !.pc = r.pc, !.plan = plan]]
    BY <1>1, <2>1 DEF Requests
  <2> HIDE DEF row, plan
  <2>5. Write(p, c, row)
    BY <2>1 DEF row
  <2>6. \A q \in Procs \ {p} : ws'[q] = ws[q]
    BY <2>5 DEF Write, TypeOK
  <2>7. \A d \in Cards : ws'[p][d] # None => Consistent(ws'[p][d])
    BY <1>3, <2>2, <2>3, <2>5 DEF Write, TypeOK
  <2> QED BY <1>1, <1>4, <1>5, <2>4, <2>6, <2>7
<1> QED BY <1>6, <1>7, <1>8

\* A request that ends leaves no writes behind; what it commits is consistent.
LEMMA EndPlacement ==
  ASSUME TypeOK, PlacementInv, NEW p \in Procs, Commit(p) \/ Rollback(p) \/ Put(p) \/ Insert(p)
  PROVE  PlacementInv'
<1> DEFINE r == req[p]
<1>1. /\ ~At(p, "idle") /\ ~At(p, "list") /\ r \in Requests /\ RequestAgrees(r)
      /\ Finish(p) /\ UNCHANGED boards
  BY ActiveRequest DEF Commit, Rollback, Put, Insert, At, PlacementInv, RequestsAgree
<1>2. \A q \in Procs \ {p} : ws'[q] = ws[q]
  BY DEF Commit, Rollback, Put, Insert, TypeOK
<1>3. \A c \in Cards : ws'[p][c] = None
  BY NothingWritten DEF Commit, Rollback, Put, Insert, TypeOK, Empty, At
<1>4. RequestsAgree' /\ WritesAgree'
  BY <1>1, <1>2, <1>3, Frame DEF Finish, Idle
<1>5. ASSUME \A c \in Cards : cards'[c] \notin Absent => cards'[c] = cards[c] \/ Consistent(cards'[c])
      PROVE  PlacementConsistent'
  BY <1>1, <1>5 DEF PlacementInv, PlacementConsistent, Consistent
<1>6. CASE Commit(p)
  <2>1. \A c \in Cards : cards'[c] \notin Absent => Consistent(cards'[c])
    BY <1>1, <1>6, SeenConsistent DEF Commit
  <2> QED BY <1>4, <1>5, <2>1 DEF PlacementInv
<1>7. CASE Rollback(p)
  BY <1>4, <1>5, <1>7 DEF Rollback, PlacementInv
<1>8. CASE Put(p)
  <2>1. r.op = "add" /\ r.card \in Cards
    BY <1>1, <1>8 DEF Put, At, RequestAgrees, StepsOf, Requests
  <2>2. r.board \in boards => Consistent(Differing(cards[r.card], r.ld, Placed(r)))
    BY <1>1, <2>1, OffAssumption DEF Differing, Placed, RequestAgrees, Consistent, Requests
  <2>3. \A c \in Cards : cards'[c] = cards[c] \/ Consistent(cards'[c])
    BY <1>8, <2>1, <2>2 DEF Put, TypeOK
  <2> QED BY <1>4, <1>5, <2>3 DEF PlacementInv
<1>9. CASE Insert(p)
  <2>1. r.op = "create" /\ r.card \in Cards
    BY <1>1, <1>9 DEF Insert, At, RequestAgrees, StepsOf, Requests
  <2>2. r.board \in boards => Consistent(Placed(r))
    BY <1>1, <2>1 DEF Placed, RequestAgrees, Consistent
  <2>3. \A c \in Cards : cards'[c] = cards[c] \/ Consistent(cards'[c])
    BY <1>9, <2>1, <2>2 DEF Insert, TypeOK
  <2> QED BY <1>4, <1>5, <2>3 DEF PlacementInv
<1> QED BY <1>6, <1>7, <1>8, <1>9

\* Reading the maximum leaves every row and what the service has checked.
LEMMA ReadMaxPlacement == ASSUME TypeOK, PlacementInv, NEW p \in Procs, ReadMax(p) PROVE PlacementInv'
<1> DEFINE r == req[p]
           next == NextPosition(cards, r.board, r.column)
           pc == IF r.op = "add" THEN "put" ELSE "insert"
<1>1. At(p, "max") /\ r \in Requests /\ RequestAgrees(r) /\ UNCHANGED <<cards, boards, ws>>
  BY ActiveRequest DEF ReadMax, At, PlacementInv, RequestsAgree
<1>2. req' = [req EXCEPT ![p] = [r EXCEPT !.index = next, !.pc = pc]]
  BY DEF ReadMax
<1> HIDE DEF next
<1>3. RequestAgrees([r EXCEPT !.index = next, !.pc = pc])
  BY <1>1 DEF RequestAgrees, StepsOf, Requests, At
<1>4. PlacementConsistent'
  BY <1>1 DEF PlacementInv, PlacementConsistent, Consistent
<1>5. \A c \in Cards : ws'[p][c] = None
  BY <1>1, NothingWritten DEF At
<1> HIDE DEF pc
<1> QED BY <1>1, <1>2, <1>3, <1>4, <1>5, Frame DEF PlacementInv

\* A board is deleted with the placements on it, those not yet committed included.
LEMMA DestroyBoardPlacement ==
  ASSUME TypeOK, PlacementInv, NEW p \in Procs, NEW b \in Boards, DestroyBoard(p, b)
  PROVE  PlacementInv'
<1>1. boards' = boards \ {b} /\ UNCHANGED <<ws, req>>
  BY DEF DestroyBoard
<1>2. ASSUME NEW c \in Cards, cards'[c] \notin Absent
      PROVE  \/ cards'[c].board = Off /\ cards'[c].column = Off
             \/ /\ cards'[c].board \in boards' /\ cards'[c].column \in Columns
                /\ BoardOf[cards'[c].column] = cards'[c].board
  <2>1. CASE c \in OnBoard(cards, b)
    BY <2>1 DEF DestroyBoard, OnBoard, TypeOK, Consistent, Rows
  <2>2. CASE c \notin OnBoard(cards, b)
    BY <1>1, <1>2, <2>2 DEF DestroyBoard, OnBoard, PlacementInv, PlacementConsistent, Consistent
  <2> QED BY <2>1, <2>2
<1>3. RequestsAgree'
  BY <1>1 DEF PlacementInv, RequestsAgree, At
<1>4. ASSUME NEW q \in Procs, NEW c \in Cards, ws[q][c] # None PROVE WrittenAgrees(q, c)'
  <2>1. WrittenAgrees(q, c)
    BY <1>4 DEF PlacementInv, WritesAgree
  <2>2. ws[q][c].board # b /\ (ws[q][c].column # Off => BoardOf[ws[q][c].column] # b)
    BY <1>4 DEF DestroyBoard
  <2>3. CASE At(q, "list")
    <3>1. RequestAgrees(req[q]) /\ req[q].op = "move"
      BY <2>3 DEF PlacementInv, RequestsAgree, RequestAgrees, StepsOf, At
    <3>2. req[q].board # b
      BY <2>1, <2>2, <2>3, <3>1, OffAssumption DEF WrittenAgrees, RequestAgrees
    <3> QED BY <1>1, <2>1, <2>3, <3>2 DEF WrittenAgrees, At
  <2>4. CASE ~At(q, "list")
    BY <1>1, <2>1, <2>2, <2>4 DEF WrittenAgrees, At, Consistent
  <2> QED BY <2>3, <2>4
<1>5. WritesAgree'
  BY <1>1, <1>4 DEF WritesAgree
<1>6. PlacementConsistent'
  BY <1>2 DEF PlacementConsistent, Consistent
<1> QED BY <1>3, <1>5, <1>6 DEF PlacementInv

\* Every step keeps the invariant.
LEMMA NextPlacement == TypeOK /\ PlacementInv /\ [Next]_vars => PlacementInv'
<1> SUFFICES ASSUME TypeOK, PlacementInv, [Next]_vars PROVE PlacementInv'
  OBVIOUS
<1>1. CASE UNCHANGED vars
  BY <1>1 DEF vars, PlacementInv, PlacementConsistent, RequestsAgree, WritesAgree,
              WrittenAgrees, Consistent, At
<1>2. ASSUME NEW p \in Procs, Begin(p) \/ Step(p) \/ \E b \in Boards : DestroyBoard(p, b)
      PROVE  PlacementInv'
  BY <1>2, BeginPlacement, PlacePlacement, ListPlacement, RenumberingPlacement, EndPlacement,
     ReadMaxPlacement, DestroyBoardPlacement DEF Step
<1> QED BY <1>1, <1>2 DEF Next

\* Whatever copies the requests have loaded and validated, and however their
\* statements interleave, a committed row names a board and a column of that board
\* or neither: the check kanban_placement_consistency makes on each copy holds of
\* the database.
THEOREM PlacementStaysConsistent == Spec => []PlacementConsistent
<1>1. Spec => [](TypeOK /\ PlacementInv)
  BY InitType, InitPlacement, NextType, NextPlacement, PTL DEF Spec
<1>2. PlacementInv => PlacementConsistent
  BY DEF PlacementInv
<1> QED BY <1>1, <1>2, PTL

-----------------------------------------------------------------------------
\* One user: ranks

\* S are cards with positions.
Positioned(v, S) == S \subseteq Cards /\ \A c \in S : v[c].position \in Nat

LEMMA PositionedFinite ==
  ASSUME NEW v, NEW S, Positioned(v, S)
  PROVE  IsFiniteSet(S) /\ Cardinality(S) \in Nat /\ \A c : Rank(v, S, c) \in Nat
BY CardsAssumption, FS_Subset, FS_CardinalityType, RankType DEF Positioned

\* The order of a column is a strict total order.
LEMMA BeforeOrders ==
  ASSUME NEW v, NEW S, Positioned(v, S), NEW c \in S, NEW d \in S
  PROVE  /\ ~Before(v, c, c)
         /\ c # d => Before(v, c, d) \/ Before(v, d, c)
         /\ Before(v, c, d) => ~Before(v, d, c)
         /\ \A e \in S : Before(v, c, d) /\ Before(v, d, e) => Before(v, c, e)
<1>1. S \subseteq Nat /\ \A e \in S : v[e].position \in Nat
  BY CardsAssumption DEF Positioned
<1> QED BY <1>1 DEF Before

\* Ranks follow the order, and are numbers below the number of cards.
LEMMA RankFollows ==
  ASSUME NEW v, NEW S, Positioned(v, S), NEW c \in S
  PROVE  /\ Rank(v, S, c) < Cardinality(S)
         /\ \A d \in S : Before(v, c, d) => Rank(v, S, c) < Rank(v, S, d)
<1> DEFINE Below(e) == {x \in S : Before(v, x, e)}
<1>1. IsFiniteSet(S) /\ \A e : IsFiniteSet(Below(e)) /\ Cardinality(Below(e)) \in Nat
  BY PositionedFinite, FS_Subset, FS_CardinalityType
<1>2. Below(c) \subseteq S \ {c}
  BY BeforeOrders
<1>3. Rank(v, S, c) < Cardinality(S)
  <2>1. /\ IsFiniteSet(S \ {c}) /\ Cardinality(S \ {c}) = Cardinality(S) - 1
        /\ Cardinality(S) \in Nat
    BY <1>1, FS_RemoveElement, FS_CardinalityType
  <2>2. Cardinality(Below(c)) <= Cardinality(S \ {c})
    BY <1>2, <2>1, FS_Subset
  <2> QED BY <1>1, <2>1, <2>2 DEF Rank
<1>4. ASSUME NEW d \in S, Before(v, c, d) PROVE Rank(v, S, c) < Rank(v, S, d)
  <2>1. Below(c) \subseteq Below(d) /\ c \in Below(d) /\ c \notin Below(c)
    <3>1. \A e \in S : Before(v, e, c) => Before(v, e, d)
      BY <1>4, BeforeOrders
    <3> QED BY <1>2, <1>4, <3>1
  <2>2. Cardinality(Below(c)) <= Cardinality(Below(d))
    BY <1>1, <2>1, FS_Subset
  <2>3. Cardinality(Below(c)) # Cardinality(Below(d))
    BY <1>1, <2>1, FS_Subset
  <2> QED BY <1>1, <2>2, <2>3 DEF Rank
<1> QED BY <1>3, <1>4

\* Two cards have different ranks, and every number below their count is one.
LEMMA RankOnto ==
  ASSUME NEW v, NEW S, Positioned(v, S)
  PROVE  /\ \A c, d \in S : Rank(v, S, c) = Rank(v, S, d) => c = d
         /\ \A i \in 0..Cardinality(S) - 1 : \E c \in S : Rank(v, S, c) = i
<1> DEFINE f == [c \in S |-> Rank(v, S, c)]
           T == 0..Cardinality(S) - 1
<1>1. IsFiniteSet(S) /\ Cardinality(S) \in Nat /\ \A c \in S : Rank(v, S, c) \in Nat
  BY PositionedFinite
<1>2. \A c, d \in S : Rank(v, S, c) = Rank(v, S, d) => c = d
  <2> SUFFICES ASSUME NEW c \in S, NEW d \in S, c # d PROVE Rank(v, S, c) # Rank(v, S, d)
    OBVIOUS
  <2>1. Before(v, c, d) \/ Before(v, d, c)
    BY BeforeOrders
  <2>2. Rank(v, S, c) < Rank(v, S, d) \/ Rank(v, S, d) < Rank(v, S, c)
    BY <2>1, RankFollows
  <2> QED BY <1>1, <2>2
<1>3. IsFiniteSet(T) /\ Cardinality(T) = Cardinality(S)
  BY <1>1, FS_Interval
<1>4. f \in Injection(S, T)
  <2>1. \A c \in S : Rank(v, S, c) \in T
    BY <1>1, RankFollows
  <2> QED BY <1>2, <2>1 DEF Injection, IsInjective
<1>5. f \in Surjection(S, T)
  BY <1>3, <1>4, FS_Injection
<1> QED BY <1>2, <1>5 DEF Surjection

\* Ranks depend on the order alone.
LEMMA SameRanks ==
  ASSUME NEW v, NEW w, NEW S, \A d, e \in S : Before(v, d, e) <=> Before(w, d, e)
  PROVE  \A c \in S : Rank(v, S, c) = Rank(w, S, c)
<1> SUFFICES ASSUME NEW c \in S PROVE Rank(v, S, c) = Rank(w, S, c)
  OBVIOUS
<1>1. {d \in S : Before(v, d, c)} = {d \in S : Before(w, d, c)}
  OBVIOUS
<1> QED BY <1>1 DEF Rank

\* Positions without gaps and ties.
Slots(w, S) ==
  /\ \A c \in S : w[c].position \in 0..Cardinality(S) - 1
  /\ \A c, d \in S : w[c].position = w[d].position => c = d

\* Positions without gaps and ties are ranks.
LEMMA SlotsAreRanks ==
  ASSUME NEW w, NEW S, S \subseteq Cards, Slots(w, S)
  PROVE  /\ Positioned(w, S)
         /\ \A c \in S : Rank(w, S, c) = w[c].position
         /\ \A i \in 0..Cardinality(S) - 1 : \E c \in S : w[c].position = i
<1>1. Positioned(w, S)
  BY DEF Positioned, Slots
<1>2. IsFiniteSet(S) /\ Cardinality(S) \in Nat
  BY <1>1, PositionedFinite
<1>3. ASSUME NEW i \in 0..Cardinality(S) - 1 PROVE \E c \in S : w[c].position = i
  <2> DEFINE f == [c \in S |-> w[c].position]
             T == 0..Cardinality(S) - 1
  <2>1. IsFiniteSet(T) /\ Cardinality(T) = Cardinality(S)
    BY <1>2, FS_Interval
  <2>2. f \in Injection(S, T)
    BY DEF Injection, IsInjective, Slots
  <2>3. f \in Surjection(S, T)
    BY <2>1, <2>2, FS_Injection
  <2> QED BY <2>3 DEF Surjection
<1>4. ASSUME NEW c \in S PROVE Rank(w, S, c) = w[c].position
  <2> DEFINE Below == {d \in S : Before(w, d, c)}
             T == 0..w[c].position - 1
             f == [d \in Below |-> w[d].position]
  <2>1. w[c].position \in Nat /\ w[c].position < Cardinality(S)
    BY <1>2 DEF Slots
  <2>2. \A d \in S : Before(w, d, c) <=> w[d].position < w[c].position
    <3> SUFFICES ASSUME NEW d \in S
                 PROVE  Before(w, d, c) <=> w[d].position < w[c].position
      OBVIOUS
    <3>1. ~Before(w, c, c) /\ (w[d].position = w[c].position => d = c)
      BY <1>1, BeforeOrders DEF Slots
    <3> QED BY <3>1 DEF Before
  <2>3. \A d \in Below : w[d].position \in T
    BY <2>1, <2>2 DEF Slots
  <2>4. \A i \in T : \E d \in Below : w[d].position = i
    <3> SUFFICES ASSUME NEW i \in T PROVE \E d \in Below : w[d].position = i
      OBVIOUS
    <3>1. i \in 0..Cardinality(S) - 1 /\ i < w[c].position
      BY <1>2, <2>1
    <3>2. PICK d \in S : w[d].position = i
      BY <1>3, <3>1
    <3> QED BY <2>2, <3>1, <3>2
  <2>5. f \in Bijection(Below, T)
    <3>1. \A d, e \in Below : f[d] = f[e] => d = e
      BY DEF Slots
    <3> QED BY <2>3, <2>4, <3>1 DEF Bijection, Injection, Surjection, IsInjective
  <2>6. IsFiniteSet(Below) /\ ExistsBijection(Below, T)
    BY <1>2, <2>5, FS_Subset DEF ExistsBijection
  <2>7. Cardinality(Below) = Cardinality(T)
    BY <2>6, FS_Bijection
  <2>8. Cardinality(T) = w[c].position
    BY <2>1, FS_Interval
  <2> QED BY <2>7, <2>8 DEF Rank
<1> QED BY <1>1, <1>3, <1>4

\* Taking a card out moves those behind it up.
LEMMA RankWithout ==
  ASSUME NEW v, NEW S, Positioned(v, S), NEW c \in S, NEW d \in S \ {c}
  PROVE  Rank(v, S \ {c}, d) = IF Rank(v, S, d) < Rank(v, S, c) THEN Rank(v, S, d)
                                ELSE Rank(v, S, d) - 1
<1> DEFINE Below == {e \in S : Before(v, e, d)}
           Fewer == {e \in S \ {c} : Before(v, e, d)}
<1>1. IsFiniteSet(Below) /\ Rank(v, S, c) \in Nat /\ Rank(v, S, d) \in Nat
  BY PositionedFinite, FS_Subset
<1>2. Cardinality(Below) = Rank(v, S, d) /\ Cardinality(Fewer) = Rank(v, S \ {c}, d)
  BY DEF Rank
<1>3. CASE Before(v, c, d)
  <2>1. Fewer = Below \ {c} /\ c \in Below
    BY <1>3
  <2>2. Rank(v, S, c) < Rank(v, S, d)
    BY <1>3, RankFollows
  <2>3. Cardinality(Fewer) = Cardinality(Below) - 1
    BY <1>1, <2>1, FS_RemoveElement
  <2> QED BY <1>1, <1>2, <2>2, <2>3
<1>4. CASE ~Before(v, c, d)
  <2>1. Fewer = Below
    BY <1>4
  <2>2. Before(v, d, c)
    BY <1>4, BeforeOrders
  <2>3. Rank(v, S, d) < Rank(v, S, c)
    BY <2>2, RankFollows
  <2> QED BY <1>1, <1>2, <2>1, <2>3
<1> QED BY <1>3, <1>4

-----------------------------------------------------------------------------
\* Ordered cards

\* The i-th card is the one of rank i - 1.
LEMMA OrderedAt ==
  ASSUME NEW v, NEW S, Positioned(v, S)
  PROVE  /\ Ordered(v, S) \in Seq(S) /\ Len(Ordered(v, S)) = Cardinality(S)
         /\ \A i \in 1..Cardinality(S) : Ordered(v, S)[i] \in S /\ Rank(v, S, Ordered(v, S)[i]) = i - 1
         /\ \A c \in S : /\ Rank(v, S, c) + 1 \in 1..Cardinality(S)
                         /\ Ordered(v, S)[Rank(v, S, c) + 1] = c
<1> DEFINE n == Cardinality(S)
<1>1. n \in Nat /\ \A c : Rank(v, S, c) \in Nat
  BY PositionedFinite
<1>2. ASSUME NEW i \in 1..n
      PROVE  Ordered(v, S)[i] \in S /\ Rank(v, S, Ordered(v, S)[i]) = i - 1
  <2>1. i - 1 \in 0..n - 1
    BY <1>1
  <2>2. \E c \in S : Rank(v, S, c) = i - 1
    BY <2>1, RankOnto
  <2>3. Ordered(v, S)[i] = CHOOSE c \in S : Rank(v, S, c) = i - 1
    BY DEF Ordered
  <2> QED BY <2>2, <2>3
<1>3. ASSUME NEW c \in S
      PROVE  Rank(v, S, c) + 1 \in 1..n /\ Ordered(v, S)[Rank(v, S, c) + 1] = c
  <2>1. Rank(v, S, c) + 1 \in 1..n
    BY <1>1, RankFollows
  <2>2. /\ Ordered(v, S)[Rank(v, S, c) + 1] \in S
        /\ Rank(v, S, Ordered(v, S)[Rank(v, S, c) + 1]) = Rank(v, S, c)
    BY <1>1, <1>2, <2>1
  <2> QED BY <2>1, <2>2, RankOnto
<1>4. Ordered(v, S) = [i \in 1..n |-> Ordered(v, S)[i]]
  BY DEF Ordered
<1>5. Ordered(v, S) \in [1..n -> S]
  BY <1>2, <1>4
<1>6. Ordered(v, S) \in Seq(S) /\ Len(Ordered(v, S)) = n
  BY <1>1, <1>5
<1> QED BY <1>2, <1>3, <1>6

\* A sequence of all the cards that follows the ranks is the ordered one.
LEMMA OrderedIs ==
  ASSUME NEW v, NEW S, Positioned(v, S), NEW s \in Seq(S), Len(s) = Cardinality(S),
         \A i \in 1..Len(s) : Rank(v, S, s[i]) = i - 1
  PROVE  Ordered(v, S) = s
<1>1. /\ Ordered(v, S) \in Seq(S) /\ Len(Ordered(v, S)) = Len(s)
      /\ \A i \in 1..Len(s) : Ordered(v, S)[i] \in S /\ Rank(v, S, Ordered(v, S)[i]) = i - 1
  BY OrderedAt
<1>2. \A i \in 1..Len(s) : s[i] \in S
  OBVIOUS
<1>3. \A i \in 1..Len(s) : Ordered(v, S)[i] = s[i]
  <2> SUFFICES ASSUME NEW i \in 1..Len(s) PROVE Ordered(v, S)[i] = s[i]
    OBVIOUS
  <2>1. Rank(v, S, Ordered(v, S)[i]) = Rank(v, S, s[i])
    BY <1>1
  <2> QED BY <1>1, <1>2, <2>1, RankOnto
<1> HIDE DEF Ordered
<1> QED BY <1>1, <1>3, SeqEqual

\* The order alone decides.
LEMMA SameOrder ==
  ASSUME NEW v, NEW w, NEW S, Positioned(v, S), Positioned(w, S),
         \A d, e \in S : Before(v, d, e) <=> Before(w, d, e)
  PROVE  Ordered(v, S) = Ordered(w, S)
<1>1. \A c \in S : Rank(v, S, c) = Rank(w, S, c)
  BY SameRanks
<1>2. /\ Ordered(w, S) \in Seq(S) /\ Len(Ordered(w, S)) = Cardinality(S)
      /\ \A i \in 1..Cardinality(S) : Ordered(w, S)[i] \in S /\ Rank(w, S, Ordered(w, S)[i]) = i - 1
  BY OrderedAt
<1>3. \A i \in 1..Len(Ordered(w, S)) : Rank(v, S, Ordered(w, S)[i]) = i - 1
  BY <1>1, <1>2
<1> QED BY <1>2, <1>3, OrderedIs

\* A sequence without its k-th element, and with c behind its first i elements
\* (RemoveAt and InsertAt of CardLists).
Shorter(s, k) == SubSeq(s, 1, k - 1) \o SubSeq(s, k + 1, Len(s))
Longer(s, i, c) == SubSeq(s, 1, i) \o <<c>> \o SubSeq(s, i + 1, Len(s))

LEMMA Shortened ==
  ASSUME NEW S, NEW s \in Seq(S), NEW k \in 1..Len(s)
  PROVE  /\ Shorter(s, k) \in Seq(S) /\ Len(Shorter(s, k)) = Len(s) - 1
         /\ \A j \in 1..Len(s) - 1 : Shorter(s, k)[j] = IF j < k THEN s[j] ELSE s[j + 1]
<1> DEFINE a == SubSeq(s, 1, k - 1)
           b == SubSeq(s, k + 1, Len(s))
<1>1. Len(s) \in Nat /\ \A i \in 1..Len(s) : s[i] \in S
  OBVIOUS
<1>2. a \in Seq(S) /\ Len(a) = k - 1 /\ \A j \in 1..k - 1 : a[j] = s[j]
  <2>1. \A i \in 1..k - 1 : s[i] \in S
    BY <1>1
  <2>2. /\ a \in Seq(S) /\ Len(a) = (IF 1 <= k - 1 THEN k - 1 - 1 + 1 ELSE 0)
        /\ \A j \in 1..k - 1 - 1 + 1 : a[j] = s[1 + j - 1]
    BY <1>1, <2>1, SubSeqProperties
  <2> HIDE DEF a
  <2> QED BY <1>1, <2>2
<1>3. b \in Seq(S) /\ Len(b) = Len(s) - k /\ \A j \in 1..Len(s) - k : b[j] = s[k + j]
  <2>1. \A i \in k + 1..Len(s) : s[i] \in S
    BY <1>1
  <2>2. /\ b \in Seq(S) /\ Len(b) = (IF k + 1 <= Len(s) THEN Len(s) - (k + 1) + 1 ELSE 0)
        /\ \A j \in 1..Len(s) - (k + 1) + 1 : b[j] = s[k + 1 + j - 1]
    BY <1>1, <2>1, SubSeqProperties
  <2> HIDE DEF b
  <2> QED BY <1>1, <2>2
<1> HIDE DEF a, b
<1>4. /\ a \o b \in Seq(S) /\ Len(a \o b) = Len(a) + Len(b)
      /\ \A j \in 1..Len(a) + Len(b) : (a \o b)[j] = IF j <= Len(a) THEN a[j] ELSE b[j - Len(a)]
  BY <1>2, <1>3, ConcatProperties
<1>5. \A j \in 1..Len(s) - 1 : (a \o b)[j] = IF j < k THEN s[j] ELSE s[j + 1]
  <2> SUFFICES ASSUME NEW j \in 1..Len(s) - 1
               PROVE  (a \o b)[j] = IF j < k THEN s[j] ELSE s[j + 1]
    OBVIOUS
  <2>1. (a \o b)[j] = IF j <= k - 1 THEN a[j] ELSE b[j - (k - 1)]
    BY <1>1, <1>2, <1>3, <1>4
  <2>2. CASE j < k
    BY <1>2, <2>1, <2>2
  <2>3. CASE j >= k
    <3>1. j - (k - 1) \in 1..Len(s) - k
      BY <1>1, <2>3
    <3>2. b[j - (k - 1)] = s[k + (j - (k - 1))]
      BY <1>3, <3>1
    <3> QED BY <1>1, <2>1, <2>3, <3>2
  <2>4. j < k \/ j >= k
    BY <1>1
  <2> QED BY <2>2, <2>3, <2>4
<1>6. a \o b \in Seq(S) /\ Len(a \o b) = Len(s) - 1
  BY <1>1, <1>2, <1>3, <1>4
<1> QED BY <1>5, <1>6 DEF a, b, Shorter

LEMMA Lengthened ==
  ASSUME NEW S, NEW s \in Seq(S), NEW c \in S, NEW i \in 0..Len(s)
  PROVE  /\ Longer(s, i, c) \in Seq(S) /\ Len(Longer(s, i, c)) = Len(s) + 1
         /\ \A j \in 1..Len(s) + 1 :
              Longer(s, i, c)[j] = IF j <= i THEN s[j] ELSE IF j = i + 1 THEN c ELSE s[j - 1]
<1> DEFINE a == SubSeq(s, 1, i)
           b == SubSeq(s, i + 1, Len(s))
           ac == a \o <<c>>
<1>1. Len(s) \in Nat /\ \A j \in 1..Len(s) : s[j] \in S
  OBVIOUS
<1>2. a \in Seq(S) /\ Len(a) = i /\ \A j \in 1..i : a[j] = s[j]
  <2>1. \A j \in 1..i : s[j] \in S
    BY <1>1
  <2>2. /\ a \in Seq(S) /\ Len(a) = (IF 1 <= i THEN i - 1 + 1 ELSE 0)
        /\ \A j \in 1..i - 1 + 1 : a[j] = s[1 + j - 1]
    BY <1>1, <2>1, SubSeqProperties
  <2> HIDE DEF a
  <2> QED BY <1>1, <2>2
<1>3. b \in Seq(S) /\ Len(b) = Len(s) - i /\ \A j \in 1..Len(s) - i : b[j] = s[i + j]
  <2>1. \A j \in i + 1..Len(s) : s[j] \in S
    BY <1>1
  <2>2. /\ b \in Seq(S) /\ Len(b) = (IF i + 1 <= Len(s) THEN Len(s) - (i + 1) + 1 ELSE 0)
        /\ \A j \in 1..Len(s) - (i + 1) + 1 : b[j] = s[i + 1 + j - 1]
    BY <1>1, <2>1, SubSeqProperties
  <2> HIDE DEF b
  <2> QED BY <1>1, <2>2
<1> HIDE DEF a, b
<1>4. <<c>> \in Seq(S) /\ Len(<<c>>) = 1 /\ <<c>>[1] = c
  OBVIOUS
<1>5. /\ ac \in Seq(S) /\ Len(ac) = i + 1
      /\ \A j \in 1..i + 1 : ac[j] = IF j <= i THEN s[j] ELSE c
  <2>1. /\ ac \in Seq(S) /\ Len(ac) = Len(a) + 1
        /\ \A j \in 1..Len(a) + 1 : ac[j] = IF j <= Len(a) THEN a[j] ELSE <<c>>[j - Len(a)]
    BY <1>2, <1>4, ConcatProperties
  <2> HIDE DEF ac
  <2>2. ASSUME NEW j \in 1..i + 1 PROVE ac[j] = IF j <= i THEN s[j] ELSE c
    <3>1. ac[j] = IF j <= i THEN a[j] ELSE <<c>>[j - i]
      BY <1>2, <2>1
    <3>2. j <= i => j \in 1..i
      OBVIOUS
    <3>3. ~(j <= i) => j - i = 1
      OBVIOUS
    <3> QED BY <1>2, <1>4, <3>1, <3>2, <3>3
  <2> QED BY <1>2, <2>1, <2>2
<1> HIDE DEF ac
<1>6. /\ ac \o b \in Seq(S) /\ Len(ac \o b) = Len(ac) + Len(b)
      /\ \A j \in 1..Len(ac) + Len(b) : (ac \o b)[j] = IF j <= Len(ac) THEN ac[j] ELSE b[j - Len(ac)]
  BY <1>3, <1>5, ConcatProperties
<1>7. ASSUME NEW j \in 1..Len(s) + 1
      PROVE  (ac \o b)[j] = IF j <= i THEN s[j] ELSE IF j = i + 1 THEN c ELSE s[j - 1]
  <2>1. (ac \o b)[j] = IF j <= i + 1 THEN ac[j] ELSE b[j - (i + 1)]
    BY <1>1, <1>3, <1>5, <1>6
  <2>2. CASE j <= i + 1
    BY <1>5, <2>1, <2>2
  <2>3. CASE j > i + 1
    <3>1. j - (i + 1) \in 1..Len(s) - i
      BY <1>1, <2>3
    <3>2. b[j - (i + 1)] = s[i + (j - (i + 1))]
      BY <1>3, <3>1
    <3> QED BY <1>1, <2>1, <2>3, <3>2
  <2>4. j <= i + 1 \/ j > i + 1
    BY <1>1
  <2> QED BY <2>2, <2>3, <2>4
<1>8. ac \o b \in Seq(S) /\ Len(ac \o b) = Len(s) + 1
  BY <1>1, <1>3, <1>5, <1>6
<1> QED BY <1>7, <1>8 DEF a, b, ac, Longer

\* Without a card the others follow in their order.
LEMMA OrderedWithout ==
  ASSUME NEW v, NEW S, Positioned(v, S), NEW c \in S, NEW k,
         k \in DOMAIN Ordered(v, S), Ordered(v, S)[k] = c
  PROVE  Ordered(v, S \ {c}) = Shorter(Ordered(v, S), k)
<1> DEFINE s == Ordered(v, S)
           T == S \ {c}
           t == Shorter(s, k)
<1>1. /\ s \in Seq(S) /\ Len(s) = Cardinality(S)
      /\ \A i \in 1..Cardinality(S) : s[i] \in S /\ Rank(v, S, s[i]) = i - 1
  BY OrderedAt
<1> HIDE DEF s
<1>2. k \in 1..Len(s) /\ s[k] = c /\ Rank(v, S, c) = k - 1 /\ Len(s) \in Nat
  BY <1>1 DEF s
<1>3. /\ t \in Seq(S) /\ Len(t) = Len(s) - 1
      /\ \A j \in 1..Len(s) - 1 : t[j] = IF j < k THEN s[j] ELSE s[j + 1]
  BY <1>1, <1>2, Shortened
<1> HIDE DEF t
<1>4. Positioned(v, T) /\ Cardinality(T) = Len(s) - 1
  <2>1. Positioned(v, T)
    BY DEF Positioned
  <2>2. Cardinality(T) = Cardinality(S) - 1
    BY FS_RemoveElement, PositionedFinite
  <2> QED BY <1>1, <2>1, <2>2
<1>5. ASSUME NEW j \in 1..Len(t) PROVE t[j] \in T /\ Rank(v, T, t[j]) = j - 1
  <2> DEFINE i == IF j < k THEN j ELSE j + 1
  <2>1. i \in 1..Len(s) /\ i # k /\ t[j] = s[i]
    BY <1>2, <1>3
  <2>2. s[i] \in S /\ Rank(v, S, s[i]) = i - 1
    BY <1>1, <2>1
  <2>3. s[i] # c
    BY <1>2, <2>1, <2>2
  <2>4. Rank(v, T, s[i]) = IF Rank(v, S, s[i]) < Rank(v, S, c) THEN Rank(v, S, s[i])
                           ELSE Rank(v, S, s[i]) - 1
    BY <2>2, <2>3, RankWithout
  <2>5. Rank(v, T, s[i]) = IF i - 1 < k - 1 THEN i - 1 ELSE i - 1 - 1
    BY <1>2, <2>2, <2>4
  <2>6. Rank(v, T, s[i]) = j - 1
    BY <1>2, <2>1, <2>5
  <2> QED BY <2>1, <2>2, <2>3, <2>6
<1>6. t \in Seq(T)
  BY <1>3, <1>5, ElementOfSeq, IsASeq
<1> HIDE DEF T
<1>7. Len(t) = Cardinality(T) /\ \A j \in 1..Len(t) : Rank(v, T, t[j]) = j - 1
  BY <1>3, <1>4, <1>5
<1>8. Ordered(v, T) = t
  BY <1>4, <1>6, <1>7, OrderedIs
<1> QED BY <1>8 DEF s, t, T

\* With one more card at rank i, the others keep their order.
LEMMA OrderedWith ==
  ASSUME NEW v, NEW w, NEW S, Positioned(v, S), NEW c \in Cards, c \notin S,
         NEW T, \A d : d \in T <=> d \in S \/ d = c, Positioned(w, T),
         NEW i \in 0..Cardinality(S), Rank(w, T, c) = i,
         \A d \in S : Rank(w, T, d) = IF Rank(v, S, d) < i THEN Rank(v, S, d)
                                      ELSE Rank(v, S, d) + 1
  PROVE  Ordered(w, T) = Longer(Ordered(v, S), i, c)
<1> DEFINE s == Ordered(v, S)
           t == Longer(s, i, c)
<1>1. /\ s \in Seq(S) /\ Len(s) = Cardinality(S)
      /\ \A j \in 1..Cardinality(S) : s[j] \in S /\ Rank(v, S, s[j]) = j - 1
  BY OrderedAt
<1> HIDE DEF s
<1>2. s \in Seq(T) /\ c \in T /\ Len(s) \in Nat /\ i \in 0..Len(s)
  BY <1>1, SeqMonotonic
<1>3. /\ t \in Seq(T) /\ Len(t) = Len(s) + 1
      /\ \A j \in 1..Len(s) + 1 :
           t[j] = IF j <= i THEN s[j] ELSE IF j = i + 1 THEN c ELSE s[j - 1]
  <2>1. s \in Seq(T) /\ c \in T /\ i \in 0..Len(s)
    BY <1>2
  <2> QED BY <2>1, Lengthened
<1> HIDE DEF t
<1>4. Cardinality(T) = Len(s) + 1
  <2>1. T = S \cup {c}
    OBVIOUS
  <2> QED BY <1>1, <2>1, FS_AddElement, PositionedFinite
<1>5. ASSUME NEW j \in 1..Len(t) PROVE Rank(w, T, t[j]) = j - 1
  <2>0. j \in 1..Len(s) + 1 /\ \A d \in S : Rank(v, S, d) \in Nat
    BY <1>3, PositionedFinite
  <2>1. CASE j = i + 1
    BY <1>2, <1>3, <2>1
  <2>2. CASE j <= i
    <3>1. t[j] = s[j] /\ j \in 1..Len(s)
      BY <1>2, <1>3, <2>2
    <3>2. s[j] \in S /\ Rank(v, S, s[j]) = j - 1
      BY <1>1, <3>1
    <3>3. Rank(w, T, s[j]) = IF Rank(v, S, s[j]) < i THEN Rank(v, S, s[j])
                             ELSE Rank(v, S, s[j]) + 1
      BY <3>2
    <3>4. j - 1 < i
      BY <1>2, <2>0, <2>2
    <3> QED BY <3>1, <3>2, <3>3, <3>4
  <2>3. CASE j > i + 1
    <3>1. t[j] = s[j - 1] /\ j - 1 \in 1..Len(s)
      BY <1>2, <1>3, <2>3
    <3>2. s[j - 1] \in S /\ Rank(v, S, s[j - 1]) = j - 1 - 1
      BY <1>1, <3>1
    <3>3. Rank(w, T, s[j - 1]) = IF Rank(v, S, s[j - 1]) < i THEN Rank(v, S, s[j - 1])
                                 ELSE Rank(v, S, s[j - 1]) + 1
      BY <3>2
    <3>4. ~(j - 1 - 1 < i)
      BY <1>2, <2>0, <2>3
    <3> QED BY <2>0, <3>1, <3>2, <3>3, <3>4
  <2> QED BY <1>2, <1>3, <2>1, <2>2, <2>3
<1>6. Positioned(w, T) /\ Len(t) = Cardinality(T) /\ \A j \in 1..Len(t) : Rank(w, T, t[j]) = j - 1
  BY <1>3, <1>4, <1>5
<1>7. Ordered(w, T) = t
  BY <1>3, <1>6, OrderedIs
<1> QED BY <1>7 DEF s, t

-----------------------------------------------------------------------------
\* Plans

View == [Cards -> Rows \cup Absent]

\* The rows once the plan is carried out.
WithPlan(rows, plan) ==
  [c \in Cards |-> IF plan[c] = None THEN rows[c] ELSE [rows[c] EXCEPT !.position = plan[c]]]

\* Every card is on the board and in the column it was.
SamePlaces(v, w) ==
  \A d \in Cards : IF v[d] \in Absent THEN w[d] = v[d]
                   ELSE w[d] \in Rows /\ w[d].board = v[d].board /\ w[d].column = v[d].column

\* The rows of S in a view are positioned.
LEMMA ViewPositioned ==
  ASSUME NEW v \in View, NEW S \in SUBSET Cards, \A c \in S : v[c] \notin Absent
  PROVE  Positioned(v, S) /\ \A c \in S : v[c] \in Rows
BY DEF View, Positioned, Rows

\* A plan changes the positions it names.
LEMMA PlanEffect ==
  ASSUME NEW v \in View, NEW plan \in [Cards -> Nat \cup {None}],
         \A c \in Cards : plan[c] # None => v[c] \notin Absent
  PROVE  LET w == WithPlan(v, plan)
         IN  /\ w \in View /\ SamePlaces(v, w)
             /\ \A d \in Cards : IF plan[d] = None THEN w[d] = v[d]
                                 ELSE w[d].position = plan[d]
<1> DEFINE w == WithPlan(v, plan)
<1>1. ASSUME NEW d \in Cards, plan[d] # None
      PROVE  /\ w[d] \in Rows /\ w[d].board = v[d].board /\ w[d].column = v[d].column
             /\ w[d].position = plan[d]
  <2>1. v[d] \in Rows /\ plan[d] \in Nat
    BY <1>1 DEF View
  <2>2. w[d] = [v[d] EXCEPT !.position = plan[d]]
    BY <1>1 DEF WithPlan
  <2> HIDE DEF w
  <2> QED BY <2>1, <2>2 DEF Rows
<1>2. \A d \in Cards : plan[d] = None => w[d] = v[d]
  BY DEF WithPlan
<1>3. w \in View
  <2>1. w = [d \in Cards |-> w[d]]
    BY DEF WithPlan
  <2>2. \A d \in Cards : w[d] \in Rows \cup Absent
    BY <1>1, <1>2 DEF View
  <2> HIDE DEF w
  <2> QED BY <2>1, <2>2 DEF View
<1>4. SamePlaces(v, w)
  <2> HIDE DEF w
  <2>1. \A d \in Cards : v[d] \notin Absent => v[d] \in Rows
    BY DEF View
  <2> QED BY <1>1, <1>2, <2>1 DEF SamePlaces
<1> HIDE DEF w
<1>5. w \in View /\ SamePlaces(v, w)
             /\ \A d \in Cards : IF plan[d] = None THEN w[d] = v[d]
                                 ELSE w[d].position = plan[d]
  BY <1>1, <1>2, <1>3, <1>4
<1> QED BY <1>5 DEF w

\* w is v with new positions for the cards S, without gaps and ties.
Renumbers(v, S, w) ==
  /\ w \in View /\ SamePlaces(v, w)
  /\ \A d \in Cards : d \notin S => w[d] = v[d]
  /\ Slots(w, S)

\* compact_column! gives each card of the column its rank.
LEMMA CompactEffect ==
  ASSUME NEW v \in View, NEW S \in SUBSET Cards, \A c \in S : v[c] \notin Absent, NEW w,
         w = WithPlan(v, CompactPlan(v, S))
  PROVE  Renumbers(v, S, w) /\ \A d \in S : w[d].position = Rank(v, S, d)
<1> DEFINE plan == CompactPlan(v, S)
<1>1. Positioned(v, S)
  BY ViewPositioned
<1>2. \A d : Rank(v, S, d) \in Nat
  BY RankType
<1>3. plan \in [Cards -> Nat \cup {None}]
  BY <1>2 DEF CompactPlan
<1>4. \A d \in Cards : plan[d] = IF d \in S /\ v[d].position # Rank(v, S, d)
                                 THEN Rank(v, S, d) ELSE None
  BY DEF CompactPlan
<1> HIDE DEF plan
<1>5. \A d \in Cards : plan[d] # None => d \in S /\ v[d] \notin Absent
  BY <1>4
<1>6. /\ w \in View /\ SamePlaces(v, w)
      /\ \A d \in Cards : IF plan[d] = None THEN w[d] = v[d] ELSE w[d].position = plan[d]
  BY <1>3, <1>5, PlanEffect DEF plan
<1>7. ASSUME NEW d \in S PROVE w[d].position = Rank(v, S, d)
  <2>1. d \in Cards /\ Rank(v, S, d) # None
    BY <1>2, NoneAssumption
  <2> QED BY <1>4, <1>6, <2>1
<1>8. Slots(w, S)
  <2>1. /\ \A d \in S : Rank(v, S, d) < Cardinality(S)
        /\ \A c, d \in S : Rank(v, S, c) = Rank(v, S, d) => c = d
    BY <1>1, RankFollows, RankOnto
  <2>2. Cardinality(S) \in Nat
    BY <1>1, PositionedFinite
  <2>3. \A d \in S : Rank(v, S, d) \in 0..Cardinality(S) - 1
    BY <1>2, <2>1, <2>2
  <2> QED BY <1>7, <2>1, <2>3 DEF Slots
<1> QED BY <1>5, <1>6, <1>7, <1>8 DEF Renumbers

\* reorder_column! puts the card at the index, or at the end, and gives the
\* others their ranks around it.
SpotIn(S, card, index) ==
  IF index < Cardinality(S \ {card}) THEN index ELSE Cardinality(S \ {card})
SlotIn(v, S, card, index, d) ==
  IF d = card THEN SpotIn(S, card, index)
  ELSE IF Rank(v, S \ {card}, d) < SpotIn(S, card, index) THEN Rank(v, S \ {card}, d)
  ELSE Rank(v, S \ {card}, d) + 1

LEMMA InsertEffect ==
  ASSUME NEW v \in View, NEW S \in SUBSET Cards, \A c \in S : v[c] \notin Absent,
         NEW card \in S, NEW index \in Nat, NEW w,
         w = WithPlan(v, InsertPlan(v, S, card, index))
  PROVE  Renumbers(v, S, w) /\ \A d \in S : w[d].position = SlotIn(v, S, card, index, d)
<1> DEFINE others == S \ {card}
           n == Cardinality(others)
           spot == SpotIn(S, card, index)
           at(d) == SlotIn(v, S, card, index, d)
           plan == InsertPlan(v, S, card, index)
<1>1. Positioned(v, S) /\ Positioned(v, others)
  BY ViewPositioned DEF Positioned
<1>2. /\ n \in Nat /\ Cardinality(S) = n + 1 /\ \A d : Rank(v, others, d) \in Nat
      /\ \A d \in others : Rank(v, others, d) < n
  <2>1. Cardinality(others) = Cardinality(S) - 1 /\ Cardinality(S) \in Nat
    BY <1>1, PositionedFinite, FS_RemoveElement
  <2>2. n \in Nat /\ \A d : Rank(v, others, d) \in Nat
    BY <1>1, PositionedFinite
  <2>3. \A d \in others : Rank(v, others, d) < n
    BY <1>1, RankFollows
  <2> HIDE DEF others
  <2>4. Cardinality(S) = n + 1
    BY <2>1, <2>2
  <2> QED BY <2>2, <2>3, <2>4
<1>3. /\ spot \in 0..n /\ at(card) = spot
      /\ \A d : d # card => at(d) = IF Rank(v, others, d) < spot THEN Rank(v, others, d)
                                    ELSE Rank(v, others, d) + 1
  BY <1>2 DEF SpotIn, SlotIn
<1>4. \A d \in Cards : plan[d] = IF d \in S /\ v[d].position # at(d) THEN at(d) ELSE None
  <2>1. S \cup {card} = S
    OBVIOUS
  <2> QED BY <2>1 DEF InsertPlan, SpotIn, SlotIn
<1> HIDE DEF at, spot
<1>5. \A d : at(d) \in Nat
  <2> HIDE DEF n, others
  <2> QED BY <1>2, <1>3
<1>6. plan \in [Cards -> Nat \cup {None}]
  <2>1. plan = [d \in Cards |-> plan[d]]
    BY DEF InsertPlan
  <2> HIDE DEF plan
  <2> QED BY <1>4, <1>5, <2>1
<1> HIDE DEF plan
<1>7. \A d \in Cards : plan[d] # None => d \in S /\ v[d] \notin Absent
  BY <1>4
<1>8. /\ w \in View /\ SamePlaces(v, w)
      /\ \A d \in Cards : IF plan[d] = None THEN w[d] = v[d] ELSE w[d].position = plan[d]
  BY <1>6, <1>7, PlanEffect DEF plan
<1>9. ASSUME NEW d \in S PROVE w[d].position = at(d)
  <2>1. d \in Cards /\ at(d) # None
    BY <1>5, NoneAssumption
  <2> QED BY <1>4, <1>8, <2>1
<1>10. Slots(w, S)
  <2>1. ASSUME NEW d \in S PROVE at(d) \in 0..n
    <3>1. d # card => d \in others
      OBVIOUS
    <3> HIDE DEF others, n
    <3> QED BY <1>2, <1>3, <3>1
  <2>2. ASSUME NEW c \in S, NEW d \in S, at(c) = at(d) PROVE c = d
    <3>1. (c # card => c \in others) /\ (d # card => d \in others)
      OBVIOUS
    <3>2. \A a, b \in others : Rank(v, others, a) = Rank(v, others, b) => a = b
      BY <1>1, RankOnto
    <3> HIDE DEF others, n
    <3> QED BY <1>2, <1>3, <2>2, <3>1, <3>2
  <2>3. n = Cardinality(S) - 1
    BY <1>2
  <2> HIDE DEF n
  <2> QED BY <1>9, <2>1, <2>2, <2>3 DEF Slots
<1> QED BY <1>7, <1>8, <1>9, <1>10 DEF at, Renumbers

-----------------------------------------------------------------------------
\* One user at a time

OneUser == \A p, q \in Procs : p = q

\* What a request makes of the committed rows: the card in its place, the column
\* it goes to renumbered, and then the one it came from.
Target(r) ==
  IF r.op = "move" THEN [r.ld EXCEPT !.board = r.board, !.column = r.column] ELSE OffBoard
Moved(r) == [cards EXCEPT ![r.card] = Target(r)]
Inserted(r) ==
  WithPlan(Moved(r), InsertPlan(Moved(r), InColumn(Moved(r), r.board, r.column), r.card, r.index))
Placing(r) == IF r.op = "move" THEN Inserted(r) ELSE Moved(r)
Compacted(r) ==
  WithPlan(Placing(r), CompactPlan(Placing(r), InColumn(Placing(r), r.board, r.ld.column)))

\* A request works on the rows as they are committed; what it has written and what
\* it still has to write make what it is for.
RequestAlone(p) ==
  LET r == req[p] IN
  /\ r.board \in boards
  /\ IF r.op = "create" THEN cards[r.card] = NotYet ELSE cards[r.card] = r.ld
  /\ r.pc = "list" => Seen(p) = Moved(r)
  /\ r.pc \in {"renumber", "renumberOld"} => \A c \in Entries(r.plan) : Seen(p)[c] \notin Absent
  /\ r.pc = "renumber" => WithPlan(Seen(p), r.plan) = Inserted(r)
  /\ r.pc = "compact" => Seen(p) = Placing(r)
  /\ r.pc = "renumberOld" => WithPlan(Seen(p), r.plan) = Compacted(r)
  /\ r.pc \in {"compact", "renumberOld"} /\ r.op = "move" => r.ld.column # r.column
  /\ r.pc \in {"put", "insert"} => r.index = NextPosition(cards, r.board, r.column)

AloneInv == TypeOK /\ PlacementInv /\ \A p \in Procs : ~At(p, "idle") => RequestAlone(p)

\* A request under way, and what a transaction reads that has written nothing.
LEMMA Working ==
  ASSUME AloneInv, NEW p \in Procs, ~At(p, "idle")
  PROVE  /\ req[p] \in Requests /\ RequestAgrees(req[p]) /\ RequestAlone(p)
         /\ Seen(p) \in View
         /\ req[p].pc \notin {"list", "renumber", "compact", "renumberOld"} => Seen(p) = cards
<1>1. req[p] \in Requests /\ RequestAgrees(req[p]) /\ RequestAlone(p) /\ Seen(p) \in View
  BY ActiveRequest, SeenType DEF AloneInv, PlacementInv, RequestsAgree, View
<1>2. ASSUME req[p].pc \notin {"list", "renumber", "compact", "renumberOld"} PROVE Seen(p) = cards
  <2>1. \A c \in Cards : ws[p][c] = None
    BY <1>2, NothingWritten DEF AloneInv
  <2> QED BY <2>1 DEF Seen, AloneInv, TypeOK
<1> QED BY <1>1, <1>2

\* The rows of a request's card: it has been loaded, or is about to be created.
LEMMA LoadedRow ==
  ASSUME AloneInv, NEW p \in Procs, ~At(p, "idle"), req[p].op # "create"
  PROVE  req[p].card \in Cards /\ cards[req[p].card] = req[p].ld /\ req[p].ld \in Rows
         /\ req[p].ld \notin Absent
<1>1. req[p] \in Requests /\ RequestAlone(p)
  BY Working
<1> QED BY <1>1, AbsentAssumption DEF RequestAlone, Requests

\* What a request is for does not depend on its step.
LEMMA SameTarget ==
  ASSUME NEW p, UNCHANGED cards, req[p] \in Requests,
         \E pc, plan : req'[p] = [req[p] EXCEPT !.pc = pc, !.plan = plan]
  PROVE  /\ req'[p].board = req[p].board /\ req'[p].op = req[p].op /\ req'[p].card = req[p].card
         /\ req'[p].ld = req[p].ld /\ req'[p].column = req[p].column /\ req'[p].index = req[p].index
         /\ Moved(req[p])' = Moved(req[p]) /\ Inserted(req[p])' = Inserted(req[p])
         /\ Placing(req[p])' = Placing(req[p]) /\ Compacted(req[p])' = Compacted(req[p])
<1>1. /\ req'[p].board = req[p].board /\ req'[p].op = req[p].op /\ req'[p].card = req[p].card
      /\ req'[p].ld = req[p].ld /\ req'[p].column = req[p].column /\ req'[p].index = req[p].index
  BY DEF Requests
<1>2. Moved(req[p])' = Moved(req[p])
  BY <1>1 DEF Moved, Target
<1>3. Inserted(req[p])' = Inserted(req[p])
  BY <1>1, <1>2 DEF Inserted
<1>4. Placing(req[p])' = Placing(req[p])
  BY <1>1, <1>2, <1>3 DEF Placing
<1>5. Compacted(req[p])' = Compacted(req[p])
  BY <1>1, <1>4 DEF Compacted
<1> QED BY <1>1, <1>2, <1>3, <1>4, <1>5

\* An UPDATE is read by the transaction that has written it.
LEMMA SeenWritten ==
  ASSUME TypeOK, NEW p \in Procs, NEW c \in Cards, NEW row \in Rows, Write(p, c, row),
         Seen(p)[c] \notin Absent, UNCHANGED cards
  PROVE  Seen(p)' = [Seen(p) EXCEPT ![c] = row]
<1>1. ws' = [ws EXCEPT ![p][c] = row]
  BY DEF Write
<1>2. \A d \in Cards : ws'[p][d] = IF d = c THEN row ELSE ws[p][d]
  BY <1>1 DEF TypeOK
<1>3. row # None
  BY NoneAssumption
<1> QED BY <1>2, <1>3 DEF Seen

\* A transaction that has nothing left to write reads what it is for.
LEMMA PlanCarriedOut ==
  ASSUME NEW v \in View PROVE WithPlan(v, Empty) = v
BY DEF View, WithPlan, Empty

\* The rows after the first UPDATE.
LEMMA MovedView ==
  ASSUME AloneInv, NEW p \in Procs, ~At(p, "idle"), req[p].op \in {"move", "remove"}
  PROVE  /\ Target(req[p]) \in Rows /\ Target(req[p]) \notin Absent
         /\ Moved(req[p]) \in View /\ Moved(req[p])[req[p].card] = Target(req[p])
         /\ \A c \in Cards \ {req[p].card} : Moved(req[p])[c] = cards[c]
         /\ req[p].op = "move" => /\ Target(req[p]).board = req[p].board
                                 /\ Target(req[p]).column = req[p].column
<1>1. req[p] \in Requests /\ req[p].ld \in Rows
  BY Working, LoadedRow
<1>2. Target(req[p]) \in Rows
  BY <1>1 DEF Target, OffBoard, Requests, Rows
<1>3. req[p].op = "move" => /\ Target(req[p]).board = req[p].board
                            /\ Target(req[p]).column = req[p].column
  BY <1>1 DEF Target, Rows
<1>4. Target(req[p]) \notin Absent
  BY <1>2, AbsentAssumption
<1> QED BY <1>1, <1>2, <1>3, <1>4 DEF Moved, View, AloneInv, TypeOK, Requests

\* A request starts with the committed row of its card.
LEMMA StartAlone ==
  ASSUME TypeOK, NEW p \in Procs, NEW op, NEW pc \in {"place", "max"}, NEW c, NEW ld, NEW b \in boards,
         NEW col, NEW index, Start(p, op, pc, c, ld, b, col, index),
         IF op = "create" THEN cards[c] = NotYet ELSE cards[c] = ld
  PROVE  RequestAlone(p)'
<1>1. /\ req'[p].pc = pc /\ req'[p].op = op /\ req'[p].card = c /\ req'[p].ld = ld
      /\ req'[p].board = b /\ UNCHANGED <<cards, boards>>
  BY DEF Start, TypeOK
<1> QED BY <1>1 DEF RequestAlone

LEMMA BeginAlone ==
  ASSUME AloneInv, NEW p \in Procs, Begin(p) PROVE At(p, "idle")' \/ RequestAlone(p)'
<1>1. TypeOK
  BY DEF AloneInv
<1>2. ASSUME NEW c \in Cards, NEW col \in Columns, NEW index \in Indices, BeginMove(p, c, col, index)
      PROVE  RequestAlone(p)'
  BY <1>1, <1>2, StartAlone DEF BeginMove
<1>3. ASSUME NEW c \in Cards, NEW b \in Boards, BeginRemove(p, c, b) PROVE RequestAlone(p)'
  BY <1>1, <1>3, StartAlone DEF BeginRemove
<1>4. ASSUME NEW c \in Cards, NEW col \in Columns, BeginAdd(p, c, col) PROVE RequestAlone(p)'
  BY <1>1, <1>4, StartAlone DEF BeginAdd
<1>5. ASSUME NEW c \in Cards, NEW col \in Columns, BeginCreate(p, c, col) PROVE RequestAlone(p)'
  BY <1>1, <1>5, StartAlone DEF BeginCreate
<1>6. ASSUME NEW c \in Cards, DestroyMemo(p, c) PROVE At(p, "idle")'
  BY <1>6 DEF DestroyMemo, CanStart, At
<1> QED BY <1>2, <1>3, <1>4, <1>5, <1>6 DEF Begin

\* An UPDATE of the row that was loaded writes the row it is for.
LEMMA DifferingAll == ASSUME NEW ld \in Rows, NEW new \in Rows PROVE Differing(ld, ld, new) = new
<1>1. Differing(ld, ld, new) = [f \in {"board", "column", "position"} |-> new[f]]
  BY DEF Differing
<1>2. new = [f \in {"board", "column", "position"} |-> new[f]]
  BY DEF Rows
<1> QED BY <1>1, <1>2

\* The first UPDATE of a move or a removal writes the row it is for.
LEMMA PlaceAlone ==
  ASSUME AloneInv, NEW p \in Procs, Place(p) PROVE At(p, "idle")' \/ RequestAlone(p)'
<1> DEFINE r == req[p]
           c == r.card
<1>1. /\ At(p, "place") /\ r \in Requests /\ RequestAgrees(r) /\ RequestAlone(p) /\ Seen(p) = cards
      /\ r.op \in {"move", "remove"} /\ r.op # "create" /\ TypeOK
  BY Working DEF Place, At, RequestAgrees, StepsOf, AloneInv
<1>2. /\ c \in Cards /\ cards[c] = r.ld /\ r.ld \in Rows /\ r.ld \notin Absent
  BY <1>1, LoadedRow DEF At
<1>3. /\ Target(r) \in Rows /\ Moved(r) = [cards EXCEPT ![c] = Target(r)]
  BY <1>1, MovedView DEF At, Moved
<1>4. UNCHANGED <<cards, boards>>
  BY DEF Place
<1>5. ASSUME NEW pc \in {"list", "compact"}, req' = [req EXCEPT ![p].pc = pc],
             Seen(p)' = Moved(r), pc = IF r.op = "move" THEN "list" ELSE "compact"
      PROVE  RequestAlone(p)'
  <2>1. req'[p] = [r EXCEPT !.pc = pc, !.plan = r.plan]
    BY <1>1, <1>5 DEF TypeOK, Requests
  <2>3. req'[p].pc = pc
    BY <1>1, <2>1 DEF Requests
  <2>2. /\ req'[p].board = r.board /\ req'[p].op = r.op /\ req'[p].card = r.card
        /\ req'[p].ld = r.ld /\ req'[p].column = r.column
        /\ Moved(r)' = Moved(r) /\ Placing(r)' = Placing(r)
    <3>1. UNCHANGED cards /\ req[p] \in Requests
      BY <1>1, <1>4
    <3>2. \E k, plan : req'[p] = [req[p] EXCEPT !.pc = k, !.plan = plan]
      BY <2>1
    <3> QED BY <3>1, <3>2, SameTarget
  <2>4. r.op = "remove" => Placing(r) = Moved(r)
    BY DEF Placing
  <2> QED BY <1>1, <1>4, <1>5, <2>2, <2>3, <2>4 DEF RequestAlone
<1>6. CASE /\ Write(p, c, Differing(Seen(p)[c], r.ld, Target(r)))
           /\ req' = [req EXCEPT ![p].pc = IF r.op = "move" THEN "list" ELSE "compact"]
  <2>1. Differing(r.ld, r.ld, Target(r)) = Target(r)
    BY <1>2, <1>3, DifferingAll
  <2>2. Seen(p)' = [Seen(p) EXCEPT ![c] = Target(r)]
    <3>1. Write(p, c, Target(r))
      BY <1>1, <1>2, <1>6, <2>1
    <3>2. Seen(p)[c] \notin Absent
      BY <1>1, <1>2
    <3> HIDE DEF c
    <3> QED BY <1>1, <1>2, <1>3, <1>4, <3>1, <3>2, SeenWritten
  <2> QED BY <1>1, <1>3, <1>5, <1>6, <2>2
<1>7. CASE Target(r) = r.ld /\ UNCHANGED ws /\ req' = [req EXCEPT ![p].pc = "list"]
  <2>1. r.op = "move"
    <3>1. r.op # "move" => r.ld.board = Off
      BY <1>7 DEF Target, OffBoard
    <3>2. r.ld.board \in Boards
      BY <1>1 DEF RequestAgrees, Requests
    <3> QED BY <3>1, <3>2, OffAssumption
  <2>2. Moved(r) = cards
    BY <1>1, <1>2, <1>3, <1>7 DEF TypeOK
  <2>3. Seen(p)' = Seen(p)
    BY <1>4, <1>7 DEF Seen
  <2> QED BY <1>1, <1>5, <1>7, <2>1, <2>2, <2>3
<1>8. CASE Finish(p)
  BY <1>1, <1>8 DEF Finish, At, Idle, TypeOK
<1> QED BY <1>6, <1>7, <1>8 DEF Place, Target

\* A move renumbers the column with the card in it, as the plan says.
LEMMA ListAlone ==
  ASSUME AloneInv, NEW p \in Procs, List(p) PROVE At(p, "idle")' \/ RequestAlone(p)'
<1> DEFINE r == req[p]
           view == Seen(p)
           plan == InsertPlan(view, InColumn(view, r.board, r.column), r.card, r.index)
<1>1. /\ At(p, "list") /\ r \in Requests /\ RequestAlone(p) /\ TypeOK
      /\ UNCHANGED <<cards, boards>> /\ r.op = "move"
  BY Working DEF List, At, AloneInv, RequestAgrees, StepsOf
<1>2. CASE Finish(p)
  BY <1>1, <1>2 DEF Finish, At, Idle, TypeOK
<1>3. CASE /\ r.card \in OnBoard(view, r.board) /\ UNCHANGED ws
           /\ req' = [req EXCEPT ![p].pc = "renumber", ![p].plan = plan]
  <2>1. view = Moved(r)
    BY <1>1 DEF RequestAlone, At
  <2>2. view' = view
    BY <1>1, <1>3 DEF Seen
  <2>3. \A c \in Entries(plan) : view[c] \notin Absent
    BY <1>3 DEF Entries, InsertPlan, InColumn, OnBoard
  <2>4. WithPlan(view, plan) = Inserted(r)
    BY <2>1 DEF Inserted
  <2> HIDE DEF plan
  <2>5. req'[p] = [r EXCEPT !.pc = "renumber", !.plan = plan]
    BY <1>1, <1>3 DEF TypeOK
  <2>6. req'[p].pc = "renumber" /\ req'[p].plan = plan
    BY <1>1, <2>5 DEF Requests
  <2>7. /\ req'[p].board = r.board /\ req'[p].op = r.op /\ req'[p].card = r.card
        /\ req'[p].ld = r.ld /\ Inserted(r)' = Inserted(r)
    <3>1. UNCHANGED cards /\ req[p] \in Requests
      BY <1>1
    <3>2. \E k, f : req'[p] = [req[p] EXCEPT !.pc = k, !.plan = f]
      BY <2>5
    <3> QED BY <3>1, <3>2, SameTarget
  <2> QED BY <1>1, <2>2, <2>3, <2>4, <2>6, <2>7 DEF RequestAlone
<1> QED BY <1>2, <1>3 DEF List

\* A removal, or a move that has renumbered the column it goes to, renumbers the
\* column the card was in.
LEMMA CompactAlone == ASSUME AloneInv, NEW p \in Procs, Compact(p) PROVE RequestAlone(p)'
<1> DEFINE r == req[p]
           view == Seen(p)
           plan == CompactPlan(view, InColumn(view, r.board, r.ld.column))
<1>1. /\ At(p, "compact") /\ r \in Requests /\ RequestAlone(p) /\ TypeOK
      /\ UNCHANGED <<cards, boards, ws>>
      /\ req' = [req EXCEPT ![p].pc = "renumberOld", ![p].plan = plan]
  BY Working DEF Compact, At, AloneInv
<1>2. view = Placing(r)
  BY <1>1 DEF RequestAlone, At
<1>3. view' = view
  BY <1>1 DEF Seen
<1>4. \A c \in Entries(plan) : view[c] \notin Absent
  BY DEF Entries, CompactPlan, InColumn, OnBoard
<1>5. WithPlan(view, plan) = Compacted(r)
  BY <1>2 DEF Compacted
<1> HIDE DEF plan
<1>6. req'[p] = [r EXCEPT !.pc = "renumberOld", !.plan = plan]
  BY <1>1 DEF TypeOK
<1>7. req'[p].pc = "renumberOld" /\ req'[p].plan = plan
  BY <1>1, <1>6 DEF Requests
<1>8. /\ req'[p].board = r.board /\ req'[p].op = r.op /\ req'[p].card = r.card
      /\ req'[p].ld = r.ld /\ req'[p].column = r.column /\ Compacted(r)' = Compacted(r)
  <2>1. UNCHANGED cards /\ req[p] \in Requests
    BY <1>1
  <2>2. \E k, f : req'[p] = [req[p] EXCEPT !.pc = k, !.plan = f]
    BY <1>6
  <2> QED BY <2>1, <2>2, SameTarget
<1>9. /\ r.board \in boards /\ IF r.op = "create" THEN cards[r.card] = NotYet ELSE cards[r.card] = r.ld
      /\ r.op = "move" => r.ld.column # r.column
  BY <1>1 DEF RequestAlone, At
<1>10. UNCHANGED <<cards, boards>>
  BY <1>1
<1> QED BY <1>3, <1>4, <1>5, <1>7, <1>8, <1>9, <1>10 DEF RequestAlone

\* Once nothing is left to write, the rows read are those the plan was for.
LEMMA RenumberedAlone == ASSUME AloneInv, NEW p \in Procs, Renumbered(p) PROVE RequestAlone(p)'
<1> DEFINE r == req[p]
           view == Seen(p)
<1>1. /\ At(p, "renumber") /\ r \in Requests /\ RequestAlone(p) /\ TypeOK /\ view \in View
      /\ r.op = "move" /\ r.ld.column # r.column /\ r.plan = Empty
      /\ UNCHANGED <<cards, boards, ws>> /\ req' = [req EXCEPT ![p].pc = "compact"]
  BY Working DEF Renumbered, At, AloneInv, RequestAgrees, StepsOf
<1>2. view = Placing(r)
  BY <1>1, PlanCarriedOut DEF RequestAlone, At, Placing
<1>3. view' = view
  BY <1>1 DEF Seen
<1>6. req'[p] = [r EXCEPT !.pc = "compact", !.plan = r.plan]
  BY <1>1 DEF TypeOK, Requests
<1>7. req'[p].pc = "compact"
  BY <1>1, <1>6 DEF Requests
<1>8. /\ req'[p].board = r.board /\ req'[p].op = r.op /\ req'[p].card = r.card
      /\ req'[p].ld = r.ld /\ req'[p].column = r.column /\ Placing(r)' = Placing(r)
  <2>1. UNCHANGED cards /\ req[p] \in Requests
    BY <1>1
  <2>2. \E k, f : req'[p] = [req[p] EXCEPT !.pc = k, !.plan = f]
    BY <1>6
  <2> QED BY <2>1, <2>2, SameTarget
<1> QED BY <1>1, <1>2, <1>3, <1>7, <1>8 DEF RequestAlone, At

\* One UPDATE carries out one entry of the plan.
LEMMA RenumberAlone == ASSUME AloneInv, NEW p \in Procs, Renumber(p) PROVE RequestAlone(p)'
<1> DEFINE r == req[p]
           view == Seen(p)
<1>1. /\ r.pc \in {"renumber", "renumberOld"} /\ r \in Requests /\ RequestAlone(p) /\ TypeOK
      /\ view \in View /\ UNCHANGED <<cards, boards>>
  BY Working DEF Renumber, At, AloneInv
<1>2. PICK c \in Entries(r.plan) :
        /\ Write(p, c, [view[c] EXCEPT !.position = r.plan[c]])
        /\ req' = [req EXCEPT ![p].plan[c] = None]
  BY DEF Renumber
<1> DEFINE row == [view[c] EXCEPT !.position = r.plan[c]]
<1>3. c \in Cards /\ r.plan[c] # None /\ r.plan[c] \in Nat /\ view[c] \notin Absent /\ view[c] \in Rows
  BY <1>1 DEF Entries, RequestAlone, View, Requests
<1>4. row \in Rows
  BY <1>3 DEF Rows
<1>5. Write(p, c, row) /\ UNCHANGED cards
  BY <1>1, <1>2
<1>6. view' = [view EXCEPT ![c] = row]
  <2> HIDE DEF row
  <2> QED BY <1>1, <1>3, <1>4, <1>5, SeenWritten
<1>7. req'[p] = [r EXCEPT !.pc = r.pc, !.plan = [r.plan EXCEPT ![c] = None]]
  BY <1>1, <1>2 DEF TypeOK, Requests
<1>8. req'[p].pc = r.pc /\ req'[p].plan = [r.plan EXCEPT ![c] = None]
  BY <1>1, <1>7 DEF Requests
<1>9. /\ req'[p].board = r.board /\ req'[p].op = r.op /\ req'[p].card = r.card
      /\ req'[p].ld = r.ld /\ req'[p].column = r.column
      /\ Inserted(r)' = Inserted(r) /\ Compacted(r)' = Compacted(r)
  <2>1. UNCHANGED cards /\ req[p] \in Requests
    BY <1>1
  <2>2. \E k, f : req'[p] = [req[p] EXCEPT !.pc = k, !.plan = f]
    BY <1>7
  <2> QED BY <2>1, <2>2, SameTarget
<1>10. WithPlan(view', req'[p].plan) = WithPlan(view, r.plan)
  <2>1. r.plan \in [Cards -> Nat \cup {None}]
    BY <1>1 DEF Requests
  <2>2. \A d \in Cards : /\ req'[p].plan[d] = IF d = c THEN None ELSE r.plan[d]
                         /\ view'[d] = IF d = c THEN row ELSE view[d]
    BY <1>1, <1>3, <1>6, <1>8, <2>1 DEF View
  <2> HIDE DEF view
  <2> QED BY <1>3, <2>2 DEF WithPlan
<1>11. \A d \in Entries(req'[p].plan) : view'[d] \notin Absent
  <2>1. r.plan \in [Cards -> Nat \cup {None}]
    BY <1>1 DEF Requests
  <2>2. \A d \in Entries(req'[p].plan) : d # c /\ d \in Entries(r.plan)
    BY <1>3, <1>8, <2>1 DEF Entries
  <2>3. \A d \in Entries(r.plan) : d \in Cards /\ view[d] \notin Absent
    BY <1>1 DEF RequestAlone, Entries
  <2> QED BY <1>1, <1>6, <2>2, <2>3 DEF View
<1> QED BY <1>1, <1>8, <1>9, <1>10, <1>11 DEF RequestAlone

\* The position a new card gets is read from the rows as they are committed.
LEMMA ReadMaxAlone == ASSUME AloneInv, NEW p \in Procs, ReadMax(p) PROVE RequestAlone(p)'
<1> DEFINE r == req[p]
           next == NextPosition(cards, r.board, r.column)
           pc == IF r.op = "add" THEN "put" ELSE "insert"
<1>1. /\ At(p, "max") /\ r \in Requests /\ RequestAlone(p) /\ TypeOK
      /\ UNCHANGED <<cards, boards, ws>> /\ req' = [req EXCEPT ![p].index = next, ![p].pc = pc]
  BY Working DEF ReadMax, At, AloneInv
<1> HIDE DEF next, pc
<1>2. req'[p] = [r EXCEPT !.index = next, !.pc = pc]
  BY <1>1 DEF TypeOK
<1>3. /\ req'[p].pc = pc /\ req'[p].index = next /\ req'[p].board = r.board /\ req'[p].op = r.op
      /\ req'[p].card = r.card /\ req'[p].ld = r.ld /\ req'[p].column = r.column
  <2>1. r \in Requests
    BY <1>1
  <2> HIDE DEF r
  <2> QED BY ONLY <2>1, <1>2 DEF Requests
<1>4. pc \in {"put", "insert"}
  BY DEF pc
<1> QED BY <1>1, <1>3, <1>4 DEF RequestAlone, next

\* Every step of the only user keeps the invariant.
LEMMA AloneKept == ASSUME OneUser, AloneInv, [Next]_vars PROVE AloneInv'
<1>1. TypeOK' /\ PlacementInv'
  BY NextType, NextPlacement DEF AloneInv
<1>2. CASE UNCHANGED vars
  BY <1>1, <1>2 DEF vars, AloneInv, RequestAlone, At, Seen, Moved, Inserted, Placing, Compacted
<1>3. ASSUME NEW p \in Procs, Begin(p) \/ Step(p) \/ \E b \in Boards : DestroyBoard(p, b)
      PROVE  AloneInv'
  <2>1. At(p, "idle")' \/ RequestAlone(p)'
    <3>1. CASE Begin(p)
      BY <3>1, BeginAlone
    <3>2. CASE Commit(p) \/ Rollback(p) \/ Put(p) \/ Insert(p)
      BY <3>2 DEF Commit, Rollback, Put, Insert, Finish, AloneInv, TypeOK, At, Idle
    <3>3. CASE \E b \in Boards : DestroyBoard(p, b)
      BY <3>3 DEF DestroyBoard, CanStart, At
    <3> QED BY <1>3, <3>1, <3>2, <3>3, PlaceAlone, ListAlone, CompactAlone, RenumberedAlone,
               RenumberAlone, ReadMaxAlone DEF Step
  <2>2. \A q \in Procs : q = p
    BY DEF OneUser
  <2> QED BY <1>1, <2>1, <2>2 DEF AloneInv
<1> QED BY <1>2, <1>3 DEF Next

\* One user's request works on the rows as they are committed throughout.
LEMMA StaysAlone == ASSUME OneUser PROVE Spec => []AloneInv
<1>1. Init => AloneInv
  BY InitType, InitPlacement DEF Init, AloneInv, At, Idle
<1>2. AloneInv /\ [Next]_vars => AloneInv'
  BY AloneKept
<1> QED BY <1>1, <1>2, PTL DEF Spec

-----------------------------------------------------------------------------
\* Columns are renumbered

\* The cards of a column are those that were in it before.
LEMMA SameColumns ==
  ASSUME NEW v \in View, NEW w, SamePlaces(v, w)
  PROVE  /\ \A b, col : InColumn(w, b, col) = InColumn(v, b, col)
         /\ \A col : CardsOf(w, col) = CardsOf(v, col)
<1>1. \A d \in Cards : /\ w[d] \in Absent <=> v[d] \in Absent
                       /\ v[d] \notin Absent => w[d].board = v[d].board /\ w[d].column = v[d].column
  BY AbsentAssumption DEF SamePlaces
<1> QED BY <1>1 DEF InColumn, OnBoard, CardsOf

\* The cards of a column have positions.
LEMMA ColumnCards ==
  ASSUME NEW v \in View, NEW b, NEW col
  PROVE  /\ InColumn(v, b, col) \in SUBSET Cards /\ Positioned(v, InColumn(v, b, col))
         /\ \A d \in InColumn(v, b, col) : v[d] \notin Absent
<1>1. /\ InColumn(v, b, col) \in SUBSET Cards
      /\ \A d \in InColumn(v, b, col) : v[d] \notin Absent
  BY DEF InColumn, OnBoard
<1> QED BY <1>1, ViewPositioned

\* A column whose cards fill its slots is dense.
LEMMA SlotsAreDense ==
  ASSUME NEW w \in View, NEW b, NEW col, Slots(w, InColumn(w, b, col))
  PROVE  Dense(w, b, col)
<1>1. InColumn(w, b, col) \subseteq Cards
  BY ColumnCards
<1> QED BY <1>1, SlotsAreRanks DEF Dense

\* The column a card is moved to, with it, and the column it was in, without it.
Into(r) == InColumn(Moved(r), r.board, r.column)
From(r) == InColumn(Placing(r), r.board, r.ld.column)

\* A move puts the card at its spot in the column it goes to.
LEMMA InsertedColumn ==
  ASSUME AloneInv, NEW p \in Procs, ~At(p, "idle"), req[p].op = "move"
  PROVE  /\ req[p].card \in Into(req[p]) /\ Renumbers(Moved(req[p]), Into(req[p]), Inserted(req[p]))
         /\ \A d \in Into(req[p]) :
              Inserted(req[p])[d].position =
                SlotIn(Moved(req[p]), Into(req[p]), req[p].card, req[p].index, d)
<1> DEFINE r == req[p]
           v == Moved(r)
           S == Into(r)
           w == Inserted(r)
           c == r.card
           index == r.index
<1>1. /\ v \in View /\ v[c] = Target(r) /\ Target(r) \notin Absent
      /\ Target(r).board = r.board /\ Target(r).column = r.column
      /\ c \in Cards /\ index \in Nat
  BY MovedView, Working DEF Requests
<1>2. S \in SUBSET Cards /\ \A d \in S : v[d] \notin Absent
  BY <1>1, ColumnCards DEF Into
<1>3. c \in S
  BY <1>1 DEF Into, InColumn, OnBoard
<1>4. w = WithPlan(v, InsertPlan(v, S, c, index))
  BY DEF Inserted, Into
<1> HIDE DEF r, v, S, w, c, index
<1>5. Renumbers(v, S, w) /\ \A d \in S : w[d].position = SlotIn(v, S, c, index, d)
  BY <1>1, <1>2, <1>3, <1>4, InsertEffect
<1> QED BY <1>3, <1>5 DEF r, v, S, w, c, index

\* The rows with the card in its place.
LEMMA PlacingView ==
  ASSUME AloneInv, NEW p \in Procs, ~At(p, "idle"), req[p].op \in {"move", "remove"}
  PROVE  Placing(req[p]) \in View /\ SamePlaces(Moved(req[p]), Placing(req[p]))
<1>1. CASE req[p].op = "move"
  BY <1>1, InsertedColumn DEF Placing, Renumbers
<1>2. CASE req[p].op # "move"
  <2>1. Moved(req[p]) \in View /\ Placing(req[p]) = Moved(req[p])
    BY <1>2, MovedView DEF Placing
  <2> QED BY <2>1 DEF SamePlaces, View
<1> QED BY <1>1, <1>2

\* The old column is left without gaps and ties.
LEMMA CompactedColumn ==
  ASSUME AloneInv, NEW p \in Procs, ~At(p, "idle"), req[p].op \in {"move", "remove"}
  PROVE  /\ Renumbers(Placing(req[p]), From(req[p]), Compacted(req[p]))
         /\ \A d \in From(req[p]) :
              Compacted(req[p])[d].position = Rank(Placing(req[p]), From(req[p]), d)
<1> DEFINE r == req[p]
           v == Placing(r)
           S == From(r)
           w == Compacted(r)
<1>1. v \in View
  BY PlacingView
<1>2. S \in SUBSET Cards /\ \A d \in S : v[d] \notin Absent
  BY <1>1, ColumnCards DEF From
<1>3. w = WithPlan(v, CompactPlan(v, S))
  BY DEF Compacted, From
<1> HIDE DEF r, v, S, w
<1>4. Renumbers(v, S, w) /\ \A d \in S : w[d].position = Rank(v, S, d)
  BY <1>1, <1>2, <1>3, CompactEffect
<1> QED BY <1>4 DEF r, v, S, w

\* What a request commits is what it is for.
LEMMA Committed ==
  ASSUME AloneInv, NEW p \in Procs, Commit(p)
  PROVE  /\ ~At(p, "idle") /\ req[p] \in Requests
         /\ \/ /\ req[p].op = "move" /\ req[p].ld.column = req[p].column
               /\ cards' = Inserted(req[p])
            \/ /\ req[p].op \in {"move", "remove"}
               /\ req[p].op = "move" => req[p].ld.column # req[p].column
               /\ cards' = Compacted(req[p])
<1> DEFINE r == req[p]
<1>1. /\ ~At(p, "idle") /\ r \in Requests /\ RequestAgrees(r) /\ RequestAlone(p)
      /\ Seen(p) \in View /\ r.plan = Empty /\ cards' = Seen(p)
      /\ r.pc \in {"renumber", "renumberOld"}
  BY Working DEF Commit, At
<1>2. WithPlan(Seen(p), r.plan) = cards'
  BY <1>1, PlanCarriedOut
<1>3. CASE r.pc = "renumber"
  <2>1. r.op = "move" /\ r.ld.column = r.column
    BY <1>1, <1>3 DEF RequestAgrees, StepsOf, Commit, At
  <2>2. cards' = Inserted(r)
    BY <1>1, <1>2, <1>3 DEF RequestAlone
  <2> QED BY <1>1, <2>1, <2>2
<1>4. CASE r.pc = "renumberOld"
  <2>1. r.op \in {"move", "remove"} /\ (r.op = "move" => r.ld.column # r.column)
    BY <1>1, <1>4 DEF RequestAgrees, StepsOf, RequestAlone
  <2>2. cards' = Compacted(r)
    BY <1>1, <1>2, <1>4 DEF RequestAlone
  <2> QED BY <1>1, <2>1, <2>2
<1> QED BY <1>1, <1>3, <1>4

\* A card moved to an index is there, or at the end of a column with fewer cards.
LEMMA SpotReached ==
  ASSUME NEW w \in View, NEW S \in SUBSET Cards, Slots(w, S), NEW card \in S, NEW index \in Nat,
         w[card].position = SpotIn(S, card, index)
  PROVE  \/ w[card].position = index
         \/ index >= Cardinality(S) /\ \A c \in S \ {card} : w[c].position < w[card].position
<1> DEFINE n == Cardinality(S \ {card})
<1>1. n \in Nat /\ Cardinality(S) = n + 1
  <2>1. IsFiniteSet(S)
    BY CardsAssumption, FS_Subset
  <2>2. IsFiniteSet(S \ {card}) /\ n = Cardinality(S) - 1 /\ Cardinality(S) \in Nat
    BY <2>1, FS_RemoveElement, FS_CardinalityType
  <2>3. n \in Nat
    BY <2>2, FS_CardinalityType
  <2> HIDE DEF n
  <2> QED BY <2>2, <2>3
<1>2. CASE index <= n
  BY <1>1, <1>2 DEF SpotIn
<1>3. CASE index > n
  <2>1. w[card].position = n /\ index >= Cardinality(S)
    BY <1>1, <1>3 DEF SpotIn
  <2>2. ASSUME NEW c \in S \ {card} PROVE w[c].position < n
    <3>1. w[c].position \in 0..Cardinality(S) - 1 /\ w[c].position # w[card].position
      BY DEF Slots
    <3> HIDE DEF n
    <3> QED BY <1>1, <2>1, <3>1
  <2> QED BY <2>1, <2>2
<1> HIDE DEF n
<1> QED BY <1>1, <1>2, <1>3

\* The columns that a request has renumbered when it commits.
LEMMA CommitRenumbers ==
  ASSUME AloneInv, NEW p \in Procs, Commit(p)
  PROVE  /\ req[p].op = "move" =>
              /\ Dense(cards', req[p].board, req[p].column)
              /\ \/ cards'[req[p].card].position = req[p].index
                 \/ /\ req[p].index >= Cardinality(InColumn(cards', req[p].board, req[p].column))
                    /\ \A c \in InColumn(cards', req[p].board, req[p].column) \ {req[p].card} :
                         cards'[c].position < cards'[req[p].card].position
         /\ Dense(cards', req[p].board, req[p].ld.column)
<1> DEFINE r == req[p]
           v == Moved(r)
           u == Placing(r)
           S == Into(r)
           T == From(r)
<1>1. ~At(p, "idle") /\ r \in Requests /\ r.op \in {"move", "remove"} /\ r.index \in Nat
  BY Committed DEF Requests
<1>2. v \in View /\ u \in View /\ SamePlaces(v, u) /\ S \in SUBSET Cards
  BY <1>1, MovedView, PlacingView, ColumnCards DEF Into
<1>3. CASE /\ r.op = "move" /\ r.ld.column = r.column /\ cards' = Inserted(r)
  <2>1. /\ r.card \in S /\ Renumbers(v, S, cards')
        /\ cards'[r.card].position = SlotIn(v, S, r.card, r.index, r.card)
    BY <1>1, <1>3, InsertedColumn
  <2>2. cards' \in View /\ InColumn(cards', r.board, r.column) = S /\ Slots(cards', S)
    BY <1>2, <2>1, SameColumns DEF Renumbers, Into
  <2>3. cards'[r.card].position = SpotIn(S, r.card, r.index)
    BY <2>1 DEF SlotIn
  <2>4. Dense(cards', r.board, r.column)
    BY <2>2, SlotsAreDense
  <2>5. \/ cards'[r.card].position = r.index
        \/ /\ r.index >= Cardinality(S)
           /\ \A c \in S \ {r.card} : cards'[c].position < cards'[r.card].position
    <3> HIDE DEF S, r
    <3> QED BY <1>1, <1>2, <2>1, <2>2, <2>3, SpotReached
  <2> QED BY <1>3, <2>2, <2>4, <2>5
<1>4. CASE /\ r.op = "move" => r.ld.column # r.column
           /\ cards' = Compacted(r)
  <2>1. Renumbers(u, T, cards')
    BY <1>1, <1>4, CompactedColumn
  <2>2. cards' \in View /\ SamePlaces(u, cards') /\ Slots(cards', T)
    BY <2>1 DEF Renumbers
  <2>3. InColumn(cards', r.board, r.ld.column) = T
    BY <1>2, <2>2, SameColumns DEF From
  <2>4. Dense(cards', r.board, r.ld.column)
    BY <2>2, <2>3, SlotsAreDense
  <2>5. ASSUME r.op = "move"
        PROVE  /\ Dense(cards', r.board, r.column)
               /\ \/ cards'[r.card].position = r.index
                  \/ /\ r.index >= Cardinality(InColumn(cards', r.board, r.column))
                     /\ \A c \in InColumn(cards', r.board, r.column) \ {r.card} :
                          cards'[c].position < cards'[r.card].position
    <3>1. u = Inserted(r)
      BY <2>5 DEF Placing
    <3>2. /\ r.card \in S /\ Renumbers(v, S, u)
          /\ u[r.card].position = SlotIn(v, S, r.card, r.index, r.card)
      BY <1>1, <2>5, <3>1, InsertedColumn
    <3>3. InColumn(u, r.board, r.column) = S /\ InColumn(cards', r.board, r.column) = S
      BY <1>2, <2>2, SameColumns DEF Into
    <3>4. \A d \in S : d \in Cards /\ d \notin T
      BY <1>4, <2>5, <3>3 DEF From, InColumn, OnBoard
    <3>5. \A d \in S : cards'[d] = u[d]
      BY <2>1, <3>4 DEF Renumbers
    <3>6. Slots(cards', S)
      BY <3>2, <3>5 DEF Slots, Renumbers
    <3>7. cards'[r.card].position = SpotIn(S, r.card, r.index)
      BY <3>2, <3>5 DEF SlotIn
    <3>8. Dense(cards', r.board, r.column)
      BY <2>2, <3>3, <3>6, SlotsAreDense
    <3>9. \/ cards'[r.card].position = r.index
          \/ /\ r.index >= Cardinality(S)
             /\ \A c \in S \ {r.card} : cards'[c].position < cards'[r.card].position
      <4> HIDE DEF S, r
      <4> QED BY <1>1, <1>2, <2>2, <3>2, <3>6, <3>7, SpotReached
    <3> QED BY <3>3, <3>8, <3>9
  <2> QED BY <2>4, <2>5
<1> QED BY <1>3, <1>4, Committed

\* One user at a time: whatever positions the cards had, gaps and ties that earlier
\* requests left included, a move puts its card at the index it was asked for or at
\* the end, and the columns it or a removal renumbers are dense.
THEOREM ColumnsStayRenumbered == ASSUME OneUser PROVE Spec => ColumnsRenumbered
<1>1. AloneInv =>
        \A p \in Procs : Commit(p) =>
          LET r == req[p] IN
          /\ r.op = "move" =>
               /\ Dense(cards', r.board, r.column)
               /\ \/ cards'[r.card].position = r.index
                  \/ /\ r.index >= Cardinality(InColumn(cards', r.board, r.column))
                     /\ \A c \in InColumn(cards', r.board, r.column) \ {r.card} :
                          cards'[c].position < cards'[r.card].position
          /\ Dense(cards', r.board, r.ld.column)
  BY CommitRenumbers
<1>2. Spec => []AloneInv
  BY StaysAlone
<1> QED BY <1>1, <1>2, PTL DEF ColumnsRenumbered

-----------------------------------------------------------------------------
\* The lists of one user

\* The rows a column shows are positioned.
LEMMA CardsOfPositioned ==
  ASSUME NEW v \in View, NEW col
  PROVE  Positioned(v, CardsOf(v, col)) /\ CardsOf(v, col) \in SUBSET Cards
<1>1. CardsOf(v, col) \in SUBSET Cards /\ \A d \in CardsOf(v, col) : v[d] \notin Absent
  BY DEF CardsOf
<1> QED BY <1>1, ViewPositioned

\* The cards of a list are those of the set it is made from.
LEMMA OrderedRange ==
  ASSUME NEW v, NEW S, Positioned(v, S)
  PROVE  /\ DOMAIN Ordered(v, S) = 1..Cardinality(S)
         /\ \A c : c \in S <=> \E i \in DOMAIN Ordered(v, S) : Ordered(v, S)[i] = c
<1>1. DOMAIN Ordered(v, S) = 1..Cardinality(S)
  BY DEF Ordered
<1> QED BY <1>1, OrderedAt

\* A card is listed when a column shows it.
LEMMA ListedIs ==
  ASSUME TypeOK, NEW c
  PROVE  ShownLists!Listed(c) <=> \E col \in Columns : c \in CardsOf(cards, col)
<1>1. \A col \in Columns : Shown[col] = Ordered(cards, CardsOf(cards, col))
  BY DEF Shown
<1>2. \A col : Positioned(cards, CardsOf(cards, col))
  BY CardsOfPositioned DEF TypeOK, View
<1>3. \A col \in Columns : c \in CardsOf(cards, col) <=>
                             \E i \in DOMAIN Shown[col] : Shown[col][i] = c
  BY <1>1, <1>2, OrderedRange
<1> QED BY <1>3 DEF ShownLists!Listed, ShownLists!Range

\* Taking a card out of the lists.
LEMMA WithoutIs ==
  ASSUME TypeOK, NEW c
  PROVE  ShownLists!Without(c) = [col \in Columns |-> Ordered(cards, CardsOf(cards, col) \ {c})]
<1> SUFFICES ASSUME NEW col \in Columns
             PROVE  ShownLists!Without(c)[col] = Ordered(cards, CardsOf(cards, col) \ {c})
  BY DEF ShownLists!Without
<1> DEFINE S == CardsOf(cards, col)
           s == Ordered(cards, S)
<1>1. Shown[col] = s
  BY DEF Shown
<1>2. Positioned(cards, S)
  BY CardsOfPositioned DEF TypeOK, View
<1>3. c \in S <=> \E i \in DOMAIN s : s[i] = c
  BY <1>2, OrderedRange
<1> HIDE DEF s, S
<1>4. CASE c \in S
  <2> DEFINE k == CHOOSE i \in DOMAIN s : s[i] = c
  <2>1. k \in DOMAIN s /\ s[k] = c
    BY <1>3, <1>4
  <2>2. ShownLists!Without(c)[col] = ShownLists!RemoveAt(s, k)
    BY <1>1, <1>3, <1>4 DEF ShownLists!Without, ShownLists!Place, ShownLists!Range
  <2> HIDE DEF k
  <2>3. ShownLists!RemoveAt(s, k) = Shorter(s, k)
    BY DEF ShownLists!RemoveAt, Shorter
  <2>4. Ordered(cards, S \ {c}) = Shorter(s, k)
    BY <1>2, <1>4, <2>1, OrderedWithout DEF s
  <2> QED BY <2>2, <2>3, <2>4 DEF S
<1>5. CASE c \notin S
  <2>1. S \ {c} = S
    BY <1>5
  <2>2. ShownLists!Without(c)[col] = s
    BY <1>1, <1>3, <1>5 DEF ShownLists!Without, ShownLists!Range
  <2> QED BY <2>1, <2>2 DEF s, S
<1> QED BY <1>4, <1>5

\* The same rows are in the same order.
LEMMA SameRows ==
  ASSUME NEW v \in View, NEW w \in View, NEW S \in SUBSET Cards, \A d \in S : v[d] \notin Absent,
         \A d \in S : w[d] = v[d]
  PROVE  Ordered(w, S) = Ordered(v, S) /\ \A d \in S : Rank(w, S, d) = Rank(v, S, d)
<1>1. \A d, e \in S : Before(w, d, e) <=> Before(v, d, e)
  BY DEF Before
<1>2. Positioned(v, S) /\ Positioned(w, S)
  BY ViewPositioned DEF Positioned
<1> QED BY <1>1, <1>2, SameOrder, SameRanks

\* Cards that get their ranks keep their order.
LEMMA RankedOrder ==
  ASSUME NEW v \in View, NEW w \in View, NEW S \in SUBSET Cards, \A d \in S : v[d] \notin Absent,
         \A d \in S : w[d].position = Rank(v, S, d)
  PROVE  Ordered(w, S) = Ordered(v, S)
<1>1. Positioned(v, S)
  BY ViewPositioned
<1>2. Positioned(w, S)
  BY RankType DEF Positioned
<1>3. ASSUME NEW d \in S, NEW e \in S PROVE Before(w, d, e) <=> Before(v, d, e)
  <2>1. w[d].position = Rank(v, S, d) /\ w[e].position = Rank(v, S, e)
    OBVIOUS
  <2>2. Rank(v, S, d) \in Nat /\ Rank(v, S, e) \in Nat
    BY RankType
  <2>3. CASE d = e
    BY <1>1, <1>2, <2>3, BeforeOrders
  <2>4. CASE Before(v, d, e)
    <3>1. Rank(v, S, d) < Rank(v, S, e)
      BY <1>1, <2>4, RankFollows
    <3> QED BY <2>1, <2>2, <2>4, <3>1 DEF Before
  <2>5. CASE Before(v, e, d)
    <3>1. Rank(v, S, e) < Rank(v, S, d) /\ ~Before(v, d, e)
      BY <1>1, <2>5, RankFollows, BeforeOrders
    <3>2. ~Before(w, d, e)
      BY <2>1, <2>2, <3>1 DEF Before
    <3> QED BY <3>1, <3>2
  <2> QED BY <1>1, <2>3, <2>4, <2>5, BeforeOrders
<1> QED BY <1>1, <1>2, <1>3, SameOrder

\* The columns of the boards show the cards that are on them.
LEMMA ColumnOfBoard ==
  ASSUME TypeOK, PlacementConsistent, NEW col \in Columns
  PROVE  /\ InColumn(cards, BoardOf[col], col) = CardsOf(cards, col)
         /\ \A d \in CardsOf(cards, col) : cards[d] \in Rows /\ cards[d].board = BoardOf[col]
<1>1. ASSUME NEW d \in CardsOf(cards, col)
      PROVE  cards[d] \in Rows /\ cards[d].board = BoardOf[col]
  BY OffAssumption DEF TypeOK, CardsOf, PlacementConsistent, Consistent
<1> QED BY <1>1 DEF InColumn, OnBoard, CardsOf

\* The card a request moves or takes out is gone from every other column.
LEMMA MovedColumns ==
  ASSUME AloneInv, NEW p \in Procs, ~At(p, "idle"), req[p].op \in {"move", "remove"},
         NEW col \in Columns
  PROVE  /\ CardsOf(Moved(req[p]), col) =
              IF req[p].op = "move" /\ col = req[p].column
              THEN (CardsOf(cards, col) \ {req[p].card}) \cup {req[p].card}
              ELSE CardsOf(cards, col) \ {req[p].card}
         /\ \A d \in CardsOf(cards, col) \ {req[p].card} : Moved(req[p])[d] = cards[d]
         /\ BoardOf[col] = req[p].board =>
              InColumn(Moved(req[p]), req[p].board, col) = CardsOf(Moved(req[p]), col)
<1> DEFINE r == req[p]
           c == r.card
           v == Moved(r)
<1>1. /\ c \in Cards /\ v[c] = Target(r) /\ Target(r) \notin Absent
      /\ r.op = "move" => Target(r).board = r.board /\ Target(r).column = r.column
      /\ r.op = "remove" => Target(r).board = Off /\ Target(r).column = Off
      /\ \A d \in Cards \ {c} : v[d] = cards[d]
      /\ TypeOK /\ PlacementConsistent
  <2>1. r.op = "remove" => Target(r).board = Off /\ Target(r).column = Off
    BY DEF Target, OffBoard
  <2> QED BY <2>1, MovedView, LoadedRow DEF AloneInv, PlacementInv
<1>2. col # Off
  BY OffAssumption
<1> HIDE DEF r, c, v
<1>3. \A d \in Cards : d \in CardsOf(v, col) <=>
        IF d = c THEN r.op = "move" /\ col = r.column ELSE d \in CardsOf(cards, col)
  BY <1>1, <1>2 DEF CardsOf, r
<1>4. CardsOf(v, col) = IF r.op = "move" /\ col = r.column
                        THEN (CardsOf(cards, col) \ {c}) \cup {c}
                        ELSE CardsOf(cards, col) \ {c}
  <2>1. CardsOf(v, col) \subseteq Cards /\ CardsOf(cards, col) \subseteq Cards
    BY DEF CardsOf
  <2> QED BY <1>1, <1>3, <2>1
<1>5. \A d \in CardsOf(cards, col) \ {c} : v[d] = cards[d]
  BY <1>1 DEF CardsOf
<1>6. ASSUME BoardOf[col] = r.board PROVE InColumn(v, r.board, col) = CardsOf(v, col)
  <2>1. \A d \in CardsOf(v, col) : v[d] \notin Absent /\ v[d].board = r.board
    <3> SUFFICES ASSUME NEW d \in CardsOf(v, col)
                 PROVE  v[d] \notin Absent /\ v[d].board = r.board
      OBVIOUS
    <3>1. d \in Cards /\ v[d] \notin Absent
      BY DEF CardsOf
    <3>2. CASE d = c
      BY <1>1, <1>3, <3>1, <3>2 DEF r
    <3>3. CASE d # c
      BY <1>1, <1>3, <1>6, <3>1, <3>3, ColumnOfBoard
    <3> QED BY <3>2, <3>3
  <2> QED BY <2>1 DEF InColumn, OnBoard, CardsOf
<1> QED BY <1>4, <1>5, <1>6 DEF r, c, v

\* The column a card was in is a column of the board it was loaded from.
LEMMA LoadedColumn ==
  ASSUME AloneInv, NEW p \in Procs, ~At(p, "idle"), req[p].op \in {"move", "remove"}
  PROVE  /\ req[p].ld.column \in Columns /\ BoardOf[req[p].ld.column] = req[p].board
         /\ req[p].card \in CardsOf(cards, req[p].ld.column)
<1>1. /\ req[p].ld.column \in Columns /\ req[p].ld.board = req[p].board
      /\ req[p].card \in Cards /\ cards[req[p].card] = req[p].ld /\ req[p].ld \notin Absent
  BY Working, LoadedRow DEF RequestAgrees
<1>2. req[p].card \in CardsOf(cards, req[p].ld.column)
  BY <1>1 DEF CardsOf
<1> QED BY <1>1, <1>2, ColumnOfBoard DEF AloneInv, PlacementInv

\* Every other column keeps its cards in their order.
LEMMA OtherLists ==
  ASSUME AloneInv, NEW p \in Procs, Commit(p), NEW col \in Columns,
         ~(req[p].op = "move" /\ col = req[p].column)
  PROVE  Ordered(cards', CardsOf(cards', col)) = Ordered(cards, CardsOf(cards, col) \ {req[p].card})
<1> DEFINE r == req[p]
           v == Moved(r)
           u == Placing(r)
           R == CardsOf(cards, col) \ {r.card}
<1>1. ~At(p, "idle") /\ r \in Requests /\ r.op \in {"move", "remove"} /\ TypeOK
  BY Committed DEF AloneInv
<1>2. /\ v \in View /\ u \in View /\ SamePlaces(v, u) /\ cards \in View
  BY <1>1, MovedView, PlacingView DEF TypeOK, View
<1>3. /\ CardsOf(v, col) = R /\ \A d \in R : v[d] = cards[d]
      /\ BoardOf[col] = r.board => InColumn(v, r.board, col) = R
  BY <1>1, MovedColumns
<1>4. CardsOf(u, col) = R
  BY <1>2, <1>3, SameColumns
<1>5. R \in SUBSET Cards /\ \A d \in R : cards[d] \notin Absent /\ u[d].column = col
  BY <1>2, <1>4, CardsOfPositioned DEF CardsOf
<1>6. \A d \in R : u[d] = cards[d]
  <2>1. CASE r.op = "move"
    <3>1. u = Inserted(r) /\ Renumbers(v, Into(r), u)
      BY <1>1, <2>1, InsertedColumn DEF Placing
    <3>2. \A d \in R : d \in Cards /\ d \notin Into(r)
      BY <1>3, <2>1 DEF Into, InColumn, OnBoard, CardsOf
    <3> QED BY <1>3, <3>1, <3>2 DEF Renumbers
  <2>2. CASE r.op # "move"
    BY <1>3, <2>2 DEF Placing
  <2> QED BY <2>1, <2>2
<1>7. CASE r.op = "move" /\ cards' = Inserted(r)
  <2>1. cards' = u
    BY <1>7 DEF Placing
  <2> HIDE DEF u, R
  <2>2. Ordered(u, R) = Ordered(cards, R)
    BY <1>2, <1>5, <1>6, SameRows
  <2> QED BY <1>4, <2>1, <2>2 DEF R
<1>8. CASE cards' = Compacted(r)
  <2> DEFINE T == From(r)
             w == cards'
  <2>1. Renumbers(u, T, w) /\ \A d \in T : w[d].position = Rank(u, T, d)
    BY <1>1, <1>8, CompactedColumn
  <2>2. w \in View /\ CardsOf(w, col) = R
    BY <1>2, <1>4, <2>1, SameColumns DEF Renumbers
  <2>3. CASE col = r.ld.column
    <3>1. T = R
      <4>1. InColumn(v, r.board, col) = R
        BY <1>1, <1>3, <2>3, LoadedColumn
      <4>2. InColumn(u, r.board, col) = InColumn(v, r.board, col)
        BY <1>2, SameColumns
      <4> QED BY <2>3, <4>1, <4>2 DEF From
    <3> HIDE DEF u, R, T, w
    <3>2. \A d \in R : Rank(u, R, d) = Rank(cards, R, d)
      BY <1>2, <1>5, <1>6, SameRows
    <3>3. \A d \in R : w[d].position = Rank(cards, R, d)
      BY <2>1, <3>1, <3>2
    <3>4. Ordered(w, R) = Ordered(cards, R)
      BY <1>2, <1>5, <2>2, <3>3, RankedOrder
    <3> QED BY <2>2, <3>4 DEF R, w
  <2>4. CASE col # r.ld.column
    <3>1. \A d \in R : d \notin T
      BY <1>5, <2>4 DEF From, InColumn, OnBoard
    <3>2. \A d \in R : w[d] = cards[d]
      BY <1>5, <1>6, <2>1, <3>1 DEF Renumbers
    <3> HIDE DEF u, R, T, w
    <3>3. Ordered(w, R) = Ordered(cards, R)
      BY <1>2, <1>5, <2>2, <3>2, SameRows
    <3> QED BY <2>2, <3>3 DEF R, w
  <2> QED BY <2>3, <2>4
<1> QED BY <1>7, <1>8, Committed

\* The column a card is moved to keeps the others in their order around it.
LEMMA TargetList ==
  ASSUME AloneInv, NEW p \in Procs, Commit(p), req[p].op = "move"
  PROVE  \E i \in 0..Cardinality(CardsOf(cards, req[p].column) \ {req[p].card}) :
           Ordered(cards', CardsOf(cards', req[p].column)) =
             Longer(Ordered(cards, CardsOf(cards, req[p].column) \ {req[p].card}), i, req[p].card)
<1> DEFINE r == req[p]
           c == r.card
           l == r.column
           v == Moved(r)
           u == Inserted(r)
           w == cards'
           R == CardsOf(cards, l) \ {c}
           S == Into(r)
           i == SpotIn(S, c, r.index)
<1>1. /\ ~At(p, "idle") /\ r \in Requests /\ RequestAgrees(r) /\ TypeOK
      /\ l \in Columns /\ BoardOf[l] = r.board /\ r.index \in Nat /\ c \in Cards
  <2>1. ~At(p, "idle") /\ r \in Requests
    BY Committed
  <2> QED BY <2>1, Working DEF AloneInv, RequestAgrees, Requests
<1>2. v \in View /\ cards \in View
  BY <1>1, MovedView DEF TypeOK, View
<1>3. S = R \cup {c} /\ CardsOf(v, l) = S /\ \A d \in R : v[d] = cards[d]
  BY <1>1, MovedColumns DEF Into
<1>4. Renumbers(v, S, u) /\ \A d \in S : u[d].position = SlotIn(v, S, c, r.index, d)
  BY <1>1, InsertedColumn
<1>5. w \in View /\ CardsOf(w, l) = S /\ \A d \in S : w[d] = u[d]
  <2>1. u \in View /\ SamePlaces(v, u) /\ CardsOf(u, l) = S
    BY <1>2, <1>3, <1>4, SameColumns DEF Renumbers
  <2>2. CASE w = u
    BY <2>1, <2>2
  <2>3. CASE w = Compacted(r) /\ r.ld.column # l
    <3>1. Placing(r) = u
      BY DEF Placing
    <3>2. Renumbers(u, From(r), w)
      BY <1>1, <2>3, <3>1, CompactedColumn
    <3>3. w \in View /\ CardsOf(w, l) = S
      BY <2>1, <3>2, SameColumns DEF Renumbers
    <3>4. \A d \in S : d \in Cards /\ d \notin From(r)
      BY <2>1, <2>3, <3>1 DEF From, InColumn, OnBoard, CardsOf
    <3> QED BY <3>2, <3>3, <3>4 DEF Renumbers
  <2> QED BY <2>2, <2>3, Committed
<1>6. S \in SUBSET Cards /\ c \in S /\ c \notin R /\ R = S \ {c}
  BY <1>1, <1>3 DEF CardsOf
<1>7. R \in SUBSET Cards /\ \A d \in R : cards[d] \notin Absent
  BY DEF CardsOf
<1> HIDE DEF S, R, u, v
<1>8. /\ Slots(w, S)
      /\ w[c].position = i
      /\ \A d \in R : w[d].position = IF Rank(v, R, d) < i THEN Rank(v, R, d) ELSE Rank(v, R, d) + 1
  <2>1. \A d \in S : w[d].position = SlotIn(v, S, c, r.index, d)
    BY <1>4, <1>5
  <2>2. Slots(w, S)
    BY <1>4, <1>5 DEF Slots, Renumbers
  <2> QED BY <1>6, <2>1, <2>2 DEF SlotIn
<1>9. \A d \in R : Rank(v, R, d) = Rank(cards, R, d)
  BY <1>2, <1>3, <1>7, SameRows
<1>10. Positioned(cards, R) /\ Positioned(w, S) /\ \A d \in S : Rank(w, S, d) = w[d].position
  <2>1. Positioned(cards, R)
    BY <1>2, <1>7, ViewPositioned
  <2> HIDE DEF w
  <2>2. Positioned(w, S) /\ \A d \in S : Rank(w, S, d) = w[d].position
    BY <1>6, <1>8, SlotsAreRanks
  <2> QED BY <2>1, <2>2
<1>11. i \in 0..Cardinality(R)
  <2>1. Cardinality(R) \in Nat
    BY <1>10, PositionedFinite
  <2> QED BY <1>1, <1>6, <2>1 DEF SpotIn
<1> DEFINE s == Ordered(cards, R)
<1>12. Ordered(w, S) = Longer(s, i, c)
  <2>1. /\ \A d : d \in S <=> d \in R \/ d = c
        /\ c \notin R /\ c \in Cards /\ Rank(w, S, c) = i
        /\ \A d \in R : Rank(w, S, d) = IF Rank(cards, R, d) < i THEN Rank(cards, R, d)
                                        ELSE Rank(cards, R, d) + 1
    BY <1>1, <1>3, <1>6, <1>8, <1>9, <1>10
  <2> HIDE DEF w, i, c
  <2> QED BY <1>10, <1>11, <2>1, OrderedWith
<1> QED BY <1>5, <1>11, <1>12 DEF R

\* The next position is behind every card of the column.
LEMMA NextIsBehind ==
  ASSUME NEW v \in View, NEW b, NEW col
  PROVE  \A d \in InColumn(v, b, col) : v[d].position < NextPosition(v, b, col)
<1> DEFINE S == InColumn(v, b, col)
           taken == {v[d].position : d \in S}
           n == Cardinality(S) - 1
<1> SUFFICES ASSUME NEW c \in S PROVE v[c].position < NextPosition(v, b, col)
  OBVIOUS
<1>1. Positioned(v, S)
  BY ColumnCards
<1>2. taken # {} /\ taken \subseteq Nat
  BY <1>1 DEF Positioned
<1>3. NextPosition(v, b, col) = 1 + (CHOOSE i \in taken : \A j \in taken : j <= i)
  BY <1>2 DEF NextPosition
<1> HIDE DEF S
<1>4. \E d \in S : \A e \in S : v[e].position <= v[d].position
  <2>1. n \in 0..n /\ \A e \in S : Rank(v, S, e) <= n /\ Rank(v, S, e) \in Nat
    <3>1. Cardinality(S) \in Nat /\ \A e \in S : Rank(v, S, e) \in Nat /\ Rank(v, S, e) < Cardinality(S)
      BY <1>1, PositionedFinite, RankFollows
    <3> QED BY <3>1
  <2> HIDE DEF n
  <2>2. PICK d \in S : Rank(v, S, d) = n
    BY <1>1, <2>1, RankOnto DEF n
  <2>3. ASSUME NEW e \in S PROVE v[e].position <= v[d].position
    <3>1. ~Before(v, d, e)
      BY <1>1, <2>1, <2>2, RankFollows
    <3>2. v[d].position \in Nat /\ v[e].position \in Nat
      BY <1>1 DEF Positioned
    <3> QED BY <3>1, <3>2 DEF Before
  <2> QED BY <2>3
<1>5. \E i \in taken : \A j \in taken : j <= i
  BY <1>4
<1> DEFINE m == CHOOSE i \in taken : \A j \in taken : j <= i
<1>6. m \in taken /\ \A j \in taken : j <= m
  BY <1>5
<1>7. v[c].position \in taken
  OBVIOUS
<1>8. NextPosition(v, b, col) = 1 + m
  BY <1>3
<1> HIDE DEF m, taken
<1>9. v[c].position <= m /\ v[c].position \in Nat /\ m \in Nat
  BY <1>2, <1>6, <1>7
<1> QED BY <1>8, <1>9

\* A sequence with one more element at its end.
LEMMA LongerAtEnd ==
  ASSUME NEW S, NEW s \in Seq(S), NEW c \in S, NEW i \in 0..Len(s), i >= Len(s)
  PROVE  Longer(s, i, c) = Append(s, c)
<1>a. /\ Longer(s, i, c) \in Seq(S) /\ Len(Longer(s, i, c)) = Len(s) + 1
      /\ \A j \in 1..Len(s) + 1 :
           Longer(s, i, c)[j] = IF j <= i THEN s[j] ELSE IF j = i + 1 THEN c ELSE s[j - 1]
  <2>1. \A k \in 0..Len(s) :
          /\ Longer(s, k, c) \in Seq(S) /\ Len(Longer(s, k, c)) = Len(s) + 1
          /\ \A j \in 1..Len(s) + 1 :
               Longer(s, k, c)[j] = IF j <= k THEN s[j] ELSE IF j = k + 1 THEN c ELSE s[j - 1]
    <3>1. s \in Seq(S) /\ c \in S
      OBVIOUS
    <3> QED BY ONLY <3>1, Lengthened
  <2> QED BY <2>1
<1> DEFINE t == Longer(s, i, c)
           a == Append(s, c)
<1>1. /\ t \in Seq(S) /\ Len(t) = Len(s) + 1
      /\ \A j \in 1..Len(s) + 1 :
           t[j] = IF j <= i THEN s[j] ELSE IF j = i + 1 THEN c ELSE s[j - 1]
  BY <1>a
<1>2. a \in Seq(S) /\ Len(a) = Len(s) + 1 /\ a[Len(s) + 1] = c /\ \A j \in 1..Len(s) : a[j] = s[j]
  BY AppendProperties
<1>3. Len(s) \in Nat
  OBVIOUS
<1> HIDE DEF t, a
<1>4. \A j \in 1..Len(t) : t[j] = a[j]
  BY <1>1, <1>2, <1>3
<1>5. t = a
  BY <1>1, <1>2, <1>4, SeqEqual
<1> QED BY <1>5 DEF t, a

\* A card with a position behind all others is the last of its column.
LEMMA AddedAtEnd ==
  ASSUME NEW v \in View, NEW w \in View, NEW S \in SUBSET Cards, \A d \in S : v[d] \notin Absent,
         NEW c \in Cards, c \notin S, w[c] \notin Absent,
         \A d \in S : w[d] = v[d] /\ v[d].position < w[c].position,
         NEW T, \A d : d \in T <=> d \in S \/ d = c
  PROVE  Ordered(w, T) = Append(Ordered(v, S), c)
<1>1. Positioned(v, S)
  BY ViewPositioned
<1>2. Positioned(w, T)
  BY ViewPositioned DEF Positioned
<1>3. ~Before(w, c, c) /\ \A d \in S : Before(w, d, c) /\ ~Before(w, c, d)
  <2>1. c \in T /\ \A d \in S : d \in T
    OBVIOUS
  <2>2. \A d \in S : Before(w, d, c)
    BY DEF Before
  <2> QED BY <1>2, <2>1, <2>2, BeforeOrders
<1>4. Rank(w, T, c) = Cardinality(S)
  <2>1. {d \in T : Before(w, d, c)} = S
    BY <1>3
  <2> QED BY <2>1 DEF Rank
<1>5. ASSUME NEW d \in S PROVE Rank(w, T, d) = Rank(v, S, d) /\ Rank(v, S, d) < Cardinality(S)
  <2>1. {e \in T : Before(w, e, d)} = {e \in S : Before(v, e, d)}
    BY <1>3 DEF Before
  <2> QED BY <1>1, <2>1, RankFollows DEF Rank
<1> DEFINE s == Ordered(v, S)
           n == Cardinality(S)
<1>6. n \in Nat /\ s \in Seq(S) /\ Len(s) = n
  BY <1>1, OrderedAt, PositionedFinite
<1>7. n \in 0..n
  BY <1>6
<1>8. \A d \in S : Rank(w, T, d) = IF Rank(v, S, d) < n THEN Rank(v, S, d) ELSE Rank(v, S, d) + 1
  BY <1>5
<1>9. Ordered(w, T) = Longer(s, n, c)
  <2> HIDE DEF n
  <2> QED BY <1>1, <1>2, <1>4, <1>7, <1>8, OrderedWith DEF n
<1>10. s \in Seq(T) /\ c \in T /\ n \in 0..Len(s) /\ n >= Len(s)
  BY <1>6, SeqMonotonic
<1> HIDE DEF s, n
<1>11. Longer(s, n, c) = Append(s, c)
  BY <1>10, LongerAtEnd
<1> QED BY <1>9, <1>11 DEF s

\* What a new card's request writes.
LEMMA AddedRow ==
  ASSUME AloneInv, NEW p \in Procs, Put(p) \/ Insert(p)
  PROVE  /\ req[p].card \in Cards /\ req[p].column \in Columns
         /\ Placed(req[p]) \in Rows /\ cards' = [cards EXCEPT ![req[p].card] = Placed(req[p])]
         /\ \A col \in Columns : req[p].card \notin CardsOf(cards, col)
         /\ \A d \in CardsOf(cards, req[p].column) : cards[d].position < Placed(req[p]).position
<1> DEFINE r == req[p]
           c == r.card
<1>1. /\ ~At(p, "idle") /\ r \in Requests /\ RequestAgrees(r) /\ RequestAlone(p) /\ TypeOK
      /\ r.pc \in {"put", "insert"} /\ r.op \in {"add", "create"}
  <2>1. r.pc \in {"put", "insert"}
    BY DEF Put, Insert, At
  <2>2. ~At(p, "idle")
    BY <2>1 DEF At
  <2> QED BY <2>1, <2>2, Working DEF AloneInv, RequestAgrees, StepsOf
<1>2. /\ c \in Cards /\ r.column \in Columns /\ BoardOf[r.column] = r.board /\ r.board \in boards
      /\ r.index = NextPosition(cards, r.board, r.column)
  BY <1>1 DEF Requests, RequestAgrees, RequestAlone
<1>3. Placed(r) \in Rows /\ Placed(r).position = r.index
  BY <1>1, <1>2 DEF Placed, Rows, Requests
<1>6. \A d \in CardsOf(cards, r.column) : cards[d].position < r.index
  <2>1. InColumn(cards, r.board, r.column) = CardsOf(cards, r.column)
    BY <1>2, ColumnOfBoard DEF AloneInv, PlacementInv
  <2>2. cards \in View
    BY <1>1 DEF TypeOK, View
  <2>3. \A d \in InColumn(cards, r.board, r.column) :
          cards[d].position < NextPosition(cards, r.board, r.column)
    BY <2>2, NextIsBehind
  <2> QED BY <1>2, <2>1, <2>3
<1>4. CASE Put(p)
  <2>1. r.op = "add" /\ cards[c] = r.ld /\ r.ld \in Rows /\ r.ld \notin Absent /\ r.ld.column = Off
    BY <1>1, <1>4, LoadedRow DEF Put, At, RequestAgrees, StepsOf
  <2>2. Differing(r.ld, r.ld, Placed(r)) = Placed(r)
    BY <1>3, <2>1, DifferingAll
  <2>3. cards' = [cards EXCEPT ![c] = Placed(r)]
    BY <1>1, <1>2, <1>4, <2>1, <2>2 DEF Put
  <2>4. \A col \in Columns : c \notin CardsOf(cards, col)
    BY <2>1, OffAssumption DEF CardsOf
  <2> QED BY <1>2, <1>3, <1>6, <2>3, <2>4
<1>5. CASE Insert(p)
  <2>1. r.op = "create" /\ cards[c] = NotYet
    BY <1>1, <1>5 DEF Insert, At, RequestAgrees, StepsOf, RequestAlone
  <2>2. cards' = [cards EXCEPT ![c] = Placed(r)]
    BY <1>2, <1>5 DEF Insert
  <2>3. \A col \in Columns : c \notin CardsOf(cards, col)
    BY <2>1 DEF CardsOf, Absent
  <2> QED BY <1>2, <1>3, <1>6, <2>2, <2>3
<1> QED BY <1>4, <1>5

\* A card is added at the end of its column.
LEMMA AddStep ==
  ASSUME AloneInv, NEW p \in Procs, Put(p) \/ Insert(p)
  PROVE  ShownLists!AddAtEnd(req[p].card, req[p].column)
<1> DEFINE r == req[p]
           c == r.card
           l == r.column
           w == cards'
           row == Placed(r)
<1>1. /\ c \in Cards /\ l \in Columns /\ row \in Rows /\ w = [cards EXCEPT ![c] = row]
      /\ \A col \in Columns : c \notin CardsOf(cards, col)
      /\ \A d \in CardsOf(cards, l) : cards[d].position < row.position
  BY AddedRow
<1>2. cards \in View /\ TypeOK /\ row \notin Absent /\ row.column = l
  BY <1>1, AbsentAssumption DEF AloneInv, TypeOK, View, Placed
<1> HIDE DEF r, c, l, row
<1>3. w \in View /\ w[c] = row /\ \A d \in Cards : d # c => w[d] = cards[d]
  BY <1>1, <1>2 DEF View
<1> HIDE DEF w
<1>4. ASSUME NEW col \in Columns
      PROVE  Ordered(w, CardsOf(w, col)) = IF col = l THEN Append(Ordered(cards, CardsOf(cards, col)), c)
                                           ELSE Ordered(cards, CardsOf(cards, col))
  <2> DEFINE S == CardsOf(cards, col)
             T == CardsOf(w, col)
  <2>1. S \in SUBSET Cards /\ c \notin S /\ \A d \in S : cards[d] \notin Absent /\ w[d] = cards[d]
    BY <1>1, <1>3 DEF CardsOf
  <2>2. CASE col = l
    <3>1. \A d : d \in T <=> d \in S \/ d = c
      BY <1>1, <1>2, <1>3, <2>2 DEF CardsOf
    <3>2. w[c] \notin Absent /\ \A d \in S : w[d] = cards[d] /\ cards[d].position < w[c].position
      BY <1>1, <1>2, <1>3, <2>1, <2>2
    <3> HIDE DEF S, T
    <3>3. Ordered(w, T) = Append(Ordered(cards, S), c)
      <4>1. /\ cards \in View /\ w \in View /\ S \in SUBSET Cards /\ c \in Cards /\ c \notin S
            /\ \A d \in S : cards[d] \notin Absent
        BY <1>1, <1>2, <1>3, <2>1
      <4> QED BY ONLY <4>1, <3>1, <3>2, AddedAtEnd
    <3> QED BY <2>2, <3>3 DEF S, T
  <2>3. CASE col # l
    <3>1. T = S
      BY <1>1, <1>2, <1>3, <2>1, <2>3 DEF CardsOf
    <3> HIDE DEF S, T
    <3>2. Ordered(w, S) = Ordered(cards, S)
      BY <1>2, <1>3, <2>1, SameRows
    <3> QED BY <2>3, <3>1, <3>2 DEF S, T
  <2> QED BY <2>2, <2>3
<1>5. Shown' = [Shown EXCEPT ![l] = Append(@, c)]
  BY <1>1, <1>4 DEF Shown, w
<1>6. ~ShownLists!Listed(c)
  BY <1>1, <1>2, ListedIs
<1> QED BY <1>5, <1>6 DEF ShownLists!AddAtEnd, c, l, r

\* A move puts its card into the list of its column, a removal takes it out.
LEMMA CommitStep ==
  ASSUME AloneInv, NEW p \in Procs, Commit(p)
  PROVE  \/ ShownLists!TakeOut(req[p].card)
         \/ /\ req[p].column \in Columns
            /\ \E i \in 0..Len(Shown[req[p].column]) :
                 ShownLists!Move(req[p].card, req[p].column, i)
<1> DEFINE r == req[p]
           c == r.card
           l == r.column
           R(col) == CardsOf(cards, col) \ {c}
           s(col) == Ordered(cards, R(col))
<1>1. ~At(p, "idle") /\ RequestAgrees(r) /\ r.op \in {"move", "remove"} /\ TypeOK
  BY Committed, Working DEF AloneInv
<1>2. ShownLists!Listed(c) /\ ShownLists!Without(c) = [col \in Columns |-> s(col)]
  BY <1>1, LoadedColumn, ListedIs, WithoutIs
<1>3. \A col \in Columns : ~(r.op = "move" /\ col = l) => Shown'[col] = s(col)
  BY OtherLists DEF Shown
<1>4. CASE r.op = "remove"
  <2>1. Shown' = [col \in Columns |-> s(col)]
    BY <1>3, <1>4 DEF Shown
  <2> QED BY <1>2, <2>1 DEF ShownLists!TakeOut
<1>5. CASE r.op = "move"
  <2>1. l \in Columns
    BY <1>1, <1>5 DEF RequestAgrees
  <2>2. PICK i \in 0..Cardinality(R(l)) : Shown'[l] = Longer(s(l), i, c)
    <3>1. Shown'[l] = Ordered(cards', CardsOf(cards', l))
      BY <2>1 DEF Shown
    <3> QED BY <1>5, <3>1, TargetList
  <2>3. /\ Len(s(l)) = Cardinality(R(l)) /\ Cardinality(R(l)) \in Nat
        /\ Len(Shown[l]) = Cardinality(CardsOf(cards, l)) /\ Cardinality(CardsOf(cards, l)) \in Nat
        /\ Cardinality(R(l)) <= Cardinality(CardsOf(cards, l))
    <3>1. Positioned(cards, CardsOf(cards, l)) /\ Positioned(cards, R(l))
      BY <1>1, CardsOfPositioned DEF TypeOK, View, Positioned
    <3>2. Cardinality(R(l)) <= Cardinality(CardsOf(cards, l))
      BY <3>1, PositionedFinite, FS_Subset
    <3>3. Shown[l] = Ordered(cards, CardsOf(cards, l))
      BY <2>1 DEF Shown
    <3> QED BY <3>1, <3>2, <3>3, OrderedAt, PositionedFinite
  <2> HIDE DEF R, s
  <2>4. ShownLists!InsertAt(s(l), i + 1, c) = Longer(s(l), i, c)
    <3> DEFINE k == i + 1
               t == s(l)
    <3>1. k - 1 = i /\ k = i + 1
      BY <2>3
    <3> HIDE DEF k, t
    <3>2. ShownLists!InsertAt(t, k, c) = SubSeq(t, 1, k - 1) \o <<c>> \o SubSeq(t, k, Len(t))
      BY Zenon DEF ShownLists!InsertAt
    <3>3. ShownLists!InsertAt(t, k, c) = SubSeq(t, 1, i) \o <<c>> \o SubSeq(t, i + 1, Len(t))
      BY <3>1, <3>2, Zenon
    <3> QED BY <3>3, Zenon DEF Longer, t, k
  <2>5. i \in 0..Len(Shown[l]) /\ i \in 0..Len(s(l))
    BY <2>3
  <2>6. Shown' = [ShownLists!Without(c) EXCEPT ![l] = ShownLists!InsertAt(@, i + 1, c)]
    <3>1. Shown' = [col \in Columns |-> Shown'[col]]
      BY DEF Shown
    <3>2. \A col \in Columns : Shown'[col] = IF col = l THEN Longer(s(l), i, c) ELSE s(col)
      BY <1>3, <2>2
    <3> QED BY <1>2, <2>1, <2>4, <3>1, <3>2
  <2>7. ShownLists!Without(c)[l] = s(l)
    BY <1>2, <2>1
  <2> QED BY <1>2, <2>1, <2>5, <2>6, <2>7 DEF ShownLists!Move
<1> QED BY <1>1, <1>4, <1>5

\* A deleted memo is taken out of its column.
LEMMA DestroyMemoStep ==
  ASSUME TypeOK, NEW p, NEW c \in Cards, DestroyMemo(p, c)
  PROVE  ShownLists!TakeOut(c) \/ UNCHANGED Shown
<1> DEFINE w == cards'
<1>1. cards \in View /\ w \in View /\ w[c] = Deleted /\ \A d \in Cards : d # c => w[d] = cards[d]
  BY DEF DestroyMemo, TypeOK, View, Absent
<1> HIDE DEF w
<1>2. ASSUME NEW col \in Columns
      PROVE  Ordered(w, CardsOf(w, col)) = Ordered(cards, CardsOf(cards, col) \ {c})
  <2> DEFINE R == CardsOf(cards, col) \ {c}
  <2>1. CardsOf(w, col) = R
    BY <1>1 DEF CardsOf, Absent
  <2>2. R \in SUBSET Cards /\ \A d \in R : cards[d] \notin Absent /\ w[d] = cards[d]
    BY <1>1 DEF CardsOf
  <2> HIDE DEF R
  <2>3. Ordered(w, R) = Ordered(cards, R)
    BY <1>1, <2>2, SameRows
  <2> QED BY <2>1, <2>3 DEF R
<1>3. Shown' = ShownLists!Without(c)
  BY <1>2, WithoutIs DEF Shown, w
<1>4. CASE ShownLists!Listed(c)
  BY <1>3, <1>4 DEF ShownLists!TakeOut
<1>5. CASE ~ShownLists!Listed(c)
  <2>1. \A col \in Columns : CardsOf(cards, col) \ {c} = CardsOf(cards, col)
    BY <1>5, ListedIs
  <2> QED BY <1>3, <2>1, WithoutIs DEF Shown
<1> QED BY <1>4, <1>5

\* A board that is deleted takes its columns along.
LEMMA DestroyBoardStep ==
  ASSUME TypeOK, PlacementConsistent, NEW p, NEW b \in Boards, DestroyBoard(p, b)
  PROVE  ShownLists!Drop({col \in Columns : BoardOf[col] = b})
<1> DEFINE w == cards'
<1>1. /\ cards \in View
      /\ w = [c \in Cards |-> IF c \in OnBoard(cards, b)
                              THEN [cards[c] EXCEPT !.board = Off, !.column = Off] ELSE cards[c]]
  BY DEF DestroyBoard, TypeOK, View
<1> HIDE DEF w
<1>2. \A c \in Cards : IF c \in OnBoard(cards, b) THEN w[c] \in Rows /\ w[c].column = Off
                       ELSE w[c] = cards[c]
  BY <1>1 DEF OnBoard, View, Rows
<1>3. w \in View
  <2>1. w = [c \in Cards |-> w[c]]
    BY <1>1
  <2>2. \A c \in Cards : w[c] \in Rows \cup Absent
    BY <1>1, <1>2 DEF View
  <2> QED BY <2>1, <2>2 DEF View
<1>4. ASSUME NEW col \in Columns
      PROVE  Ordered(w, CardsOf(w, col)) =
               IF BoardOf[col] = b THEN <<>> ELSE Ordered(cards, CardsOf(cards, col))
  <2> DEFINE S == CardsOf(cards, col)
  <2>1. col # Off /\ \A d \in S : d \in Cards /\ cards[d] \notin Absent /\ cards[d].board = BoardOf[col]
    BY OffAssumption, ColumnOfBoard DEF CardsOf
  <2>2. CASE BoardOf[col] = b
    <3>1. \A d \in S : d \in OnBoard(cards, b)
      BY <2>1, <2>2 DEF OnBoard
    <3>2. CardsOf(w, col) = {}
      BY <1>2, <2>1, <3>1 DEF CardsOf
    <3>3. Ordered(w, {}) = <<>>
      BY FS_EmptySet DEF Ordered
    <3> QED BY <2>2, <3>2, <3>3
  <2>3. CASE BoardOf[col] # b
    <3>1. \A d \in S : d \notin OnBoard(cards, b)
      BY <2>1, <2>3 DEF OnBoard
    <3>2. CardsOf(w, col) = S /\ S \in SUBSET Cards /\ \A d \in S : w[d] = cards[d]
      BY <1>2, <2>1, <3>1 DEF CardsOf
    <3> HIDE DEF S
    <3>3. Ordered(w, S) = Ordered(cards, S)
      BY <1>1, <1>3, <2>1, <3>2, SameRows
    <3> QED BY <2>3, <3>2, <3>3 DEF S
  <2> QED BY <2>2, <2>3
<1> QED BY <1>4 DEF ShownLists!Drop, Shown, w

\* No card is placed at first.
LEMMA InitLists == Init => ShownLists!Init
<1> SUFFICES ASSUME Init PROVE ShownLists!Init
  OBVIOUS
<1>1. \A col \in Columns : CardsOf(cards, col) = {}
  BY OffAssumption DEF Init, CardsOf, Absent, OffBoard
<1>2. Ordered(cards, {}) = <<>>
  BY FS_EmptySet DEF Ordered
<1> QED BY <1>1, <1>2 DEF ShownLists!Init, Shown

\* Taking a listed card out is a step of the lists.
LEMMA TakeOutIsStep == ASSUME NEW c \in Cards, ShownLists!TakeOut(c) PROVE ShownLists!Next
<1>1. \E l \in Columns : TRUE
  BY DEF ShownLists!TakeOut, ShownLists!Listed
<1> QED BY <1>1 DEF ShownLists!Next

\* Every step of the only user is a step of the lists, or changes none.
LEMMA ListsStep ==
  ASSUME OneUser, AloneInv, [Next]_vars PROVE ShownLists!Next \/ UNCHANGED Shown
<1>1. CASE UNCHANGED cards
  BY <1>1 DEF Shown, Ordered, CardsOf, Rank, Before
<1>2. CASE UNCHANGED vars
  BY <1>1, <1>2 DEF vars
<1>3. ASSUME NEW p \in Procs, Begin(p) \/ Step(p) \/ \E b \in Boards : DestroyBoard(p, b)
      PROVE  ShownLists!Next \/ UNCHANGED Shown
  <2>1. CASE Commit(p)
    <3>1. req[p].card \in Cards
      BY <2>1, Committed DEF Requests
    <3> QED BY <2>1, <3>1, CommitStep, TakeOutIsStep DEF ShownLists!Next
  <2>2. CASE Put(p) \/ Insert(p)
    <3>1. req[p].card \in Cards /\ req[p].column \in Columns
      BY <2>2, AddedRow
    <3> QED BY <2>2, <3>1, AddStep DEF ShownLists!Next
  <2>3. ASSUME NEW c \in Cards, DestroyMemo(p, c) PROVE ShownLists!Next \/ UNCHANGED Shown
    BY <2>3, DestroyMemoStep, TakeOutIsStep DEF AloneInv
  <2>4. ASSUME NEW b \in Boards, DestroyBoard(p, b) PROVE ShownLists!Next \/ UNCHANGED Shown
    <3>1. ShownLists!Drop({col \in Columns : BoardOf[col] = b})
      BY <2>4, DestroyBoardStep DEF AloneInv, PlacementInv
    <3> QED BY <3>1 DEF ShownLists!Next
  <2>5. CASE Place(p) \/ List(p) \/ Compact(p) \/ Renumber(p) \/ Renumbered(p) \/ ReadMax(p) \/ Rollback(p)
    BY <1>1, <2>5 DEF Place, List, Compact, Renumber, Renumbered, ReadMax, Rollback
  <2>6. CASE Begin(p)
    BY <1>1, <2>3, <2>6 DEF Begin, BeginMove, BeginAdd, BeginCreate, BeginRemove, Start
  <2> QED BY <1>3, <2>1, <2>2, <2>4, <2>5, <2>6 DEF Step
<1> QED BY <1>2, <1>3 DEF Next

\* One user at a time: the services of a board keep its columns as lists, for any
\* number of cards, columns and boards.  A new card goes to the end, a move takes the
\* card out and puts it at an index, and every other card keeps its place among the
\* others; the positions that are written row by row are never seen half done.
THEOREM KanbanImplementsLists == ASSUME OneUser PROVE Spec => ImplementsLists
<1>1. AloneInv /\ [Next]_vars => [ShownLists!Next]_Shown
  BY ListsStep
<1>2. Spec => []AloneInv
  BY StaysAlone
<1> QED BY <1>1, <1>2, InitLists, PTL DEF Spec, ImplementsLists, ShownLists!Spec
=============================================================================
