----------------------------- MODULE BoardLists -----------------------------
(* The lists that the columns of BoardKanban show, and what one user of the  *)
(* boards is promised of them.                                               *)
EXTENDS BoardKanban, Sequences

\* The cards a column shows.
CardsOf(rows, col) == {c \in Cards : rows[c] \notin Absent /\ rows[c].column = col}

\* The cards S in the order (position, id).
Ordered(rows, S) == [i \in 1..Cardinality(S) |-> CHOOSE c \in S : Rank(rows, S, c) = i - 1]

Shown == [col \in Columns |-> Ordered(cards, CardsOf(cards, col))]

ShownLists == INSTANCE CardLists WITH Items <- Cards, Lists <- Columns, list <- Shown,
  Groups <- {{col \in Columns : BoardOf[col] = b} : b \in Boards}

\* One user at a time: the services keep the columns as lists, in which a card
\* is added at the end (AddMemo, CreateCard), moved to an index (MoveCard) or
\* taken out, and no other card changes its place.
ImplementsLists == ShownLists!Spec
=============================================================================
