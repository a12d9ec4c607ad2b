----------------------------- MODULE CardLists -----------------------------
(***************************************************************************)
(* What a board promises: every column is a list of cards.  A card is      *)
(* added at the end, a move takes it out of its column and inserts it at   *)
(* an index of a column, and the other cards keep their order.             *)
(***************************************************************************)
EXTENDS Integers, Sequences, SequencesExt

CONSTANTS
  Items, Lists,
  Groups   \* the lists of each board

VARIABLE list   \* column -> its cards in order

Listed(c) == \E l \in Lists : c \in Range(list[l])
Place(l, c) == CHOOSE i \in DOMAIN list[l] : list[l][i] = c
Without(c) == [l \in Lists |-> IF c \in Range(list[l]) THEN RemoveAt(list[l], Place(l, c)) ELSE list[l]]

Init == list = [l \in Lists |-> <<>>]

AddAtEnd(c, l) ==
  /\ ~Listed(c)
  /\ list' = [list EXCEPT ![l] = Append(@, c)]

Move(c, l, i) ==
  /\ Listed(c) /\ i \in 0..Len(Without(c)[l])
  /\ list' = [Without(c) EXCEPT ![l] = InsertAt(@, i + 1, c)]

TakeOut(c) == Listed(c) /\ list' = Without(c)

\* A board goes with its lists.
Drop(ls) == list' = [l \in Lists |-> IF l \in ls THEN <<>> ELSE list[l]]

Next ==
  \/ \E c \in Items, l \in Lists :
       AddAtEnd(c, l) \/ TakeOut(c) \/ \E i \in 0..Len(list[l]) : Move(c, l, i)
  \/ \E ls \in Groups : Drop(ls)

Spec == Init /\ [][Next]_list
=============================================================================
