------------------------------ MODULE Sidebars ------------------------------
(***************************************************************************)
(* The two sidebars of a memo's page, the list at the left (memo_sidebar)  *)
(* and the assistant at the right (memo_ai_sidebar): their width, dragged  *)
(* or set by keys, and whether they are folded, kept in the browser's      *)
(* storage.  The window may change its size at any time.                   *)
(***************************************************************************)
EXTENDS Integers

CONSTANTS
  Windows,        \* widths of the window, in any unit
  Kept,           \* widths the storage may hold
  Steps,          \* of the keyboard
  Least,          \* the least width of a sidebar: 220 px
  Narrow,         \* below this the sidebars stand above each other: 768 px
  MemoTop, AiTop  \* the greatest widths in any window: 560 and 480 px

Sides == {"memo", "ai"}
NoWidth == 0 - 1

\* _maxWidth of each: a part of the window, up to its greatest width.
AtMost(n, top) == IF n < top THEN n ELSE top
\* Mutated: the window does not count.
MemoMaxAnywhere(w) == MemoTop
MemoMax(w) == AtMost((55 * w) \div 100, MemoTop)
AiMax(w) == AtMost((45 * w) \div 100, AiTop)
Most(s, w) == IF s = "memo" THEN MemoMax(w) ELSE AiMax(w)
Wide(w) == w >= Narrow

SidebarsAssumption ==
  /\ Windows \subseteq Nat /\ Kept \cup Steps \subseteq Nat /\ {Least, Narrow, MemoTop, AiTop} \subseteq Nat
  /\ Least <= (45 * Narrow) \div 100 /\ Least <= MemoTop /\ Least <= AiTop

VARIABLES
  window,     \* the window's width
  width,      \* side -> _width
  folded,     \* side -> _collapsed
  dragging,   \* side -> _dragging
  shown,      \* side -> what is displayed: a width, 0 when folded, or none in a narrow window
  stored,     \* side -> the width and the fold in the storage
  cap         \* history, side -> the least maximum since the stored width was read or written

vars == <<window, width, folded, dragging, shown, stored, cap>>

TypeOK ==
  /\ window \in Windows
  /\ width \in [Sides -> Nat] /\ folded \in [Sides -> BOOLEAN] /\ dragging \in [Sides -> BOOLEAN]
  /\ shown \in [Sides -> Nat \cup {NoWidth}] /\ stored \in [Sides -> [width : Nat, folded : BOOLEAN]]
  /\ cap \in [Sides -> Nat]

Clamp(n, min, max) == AtMost(IF n < min THEN min ELSE n, max)

\* _applyLayout for a width x: the width kept from then on, and the one displayed.
Width(s, x, fold, w) == IF Wide(w) /\ ~fold THEN Clamp(x, Least, Most(s, w)) ELSE x
Display(s, x, fold, w) ==
  IF ~Wide(w) THEN NoWidth ELSE IF fold THEN 0 ELSE Clamp(x, Least, Most(s, w))

\* No sidebar may be wider than this, and a layout may lower it.
Uncapped == IF MemoTop > AiTop THEN MemoTop ELSE AiTop
Capped(s, c, fold, w) == IF Wide(w) /\ ~fold THEN AtMost(Most(s, w), c) ELSE c

LaidOut(s, x, fold, w, c) ==
  /\ width' = [width EXCEPT ![s] = Width(s, x, fold, w)]
  /\ shown' = [shown EXCEPT ![s] = Display(s, x, fold, w)]
  /\ cap' = [cap EXCEPT ![s] = Capped(s, c, fold, w)]

\* Both sidebars connect and read what the storage keeps.
Connected(kept, w) ==
  /\ folded' = [s \in Sides |-> kept[s].folded] /\ dragging' = [s \in Sides |-> FALSE]
  /\ width' = [s \in Sides |-> Width(s, kept[s].width, kept[s].folded, w)]
  /\ shown' = [s \in Sides |-> Display(s, kept[s].width, kept[s].folded, w)]
  /\ cap' = [s \in Sides |-> Capped(s, Uncapped, kept[s].folded, w)]

Init ==
  /\ window \in Windows /\ stored \in [Sides -> [width : Kept, folded : BOOLEAN]]
  /\ folded = [s \in Sides |-> stored[s].folded] /\ dragging = [s \in Sides |-> FALSE]
  /\ width = [s \in Sides |-> Width(s, stored[s].width, stored[s].folded, window)]
  /\ shown = [s \in Sides |-> Display(s, stored[s].width, stored[s].folded, window)]
  /\ cap = [s \in Sides |-> Capped(s, Uncapped, stored[s].folded, window)]

-----------------------------------------------------------------------------
Written(s, x, fold) == [stored EXCEPT ![s] = [width |-> x, folded |-> fold]]

\* What a user asked for is stored before the layout may clamp it.
Toggle(s) ==
  /\ folded' = [folded EXCEPT ![s] = ~@] /\ stored' = Written(s, width[s], ~folded[s])
  /\ LaidOut(s, width[s], ~folded[s], window, Uncapped)
  /\ UNCHANGED <<window, dragging>>

PointerDown(s) ==
  /\ ~folded[s] /\ Wide(window) /\ ~dragging[s] /\ dragging' = [dragging EXCEPT ![s] = TRUE]
  /\ UNCHANGED <<window, width, folded, shown, stored, cap>>

\* Dragging shows the width at once, folded or not.
Drag(s, x) ==
  /\ dragging[s]
  /\ width' = [width EXCEPT ![s] = Clamp(x, Least, Most(s, window))]
  /\ shown' = [shown EXCEPT ![s] = Clamp(x, Least, Most(s, window))]
  /\ UNCHANGED <<window, folded, dragging, stored, cap>>

\* Mutated: the sidebar is not laid out again.
DragEndKeepsLayout(s) ==
  UNCHANGED <<width, shown>> /\ cap' = [cap EXCEPT ![s] = Capped(s, Uncapped, folded[s], window)]
DragEndLayout(s) == LaidOut(s, width[s], folded[s], window, Uncapped)

DragEnd(s) ==
  /\ dragging[s] /\ dragging' = [dragging EXCEPT ![s] = FALSE]
  /\ stored' = Written(s, width[s], folded[s]) /\ DragEndLayout(s)
  /\ UNCHANGED <<window, folded>>

\* Arrows move the border by a step, Home and End to its ends.
Keydown(s, step) ==
  /\ ~folded[s] /\ Wide(window)
  /\ \E x \in {width[s] - step, width[s] + step, Least, Most(s, window)} :
       LET new == Clamp(x, Least, Most(s, window))
       IN  stored' = Written(s, new, folded[s]) /\ LaidOut(s, new, folded[s], window, Uncapped)
  /\ UNCHANGED <<window, folded, dragging>>

\* Both are laid out again, and nothing is stored.
Resize(w) ==
  /\ w # window /\ window' = w
  /\ width' = [s \in Sides |-> Width(s, width[s], folded[s], w)]
  /\ shown' = [s \in Sides |-> Display(s, width[s], folded[s], w)]
  /\ cap' = [s \in Sides |-> Capped(s, cap[s], folded[s], w)]
  /\ UNCHANGED <<folded, dragging, stored>>

\* Another page: what is being dragged is stored, then the new page reads it.
Visit ==
  /\ stored' = [s \in Sides |-> IF dragging[s] THEN [width |-> width[s], folded |-> folded[s]]
                                ELSE stored[s]]
  /\ Connected(stored', window)
  /\ UNCHANGED window

Next ==
  \/ \E s \in Sides :
       \/ Toggle(s) \/ PointerDown(s) \/ DragEnd(s)
       \/ \E x \in 0 .. window : Drag(s, x)
       \/ \E step \in Steps : Keydown(s, step)
  \/ Visit \/ \E w \in Windows : Resize(w)

Spec == Init /\ [][Next]_vars

-----------------------------------------------------------------------------
\* Whatever is dragged, folded and resized in whatever order, the two sidebars
\* together are never wider than the window, though they may fill it; and one
\* that nobody drags is folded as the storage says, and otherwise as wide as the
\* storage says, as far as the narrowest window since that was written or read
\* allowed: a window that grows again does not give the width back before the
\* next page does (_applyLayout, _writePrefs).
RoomIsShared ==
  /\ Wide(window) => shown["memo"] + shown["ai"] <= window
  /\ \A s \in Sides : ~dragging[s] =>
       /\ folded[s] = stored[s].folded
       /\ Wide(window) =>
            shown[s] = IF folded[s] THEN 0 ELSE Clamp(stored[s].width, Least, cap[s])
=============================================================================
