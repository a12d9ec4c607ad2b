---------------------------- MODULE NotebookTree ----------------------------
(***************************************************************************)
(* The memos of a notebook as a tree: entries with a parent and a position *)
(* among its children, dragged about on pages that show an earlier state   *)
(* (notebook_memo_tree), and the services that change it.  A page may drag *)
(* again while its requests are under way, and the database commits        *)
(* between the statements of a request: a transaction reads committed rows *)
(* and its own writes, and an UPDATE waits for the transaction that has    *)
(* written the same row.                                                   *)
(***************************************************************************)
EXTENDS Integers, FiniteSets, FiniteSetsExt

CONSTANTS
  Ids,          \* of entries, given out in their order
  Tabs,         \* pages that show the notebook
  Calls,        \* the moves that are ever asked for, in their order
  MaxPosition   \* bound of this model: no memo is added behind it

NotebookAssumption ==
  /\ Ids \subseteq Nat \ {0} /\ IsFiniteSet(Ids) /\ Calls \subseteq Nat /\ MaxPosition \in Nat

VARIABLES
  row,      \* committed rows: parent and position, or Out, or Gone
  view,     \* the rows each page shows
  drag,     \* the entry dragged on each page, or 0
  call,     \* what has become of each move
  wrote,    \* the rows its transaction has written
  add,      \* an addition that has read the last position, or Out
  crossed   \* the entries hung where they are by a move that met another one

vars == <<row, view, drag, call, wrote, add, crossed>>

Root == 0
Nil == 0 - 1
Out == [parent |-> Nil, pos |-> 0]     \* not made yet
Gone == [parent |-> Nil, pos |-> 1]
Unwritten == [e \in Ids |-> Out]
Unplanned == [e \in Ids |-> Nil]

Entries(r) == {e \in Ids : r[e].parent # Nil}
Children(r, p) == {e \in Entries(r) : r[e].parent = p}

\* Entries below each other, and the entries that hang neither in nor below such
\* a circle: no page shows the others.
Circles(r) == {s \in SUBSET Entries(r) : s # {} /\ \A e \in s : r[e].parent \in s}
Shown(r) == Entries(r) \ UNION Circles(r)

\* What a move is at, what it was asked for and has loaded; the ancestors it has
\* come by and the one it looks at next; the numbers it still has to write; and
\* whether another move has changed the rows since it loaded its own (met), and
\* nobody has since it read the new siblings (still).
NoCall ==
  [at |-> "unsent", tab |-> 0, entry |-> 0, parent |-> 0, pos |-> 0, old |-> Out, up |-> 0, seen |-> {},
   plan |-> Unplanned, met |-> FALSE, still |-> FALSE, page |-> Unwritten]
Over == [NoCall EXCEPT !.at = "over"]
Steps == {"find", "walk", "site", "validate", "check", "write", "list", "number", "numberOld"}

TypeOK ==
  /\ \A e \in Ids : row[e] \in {Out, Gone} \/ (row[e].parent \in Ids \cup {Root} /\ row[e].pos \in Nat)
  /\ drag \in [Tabs -> Ids \cup {0}]
  /\ \A c \in Calls :
       /\ call[c].at \in Steps \cup {"unsent", "sent", "answer", "over"}
       /\ call[c].at \in Steps => call[c].old.pos \in Nat /\ call[c].pos \in Nat
       /\ \A e \in Ids : wrote[c][e] # Out => wrote[c][e].pos \in Nat /\ call[c].at \in Steps
  /\ crossed \subseteq Ids

\* What the statements of a move read, and whose rows it has to wait for.
Reads(c) == [e \in Ids |-> IF wrote[c][e] = Out THEN row[e] ELSE wrote[c][e]]
Held(c, e) == \E d \in Calls \ {c} : wrote[d][e] # Out

\* Children in the order (position, id), and the numbers from 0 for those that
\* do not have them.
Before(r, a, b) == r[a].pos < r[b].pos \/ (r[a].pos = r[b].pos /\ a < b)
Rank(r, p, e) == Cardinality({x \in Children(r, p) : Before(r, x, e)})
\* Mutated: numbered from 1.
NumberingFromOne(r, p) ==
  [e \in Ids |-> IF e \in Children(r, p) /\ r[e].pos # Rank(r, p, e) + 1 THEN Rank(r, p, e) + 1 ELSE Nil]
Numbering(r, p) ==
  [e \in Ids |-> IF e \in Children(r, p) /\ r[e].pos # Rank(r, p, e) THEN Rank(r, p, e) ELSE Nil]

Init ==
  /\ row = [e \in Ids |-> Out] /\ view = [t \in Tabs |-> row] /\ drag = [t \in Tabs |-> 0]
  /\ call = [c \in Calls |-> NoCall] /\ wrote = [c \in Calls |-> Unwritten]
  /\ add = Out /\ crossed = {}

-----------------------------------------------------------------------------
\* The page
database == <<row, wrote, add, crossed>>

\* Bound of this model: nothing is dragged and no page is loaded again when no
\* move is left to be asked for.
MovesLeft == \E c \in Calls : call[c] = NoCall

DragStart(t, e) ==
  /\ drag[t] = 0 /\ MovesLeft /\ e \in Shown(view[t])
  /\ drag' = [drag EXCEPT ![t] = e]
  /\ UNCHANGED <<database, view, call>>

DragEnd(t) == drag[t] # 0 /\ drag' = [drag EXCEPT ![t] = 0] /\ UNCHANGED <<database, view, call>>

\* _patchMove: the request goes out, whatever others are under way.
Patch(t, parent, pos) ==
  \E c \in Calls :
    /\ call[c] = NoCall /\ \A d \in Calls : d < c => call[d] # NoCall
    /\ call' = [call EXCEPT ![c] = [NoCall EXCEPT !.at = "sent", !.tab = t, !.entry = drag[t],
                                                  !.parent = parent, !.pos = pos]]
    /\ drag' = [drag EXCEPT ![t] = 0] /\ UNCHANGED <<database, view>>

\* On the upper third of a row, the lower third, or the middle, where the row
\* itself never holds the list of its children.
DropOnRow(t, e) ==
  /\ drag[t] # 0 /\ e \in Shown(view[t]) /\ e # drag[t]
  /\ \/ Patch(t, view[t][e].parent, view[t][e].pos)
     \/ Patch(t, view[t][e].parent, view[t][e].pos + 1)
     \/ Patch(t, e, 0)

DropOnRoot(t) == drag[t] # 0 /\ Patch(t, Root, Cardinality(Children(view[t], Root)))

DropOnChildren(t, e) ==
  /\ drag[t] # 0 /\ e # drag[t] /\ e \in Shown(view[t]) /\ Children(view[t], e) # {}
  /\ Patch(t, e, Cardinality(Children(view[t], e)))

\* The page is loaded again.
Reload(t) ==
  /\ MovesLeft /\ view[t] # row /\ view' = [view EXCEPT ![t] = row] /\ drag' = [drag EXCEPT ![t] = 0]
  /\ UNCHANGED <<database, call>>

\* The tree of the answer, read when the move has been committed or later, replaces
\* the one on the page, or the answer is lost.
Answered(c) ==
  /\ call[c].at = "answer" /\ call' = [call EXCEPT ![c] = Over]
  /\ view' \in {view} \cup {[view EXCEPT ![call[c].tab] = r] : r \in {call[c].page, row}}
  /\ UNCHANGED <<database, drag>>

-----------------------------------------------------------------------------
\* reorder_memos and MoveMemo, statement by statement
others == <<row, view, drag, add, crossed>>

\* The transaction, if there is one, is rolled back.
Fails(c) ==
  call' = [call EXCEPT ![c] = Over] /\ wrote' = [wrote EXCEPT ![c] = Unwritten] /\ UNCHANGED others

Load(c) ==
  /\ call[c].at = "sent"
  /\ IF call[c].entry \notin Entries(row) THEN Fails(c)
     ELSE /\ call' = [call EXCEPT ![c].at = IF call[c].parent = Root THEN "site" ELSE "find",
                                  ![c].old = row[call[c].entry]]
          /\ UNCHANGED <<wrote, others>>

\* The new parent is loaded; its ancestors are looked at one by one.
Find(c) ==
  /\ call[c].at = "find"
  /\ IF call[c].parent \notin Entries(row) \ {call[c].entry} THEN Fails(c)
     ELSE /\ call' = [call EXCEPT ![c].at = "walk", ![c].up = row[call[c].parent].parent]
          /\ UNCHANGED <<wrote, others>>

\* Mutated: only the first ancestor is looked at.
WalkOne(c) ==
  /\ call[c].at \in {"walk", "check"}
  /\ IF call[c].up = call[c].entry THEN Fails(c)
     ELSE /\ call' = [call EXCEPT ![c].at = IF @ = "walk" THEN "site" ELSE "write"]
          /\ UNCHANGED <<wrote, others>>

\* descendant_of?, in the service and again when the entry is validated; it stops
\* at the root, at an ancestor that is gone, or when it has come round.
Walk(c) ==
  LET up == call[c].up IN
  /\ call[c].at \in {"walk", "check"}
  /\ IF up = call[c].entry THEN Fails(c)
     ELSE /\ call' = IF up = Root \/ up \in call[c].seen
                     THEN [call EXCEPT ![c].at = IF @ = "walk" THEN "site" ELSE "write",
                                       ![c].up = Root, ![c].seen = {}]
                     ELSE [call EXCEPT ![c].seen = @ \cup {up},
                                       ![c].up = IF up \in Entries(row) THEN row[up].parent ELSE Root]
          /\ UNCHANGED <<wrote, others>>

\* The transaction begins by counting the new siblings.
Site(c) ==
  LET siblings == Children(row, call[c].parent) \ {call[c].entry} IN
  /\ call[c].at = "site"
  /\ call' = [call EXCEPT ![c].at = "validate",
                          ![c].pos = IF @ > Cardinality(siblings) THEN Cardinality(siblings) ELSE @]
  /\ UNCHANGED <<wrote, others>>

\* A parent that is gone by now is not looked at any more.
Validate(c) ==
  /\ call[c].at = "validate"
  /\ call' = IF call[c].parent \notin Entries(row) THEN [call EXCEPT ![c].at = "write"]
             ELSE [call EXCEPT ![c].at = "check", ![c].up = row[call[c].parent].parent]
  /\ UNCHANGED <<wrote, others>>

\* UPDATE of the columns that differ from the loaded entry, if any does and the
\* entry is still there; the foreign key refuses a parent that is gone.
Write(c) ==
  LET m == call[c]
      new == [parent |-> IF m.parent = m.old.parent THEN row[m.entry].parent ELSE m.parent,
              pos |-> IF m.pos = m.old.pos THEN row[m.entry].pos ELSE m.pos]
      none == (m.parent = m.old.parent /\ m.pos = m.old.pos) \/ m.entry \notin Entries(row)
  IN  /\ m.at = "write" /\ (none \/ ~Held(c, m.entry))
      /\ IF ~none /\ m.parent # m.old.parent /\ m.parent \notin Entries(row) \cup {Root} THEN Fails(c)
         ELSE /\ call' = [call EXCEPT ![c].at = "list"]
              /\ wrote' = IF none THEN wrote ELSE [wrote EXCEPT ![c][m.entry] = new]
              /\ UNCHANGED others

\* renumber! reads the children of the new parent, and writes them row by row.
List(c) ==
  /\ call[c].at = "list"
  /\ call' = [call EXCEPT ![c].at = "number", ![c].still = TRUE,
                          ![c].plan = Numbering(Reads(c), call[c].parent)]
  /\ UNCHANGED <<wrote, others>>

Number(c) ==
  LET plan == call[c].plan IN
  /\ call[c].at \in {"number", "numberOld"}
  /\ \E e \in {x \in Ids : plan[x] # Nil} :
       /\ \A x \in Ids : plan[x] # Nil => plan[e] <= plan[x]
       /\ ~Held(c, e) /\ call' = [call EXCEPT ![c].plan[e] = Nil]
       /\ wrote' = IF e \in Entries(row) THEN [wrote EXCEPT ![c][e] = [Reads(c)[e] EXCEPT !.pos = plan[e]]]
                   ELSE wrote
  /\ UNCHANGED others

\* Then those of the parent the entry was loaded with.
ListOld(c) ==
  /\ call[c].at = "number" /\ call[c].plan = Unplanned /\ call[c].old.parent # call[c].parent
  /\ call' = [call EXCEPT ![c].at = "numberOld", ![c].plan = Numbering(Reads(c), call[c].old.parent)]
  /\ UNCHANGED <<wrote, others>>

\* What a commit of rows is to the moves under way.
Disturbed(calls, moved) ==
  [d \in Calls |-> [calls[d] EXCEPT !.met = @ \/ (moved /\ calls[d].at \in Steps),
                                    !.still = FALSE]]

\* Nothing is left to be written: others see what the transaction has done.
Commit(c) ==
  LET m == call[c] IN
  /\ m.at = IF m.old.parent = m.parent THEN "number" ELSE "numberOld"
  /\ m.plan = Unplanned
  /\ row' = Reads(c) /\ wrote' = [wrote EXCEPT ![c] = Unwritten]
  /\ call' = [(IF row' = row THEN call ELSE Disturbed(call, TRUE)) EXCEPT
                ![c] = [NoCall EXCEPT !.at = "answer", !.tab = m.tab, !.page = row']]
  /\ crossed' = IF m.parent = m.old.parent \/ m.entry \notin Entries(row) THEN crossed
                ELSE IF m.met THEN crossed \cup {m.entry} ELSE crossed \ {m.entry}
  /\ UNCHANGED <<view, drag, add>>

\* A deadlock is broken, or the server dies.
Rollback(c) == call[c].at \in Steps /\ Fails(c)

-----------------------------------------------------------------------------
\* Memos are added and removed.

\* AddMemo: behind the greatest position there was.
ReadLast(p) ==
  LET pos == Max({row[x].pos : x \in Children(row, p)} \cup {0}) + 1 IN
  /\ add = Out /\ p \in Entries(row) \cup {Root} /\ pos <= MaxPosition
  /\ add' = [parent |-> p, pos |-> pos]
  /\ UNCHANGED <<row, view, drag, call, wrote, crossed>>

\* INSERT, under the next id, unless the parent has gone.
AddMemo(e) ==
  /\ add # Out /\ row[e] = Out /\ \A x \in Ids : x < e => row[x] # Out
  /\ add' = Out
  /\ IF add.parent \in Entries(row) \cup {Root}
     THEN row' = [row EXCEPT ![e] = add] /\ call' = Disturbed(call, FALSE)
     ELSE UNCHANGED <<row, call>>
  /\ UNCHANGED <<view, drag, wrote, crossed>>

\* Mutated: the children keep the parent that is gone.
RemovedAlone(r, e) == [r EXCEPT ![e] = Gone]
\* RemoveMemo: the children are left to the root, at the positions they have.
Removed(r, e) ==
  [x \in Ids |-> IF x = e THEN Gone ELSE IF r[x].parent = e THEN [r[x] EXCEPT !.parent = Root] ELSE r[x]]

\* It waits for moves that have written the entry or a child of it.
RemoveMemo(e) ==
  /\ e \in Entries(row)
  /\ \A c \in Calls, x \in Ids : wrote[c][x] # Out => e \notin {x, row[x].parent, wrote[c][x].parent}
  /\ row' = Removed(row, e) /\ call' = Disturbed(call, FALSE)
  /\ UNCHANGED <<view, drag, wrote, add, crossed>>

Next ==
  \/ \E t \in Tabs :
       \/ DragEnd(t) \/ DropOnRoot(t) \/ Reload(t)
       \/ \E e \in Ids : DragStart(t, e) \/ DropOnRow(t, e) \/ DropOnChildren(t, e)
  \/ \E c \in Calls :
       \/ Load(c) \/ Find(c) \/ Walk(c) \/ Site(c) \/ Validate(c) \/ Write(c) \/ List(c)
       \/ Number(c) \/ ListOld(c) \/ Commit(c) \/ Rollback(c) \/ Answered(c)
  \/ \E p \in Ids \cup {Root} : ReadLast(p)
  \/ \E e \in Ids : AddMemo(e) \/ RemoveMemo(e)

Spec == Init /\ [][Next]_vars

-----------------------------------------------------------------------------
\* However stale the page that moves: no entry hangs below one that is gone, and
\* in every circle, which no page would show, is an entry hung there by a move
\* during which another one has committed.  While moves do not overlap, the
\* entries are a forest.
EntriesAreForest ==
  /\ \A e \in Entries(row) : row[e].parent \in Entries(row) \cup {Root}
  /\ \A circle \in Circles(row) : circle \cap crossed # {}

\* A move leaves the children of both parents numbered from 0, whatever gaps and
\* ties there were, unless another request commits after it has read them.
MoveNumbersSiblings ==
  \A c \in Calls : call[c].at # "answer" /\ call'[c].at = "answer" /\ call[c].still =>
    \A p \in {call[c].parent, call[c].old.parent} :
      {row'[e].pos : e \in Children(row', p)} = 0 .. Cardinality(Children(row', p)) - 1

=============================================================================
