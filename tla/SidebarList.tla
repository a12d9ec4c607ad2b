---------------------------- MODULE SidebarList ----------------------------
(***************************************************************************)
(* The sidebar's list of memos: the search that replaces the list          *)
(* (memo_search) and the list that loads more at its end                   *)
(* (memo_sidebar_memo_list).  A list that was replaced may still be        *)
(* waiting for its rows, and what the server finds changes meanwhile.  A   *)
(* request is taken to find what there is when its answer arrives.         *)
(***************************************************************************)
EXTENDS Integers, Sequences, FiniteSets, SequencesExt

CONSTANTS
  Queries,    \* what a user types; "" is among them
  Results,    \* Results[q]: the lists of memos the server may come to find
  Page        \* rows of a page (15)

SidebarAssumption ==
  /\ "" \in Queries /\ Page \in Nat \ {0}
  /\ \A q \in Queries : Results[q] # {} /\ Results[q] \subseteq Seq(Nat)

VARIABLES
  found,     \* what the server finds for each query now
  text,      \* the search field
  waiting,   \* the debounce of the search runs
  heading,   \* the query the heading and the address name
  search,    \* the query in flight, or none: the one before was aborted
  list,      \* the list shown: its query, rows, total, offset, whether there is more, loading
             \* (history: changed, the server found another list since it was drawn)
  gone,      \* what lists that were replaced had asked for
  count,     \* the numbers shown above the list
  failed     \* the last search has failed

vars == <<found, text, waiting, heading, search, list, gone, count, failed>>

Least(a, b) == IF a < b THEN a ELSE b

\* The page of rows behind an offset.
Rows(q, from) == [i \in 1 .. Least(Page, Len(found[q]) - from) |-> found[q][from + i]]

\* The list the server sends: the first page.
Fresh(q) ==
  [query |-> q, rows |-> Rows(q, 0), total |-> Len(found[q]), offset |-> Len(Rows(q, 0)),
   more |-> Len(Rows(q, 0)) < Len(found[q]), loading |-> FALSE, asked |-> <<>>, changed |-> FALSE]

Lists == [query : Queries, rows : Seq(Nat), total : Nat, offset : Nat, more : BOOLEAN,
          loading : BOOLEAN, asked : Seq(Nat), changed : BOOLEAN]

TypeOK ==
  /\ DOMAIN found = Queries /\ \A q \in Queries : found[q] \in Results[q]
  /\ {text, heading} \subseteq Queries /\ search \subseteq Queries
  /\ {waiting, failed} \subseteq BOOLEAN
  /\ list \in Lists /\ gone \subseteq Queries \X Nat \X Nat \X Nat /\ count \in Nat \X Nat

\* syncCount: nothing is shown of an empty list.
Counted(l, was) == IF l.total = 0 THEN was ELSE <<Len(l.rows), l.total>>

Init ==
  /\ found \in [Queries -> UNION {Results[q] : q \in Queries}] /\ \A q \in Queries : found[q] \in Results[q]
  /\ text = "" /\ waiting = FALSE /\ heading = "" /\ search = {} /\ failed = FALSE
  /\ list = Fresh("") /\ gone = {} /\ count = Counted(Fresh(""), <<0, 0>>)

\* Memos are written, edited and deleted, here and elsewhere.
MemosChange(q) ==
  /\ \E f \in Results[q] \ {found[q]} : found' = [found EXCEPT ![q] = f]
  /\ list' = [list EXCEPT !.changed = @ \/ q = list.query]
  /\ UNCHANGED <<text, waiting, heading, search, gone, count, failed>>

-----------------------------------------------------------------------------
\* The search

Type(q) ==
  /\ q # text /\ text' = q /\ waiting' = TRUE
  /\ UNCHANGED <<found, heading, search, list, gone, count, failed>>

\* Mutated: the search before goes on.
SearchedToo(q) == heading' = q /\ search' = search \cup {q} /\ failed' = FALSE
\* refreshResults: heading and address change at once, the search before is aborted.
Searched(q) == heading' = q /\ search' = {q} /\ failed' = FALSE

QueueSearch ==
  /\ waiting /\ waiting' = FALSE /\ Searched(text)
  /\ UNCHANGED <<found, text, list, gone, count>>

\* Enter searches at once; the debounce that runs will search once more.
SubmitSearch == Searched(text) /\ UNCHANGED <<found, text, waiting, list, gone, count>>

Clear == text' = "" /\ Searched("") /\ UNCHANGED <<found, waiting, list, gone, count>>

\* The list is replaced; what the old one has asked for will arrive there.
Replaced ==
  \E q \in search :
    /\ list' = Fresh(q) /\ count' = Counted(list', count) /\ search' = search \ {q}
    /\ gone' = gone \cup {<<list.query, Len(list.rows), o, list.total>> : o \in ToSet(list.asked)}
    /\ UNCHANGED <<found, text, waiting, heading, failed>>

SearchFails ==
  /\ \E q \in search : search' = search \ {q}
  /\ failed' = TRUE
  /\ UNCHANGED <<found, text, waiting, heading, list, gone, count>>

-----------------------------------------------------------------------------
\* Loading more

\* Mutated: a page is asked for although one is being loaded.
MayAlwaysLoad(l) == l.more /\ Len(l.asked) < 2
MayLoad(l) == l.more /\ ~l.loading

\* The end of the list comes into view, or is scrolled to.
LoadMore ==
  /\ MayLoad(list)
  /\ list' = [list EXCEPT !.loading = TRUE, !.asked = Append(@, list.offset)]
  /\ UNCHANGED <<found, text, waiting, heading, search, gone, count, failed>>

\* The rows are appended; the server says where the next page begins.
Loaded ==
  /\ list.asked # <<>>
  /\ LET from == Head(list.asked)
         rows == list.rows \o Rows(list.query, from)
         next == from + Len(Rows(list.query, from))
     IN  list' = [list EXCEPT !.rows = rows, !.offset = next, !.loading = FALSE, !.asked = Tail(@),
                              !.more = next < Len(found[list.query]) /\ Len(rows) < list.total]
  /\ count' = Counted(list', count)
  /\ UNCHANGED <<found, text, waiting, heading, search, gone, failed>>

LoadFails ==
  /\ list.asked # <<>>
  /\ list' = [list EXCEPT !.loading = FALSE, !.asked = Tail(@)]
  /\ UNCHANGED <<found, text, waiting, heading, search, gone, count, failed>>

\* A list that was replaced gets its rows, which nobody sees, and writes its
\* own numbers above the new one.
LoadedGone ==
  \E g \in gone :
    /\ gone' = gone \ {g}
    /\ count' = <<g[2] + Len(Rows(g[1], g[3])), g[4]>>
    /\ UNCHANGED <<found, text, waiting, heading, search, list, failed>>

LoadGoneFails ==
  \E g \in gone : gone' = gone \ {g} /\ UNCHANGED <<found, text, waiting, heading, search, list, count, failed>>

Next ==
  \/ \E q \in Queries : Type(q) \/ MemosChange(q)
  \/ QueueSearch \/ SubmitSearch \/ Clear \/ Replaced \/ SearchFails
  \/ LoadMore \/ Loaded \/ LoadFails \/ LoadedGone \/ LoadGoneFails

Spec == Init /\ [][Next]_vars

-----------------------------------------------------------------------------
\* However searching, scrolling and answers meet: while the server finds what it
\* found when the list was drawn, the list holds the first rows of that, none
\* twice and none left out.  (A memo edited meanwhile moves the offsets, and a row
\* comes twice or not at all.)  It loads no more once it shows as many as there
\* were, and once no search is in flight the heading and the address name its query.
ListIsOneSearch ==
  /\ ~list.changed =>
       /\ list.rows = [i \in DOMAIN list.rows |-> found[list.query][i]]
       /\ list.more \/ Len(list.rows) = Len(found[list.query])
  /\ list.more => Len(list.rows) < list.total
  /\ search = {} /\ ~failed => heading = list.query
=============================================================================
