---------------------------- MODULE PageDialogs ----------------------------
(***************************************************************************)
(* Two dialogs of the memo pages that wait for a server: the albums of the *)
(* picture store (tsuzura_picker), and the titles and tags an AI suggests  *)
(* (memo_metadata_suggestions).  Only the latter gives up a request.       *)
(***************************************************************************)
EXTENDS Naturals, FiniteSets

CONSTANTS
  Albums,      \* the albums of the store
  Photos,      \* Photos[a]: the photos of an album
  MaxAsked,    \* bound on the suggestions asked for
  None

DialogsAssumption ==
  /\ None \notin Albums /\ MaxAsked \in Nat
  /\ \A a \in Albums : IsFiniteSet(Photos[a])

VARIABLES
  album,    \* the album picker
  taken,    \* what it put into the memo last, with the photos ticked since it was opened
  asks,     \* its requests that wait for an answer: the list, and albums
  sug,      \* the suggestions: the request that counts, the button and the panel
  running   \* the requests for suggestions that have not ended, and those given up

vars == <<album, taken, asks, sug, running>>

Every == UNION {Photos[a] : a \in Albums}
Requests == 1 .. MaxAsked

TypeOK ==
  /\ album \in [open : BOOLEAN, listed : BOOLEAN, current : Albums \cup {None}, drawn : Albums \cup {None},
                ticked : SUBSET Every, chosen : SUBSET Every, touched : SUBSET Every,
                mayAlbum : BOOLEAN, mayImages : BOOLEAN]
  /\ taken \in [album : Albums \cup {None}, photos : SUBSET Every, touched : SUBSET Every]
  /\ asks \subseteq {"list"} \cup Albums
  /\ sug \in [asked : 0 .. MaxAsked, current : 0 .. MaxAsked, generating : BOOLEAN, disabled : BOOLEAN,
              panel : BOOLEAN, of : 0 .. MaxAsked]
  /\ running \in [live : SUBSET Requests, aborted : SUBSET Requests]

Init ==
  /\ album = [open |-> FALSE, listed |-> FALSE, current |-> None, drawn |-> None, ticked |-> {},
              chosen |-> {}, touched |-> {}, mayAlbum |-> FALSE, mayImages |-> FALSE]
  /\ taken = [album |-> None, photos |-> {}, touched |-> {}] /\ asks = {}
  /\ sug = [asked |-> 0, current |-> 0, generating |-> FALSE, disabled |-> FALSE, panel |-> FALSE, of |-> 0]
  /\ running = [live |-> {}, aborted |-> {}]

-----------------------------------------------------------------------------
\* The albums

\* Mutated: what was chosen before stays so.
KeptChoice(w) == [w EXCEPT !.open = TRUE, !.drawn = None, !.ticked = {}, !.touched = {},
                           !.current = None, !.mayAlbum = FALSE, !.mayImages = FALSE]
\* open: nothing is chosen; the list of the last time stays until the answer.
Opened(w) == [w EXCEPT !.open = TRUE, !.drawn = None, !.ticked = {}, !.touched = {},
                       !.current = None, !.mayAlbum = FALSE, !.mayImages = FALSE, !.chosen = {}]

OpenAlbums ==
  /\ ~album.open /\ album' = Opened(album) /\ asks' = asks \cup {"list"}
  /\ UNCHANGED <<taken, sug, running>>

CloseAlbums ==
  /\ album.open /\ album' = [album EXCEPT !.open = FALSE]
  /\ UNCHANGED <<taken, asks, sug, running>>

\* _loadAlbums: a refusal replaces the list, a lost answer leaves it.
ListAnswered ==
  /\ "list" \in asks /\ asks' = asks \ {"list"}
  /\ \E listed \in {TRUE, FALSE, album.listed} : album' = [album EXCEPT !.listed = listed]
  /\ UNCHANGED <<taken, sug, running>>

\* selectAlbum: the photos of the album before stand, with their ticks, until
\* the answer.
SelectAlbum(a) ==
  /\ album.open /\ album.listed
  /\ album' = [album EXCEPT !.current = a, !.chosen = {}, !.mayAlbum = TRUE, !.mayImages = FALSE]
  /\ asks' = asks \cup {a} /\ UNCHANGED <<taken, sug, running>>

\* _renderAlbumDetail: whatever is current by now, and what was chosen stays so.
AlbumAnswered(a, ok) ==
  /\ a \in asks /\ asks' = asks \ {a}
  /\ album' = IF ok THEN [album EXCEPT !.drawn = a, !.ticked = {}] ELSE album
  /\ UNCHANGED <<taken, sug, running>>

ToggleMedia(p) ==
  /\ album.open /\ album.drawn # None /\ p \in Photos[album.drawn]
  /\ LET chosen == IF p \in album.ticked THEN album.chosen \ {p} ELSE album.chosen \cup {p}
     IN  album' = [album EXCEPT !.ticked = (@ \ {p}) \cup ({p} \ @), !.chosen = chosen,
                                !.touched = @ \cup {p}, !.mayImages = chosen # {}]
  /\ UNCHANGED <<taken, asks, sug, running>>

\* insertAlbum, insertImages: _insertText closes the dialog.
InsertAlbum ==
  /\ album.open /\ album.mayAlbum /\ album.current # None
  /\ taken' = [album |-> album.current, photos |-> {}, touched |-> album.touched]
  /\ album' = [album EXCEPT !.open = FALSE] /\ UNCHANGED <<asks, sug, running>>

InsertImages ==
  /\ album.open /\ album.mayImages /\ album.chosen # {}
  /\ taken' = [album |-> None, photos |-> album.chosen, touched |-> album.touched]
  /\ album' = [album EXCEPT !.open = FALSE] /\ UNCHANGED <<asks, sug, running>>

AlbumNext ==
  \/ OpenAlbums \/ CloseAlbums \/ ListAnswered \/ InsertAlbum \/ InsertImages
  \/ \E a \in Albums : SelectAlbum(a) \/ \E ok \in BOOLEAN : AlbumAnswered(a, ok)
  \/ \E p \in Every : ToggleMedia(p)

-----------------------------------------------------------------------------
\* The suggestions

Generate ==
  /\ ~sug.disabled /\ sug.asked < MaxAsked
  /\ LET n == sug.asked + 1
     IN  /\ sug' = [sug EXCEPT !.asked = n, !.current = n, !.generating = TRUE,
                               !.disabled = TRUE, !.panel = FALSE]
         /\ running' = [running EXCEPT !.live = @ \cup {n}]
  /\ UNCHANGED <<album, taken, asks>>

\* Mutated: the end of any request frees the button.
FreedByAny(w, n) == [w EXCEPT !.current = 0, !.generating = FALSE, !.disabled = FALSE]
\* The finally of generate.
Freed(w, n) ==
  IF w.current = n THEN [w EXCEPT !.current = 0, !.generating = FALSE, !.disabled = FALSE] ELSE w

Suggested(n, ok) ==
  /\ n \in running.live /\ running' = [running EXCEPT !.live = @ \ {n}]
  /\ sug' = Freed([sug EXCEPT !.panel = ok, !.of = IF ok THEN n ELSE @], n)
  /\ UNCHANGED <<album, taken, asks>>

\* abortGeneration, when the user agrees to leave, or the page goes into the cache.
LeavePage ==
  /\ sug' = [sug EXCEPT !.current = 0, !.generating = FALSE, !.disabled = FALSE, !.panel = FALSE]
  /\ running' = [live |-> running.live \ {sug.current},
                 aborted |-> running.aborted \cup (running.live \cap {sug.current})]
  /\ UNCHANGED <<album, taken, asks>>

\* What was given up ends a moment later, with an AbortError.
AbortedEnds(n) ==
  /\ n \in running.aborted /\ running' = [running EXCEPT !.aborted = @ \ {n}]
  /\ sug' = Freed(sug, n) /\ UNCHANGED <<album, taken, asks>>

\* apply, close
TakeSuggestion ==
  /\ sug.panel /\ sug' = [sug EXCEPT !.panel = FALSE]
  /\ UNCHANGED <<album, taken, asks, running>>

SuggestionNext ==
  \/ Generate \/ LeavePage \/ TakeSuggestion
  \/ \E n \in Requests : AbortedEnds(n) \/ \E ok \in BOOLEAN : Suggested(n, ok)

\* The two share nothing.
Next == AlbumNext \/ SuggestionNext

Spec == Init /\ [][Next]_vars

-----------------------------------------------------------------------------
\* However late the albums come: the buttons allow what there is to insert, and
\* the photos put into the memo were all ticked since the picker was opened.
OnlyTickedIsTaken ==
  /\ album.open => album.mayImages = (album.chosen # {}) /\ album.mayAlbum = (album.current # None)
  /\ taken.photos \subseteq taken.touched

\* However requests are given up and end late: the button is free exactly when
\* no request counts, at most one is running, leaving asks exactly while it
\* is, and the panel shows the answer to the last one.
SuggestionIsLatest ==
  /\ sug.disabled = (sug.current # 0) /\ sug.generating = sug.disabled
  /\ running.live = IF sug.current = 0 THEN {} ELSE {sug.current}
  /\ sug.panel => sug.of = sug.asked /\ ~sug.generating
=============================================================================
