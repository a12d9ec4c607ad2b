------------------------------- MODULE Search -------------------------------
(***************************************************************************)
(* The search dialog of the WYSIWYG document and of its source pane        *)
(* (searchReplaceDialog, wysiwygDocumentSearch).  The dialog remembers the *)
(* number of a match, and counts the matches of the document again at      *)
(* every command.  A command acts on a document that has been drawn.       *)
(***************************************************************************)
EXTENDS Integers, Sequences, SequencesExt

CONSTANTS
  Documents,     \* the texts that are opened, and that others put in the place of one
  Letters,       \* what a text is made of
  Lower,         \* Lower[c]: the small letter, which may be more than one (U+0130)
  Queries,       \* what is searched; <<>> is the empty field
  Replacements,  \* what is put in its place
  MaxText        \* bound on the length of a text

SearchAssumption ==
  /\ Lower \in [Letters -> Seq(Letters)] /\ MaxText \in Nat
  /\ Documents \subseteq Seq(Letters) /\ \A d \in Documents : Len(d) <= MaxText
  /\ <<>> \in Queries /\ Queries \subseteq Seq(Letters) /\ Replacements \subseteq Seq(Letters)

VARIABLES
  text,         \* the document
  cursor,       \* getCursorPosition: counted from 0
  shown,        \* the match selected in it, or NoRange
  target,       \* activeTarget: "none", "document" or "pane"
  fields,       \* the fields of the dialog
  index,        \* documentMatchIndex, counted from 1 and 0 for none
  counted,      \* the document the number belongs to
  status,       \* what the dialog says
  paneQuery     \* the query the source pane's editor was given last

vars == <<text, cursor, shown, target, fields, index, counted, status, paneQuery>>

Texts == UNION {[1 .. n -> Letters] : n \in 0 .. MaxText}
NoRange == [from |-> -1, to |-> -1]
\* A text may have more matches than letters, when folding lengthens it.
Most == MaxText * Max({Len(Lower[c]) : c \in Letters})
Ranges == {NoRange} \cup [from : 0 .. MaxText, to : 0 .. MaxText]
Fields == [query : Queries, replace : Replacements \cup {<<>>}, cased : BOOLEAN]
Cleared(q) == [query |-> q, replace |-> <<>>, cased |-> FALSE]
Quiet == [says |-> "nothing", number |-> 0, of |-> 0]
Statuses == [says : {"nothing", "match", "none", "replaced", "noquery"},
             number : 0 .. Most, of : 0 .. Most]
Says(what, k, n) == [says |-> what, number |-> k, of |-> n]

TypeOK ==
  /\ text \in Texts /\ counted \in Texts /\ cursor \in 0 .. MaxText /\ shown \in Ranges
  /\ target \in {"none", "document", "pane"} /\ fields \in Fields /\ paneQuery \in Fields
  /\ index \in 0 .. Most /\ status \in Statuses

-----------------------------------------------------------------------------
\* Matches

\* toLowerCase, a letter at a time
Folded(t, cased) == IF cased THEN t ELSE FlattenSeq([i \in DOMAIN t |-> Lower[t[i]]])

\* A needle stands at a place of a haystack (counted from 0).
StandsAt(hay, needle, i) ==
  i + Len(needle) <= Len(hay) /\ SubSeq(hay, i + 1, i + Len(needle)) = needle

\* Mutated: the next match may begin within the one before.
ScannedOneOn(t, f) ==
  LET hay == Folded(t, f.cased)
      needle == Folded(f.query, f.cased)
      at == SetToSortSeq({i \in 0 .. Len(hay) : StandsAt(hay, needle, i)}, <)
  IN  [k \in DOMAIN at |-> [from |-> at[k], to |-> at[k] + Len(needle)]]

\* findDocumentMatches: from left to right, the next behind the end of the last.
\* The places are those of the folded text, also when that is longer.
MatchesOf(t, f) ==
  LET hay == Folded(t, f.cased)
      needle == Folded(f.query, f.cased)
      scan[i \in 0 .. Len(hay) + 1] ==
        IF i > Len(hay) THEN <<>>
        ELSE IF StandsAt(hay, needle, i)
             THEN <<[from |-> i, to |-> i + Len(needle)]>> \o scan[i + Len(needle)]
        ELSE scan[i + 1]
  IN  IF f.query = <<>> THEN <<>> ELSE scan[0]

Matches == MatchesOf(text, fields)

\* pickNextDocumentMatch: the first that begins behind a place, around the end.
After(ms, place) ==
  LET behind == {k \in DOMAIN ms : ms[k].from > place}
  IN  IF behind = {} THEN 1 ELSE CHOOSE k \in behind : \A j \in behind : k <= j
Before(ms, place) ==
  LET ahead == {k \in DOMAIN ms : ms[k].from < place}
  IN  IF ahead = {} THEN Len(ms) ELSE CHOOSE k \in ahead : \A j \in ahead : k >= j

Least(a, b) == IF a < b THEN a ELSE b

\* replaceDocumentMatch: slice goes no further than the text.
Put(t, m, r) == SubSeq(t, 1, Least(m.from, Len(t))) \o r \o SubSeq(t, m.to + 1, Len(t))

\* replaceAllInDocument: from the last match to the first.
AllPut(t, ms, r) == FoldRight(LAMBDA m, acc : Put(acc, m, r), ms, t)

-----------------------------------------------------------------------------
Init ==
  /\ text \in Documents /\ cursor \in 0 .. Len(text) /\ shown = NoRange /\ target = "none"
  /\ fields = Cleared(<<>>) /\ index = 0 /\ counted = text /\ status = Quiet
  /\ paneQuery = Cleared(<<>>)

\* applyQuery: the source pane's editor is told of a query that is not empty.
Applied(f) == IF f.query = <<>> THEN paneQuery ELSE f

\* openDialog: every field is set anew.
OpenDialog(kind, q) ==
  /\ target = "none"
  /\ target' = kind /\ fields' = Cleared(q) /\ index' = 0 /\ status' = Quiet
  /\ paneQuery' = IF kind = "pane" THEN Applied(Cleared(q)) ELSE paneQuery
  /\ UNCHANGED <<text, cursor, shown, counted>>

\* By its button, a click beside it or Escape.
CloseDialog ==
  /\ target # "none" /\ target' = "none" /\ index' = 0
  /\ UNCHANGED <<text, cursor, shown, fields, counted, status, paneQuery>>

\* Mutated: the number stays when the query changes.
KeptIndex(f) == index
\* Another query or case forgets the match, another replacement does not.
NewIndex(f) == IF f.query = fields.query /\ f.cased = fields.cased THEN index ELSE 0

SetFields(f) ==
  /\ target # "none" /\ f # fields
  /\ fields' = f /\ index' = NewIndex(f) /\ status' = Quiet
  /\ paneQuery' = IF target = "pane" THEN Applied(f) ELSE paneQuery
  /\ UNCHANGED <<text, cursor, shown, target, counted>>

\* Every command refuses an empty field.
RefuseEmpty ==
  /\ target # "none" /\ fields.query = <<>> /\ status' = Says("noquery", 0, 0)
  /\ UNCHANGED <<text, cursor, shown, target, fields, index, counted, paneQuery>>

\* A command in the source pane runs in its own editor, with the dialog's query.
PaneCommand ==
  /\ target = "pane" /\ fields.query # <<>>
  /\ paneQuery' = Applied(fields)
  /\ status' \in {Quiet, Says("none", 0, 0), Says("replaced", 0, 0)}
  /\ UNCHANGED <<text, cursor, shown, target, fields, index, counted>>

InDocument == target = "document" /\ fields.query # <<>>

NothingFound ==
  /\ InDocument /\ Matches = <<>> /\ status' = Says("none", 0, 0)
  /\ UNCHANGED <<text, cursor, shown, target, fields, index, counted, paneQuery>>

\* The match the number names, when the cursor is still in it.
AtCurrent ==
  index \in DOMAIN Matches /\ Matches[index].from <= cursor /\ cursor <= Matches[index].to

NextMatch == After(Matches, IF AtCurrent THEN Matches[index].to ELSE cursor)
PreviousMatch == Before(Matches, IF AtCurrent THEN Matches[index].from ELSE cursor)

\* What there is of a match in the document.
Within(m, t) == [from |-> Least(m.from, Len(t)), to |-> Least(m.to, Len(t))]

\* revealMatch: the match is selected, with the cursor at its end.
Reveal(k) ==
  /\ InDocument /\ Matches # <<>>
  /\ index' = k /\ shown' = Within(Matches[k], text) /\ cursor' = shown'.to /\ counted' = text
  /\ status' = Says("match", k, Len(Matches))
  /\ UNCHANGED <<text, target, fields, paneQuery>>

FindNext == Reveal(NextMatch)
FindPrevious == Reveal(PreviousMatch)

\* applyDocument draws the document again with the cursor where it was: what is
\* selected meanwhile does not last.
Drawn(t) ==
  /\ Len(t) <= MaxText /\ text' = t /\ shown' = NoRange
  /\ cursor' = IF cursor > Len(t) THEN Len(t) ELSE cursor

\* The match to replace: the one of the number, or the next.
Chosen == IF index = 0 THEN After(Matches, cursor) ELSE index

\* replaceInDocument: a number behind the last match raises an error.
ReplaceNext ==
  /\ InDocument /\ Matches # <<>> /\ Chosen \in DOMAIN Matches
  /\ Drawn(Put(text, Matches[Chosen], fields.replace))
  /\ LET left == Len(MatchesOf(text', fields))
     IN  index' = IF Chosen < left THEN Chosen ELSE left
  /\ counted' = text' /\ status' = Says("replaced", 0, 0)
  /\ UNCHANGED <<target, fields, paneQuery>>

ReplaceEvery ==
  /\ InDocument /\ Matches # <<>>
  /\ Drawn(AllPut(text, Matches, fields.replace))
  /\ index' = 0 /\ counted' = text' /\ status' = Says("replaced", 0, Len(Matches))
  /\ UNCHANGED <<target, fields, paneQuery>>

\* An answer of the AI or another tab's draft replaces the document; the dialog
\* is not told, and no unit is open any more.
DocumentReplaced(t) ==
  /\ t # text /\ text' = t /\ cursor' = 0 /\ shown' = NoRange
  /\ UNCHANGED <<target, fields, index, counted, status, paneQuery>>

\* With the dialog closed the user puts the cursor anywhere.
PlaceCursor(p) ==
  /\ target = "none" /\ p \in 0 .. Len(text) /\ p # cursor /\ cursor' = p /\ shown' = NoRange
  /\ UNCHANGED <<text, target, fields, index, counted, status, paneQuery>>

Next ==
  \/ \E k \in {"document", "pane"}, q \in Queries : OpenDialog(k, q)
  \/ CloseDialog \/ RefuseEmpty \/ PaneCommand \/ NothingFound
  \/ \E f \in Fields : SetFields(f)
  \/ FindNext \/ FindPrevious \/ ReplaceNext \/ ReplaceEvery
  \/ \E t \in Documents : DocumentReplaced(t)
  \/ \E p \in 0 .. MaxText : PlaceCursor(p)

Spec == Init /\ [][Next]_vars

-----------------------------------------------------------------------------
\* While nobody else has changed the document, the match the number names is the
\* one selected, and "k / n" counts the matches there are; the source pane's
\* editor searches for what the dialog shows.
SearchShowsMatch ==
  /\ target = "document" /\ counted = text /\ index > 0 =>
       /\ index \in DOMAIN Matches
       /\ shown # NoRange => shown = Within(Matches[index], text)
       /\ status.says = "match" => status = Says("match", index, Len(Matches))
  /\ target = "pane" /\ fields.query # <<>> => paneQuery = fields

\* What every occurrence, read from left to right, is put for.
Substituted(t, f) ==
  LET needle == Folded(f.query, f.cased)
      n == Len(needle)
      rest[i \in 0 .. Len(t) + n] ==
        IF i >= Len(t) THEN <<>>
        ELSE IF i + n <= Len(t) /\ Folded(SubSeq(t, i + 1, i + n), f.cased) = needle
             THEN f.replace \o rest[i + n]
        ELSE <<t[i + 1]>> \o rest[i + 1]
  IN  rest[0]

\* Folding moves the places of what stands behind a letter it lengthens.
Lengthened(t, f) == Len(Folded(t, f.cased)) # Len(t)

\* Replacing changes nothing but occurrences of the query: all of them at once, or
\* one, and then the one that is selected when one is.  (In a text that folding
\* lengthens what is selected and replaced is not what was searched for; still
\* the one replaced is the one that was selected.)
ReplacesShown ==
  status' # status /\ status'.says = "replaced" /\ target = "document" =>
    \/ status'.of = Len(Matches) /\ (Lengthened(text, fields) \/ text' = Substituted(text, fields))
    \/ \E m \in ToSet(Matches) :
         /\ text' = Put(text, m, fields.replace)
         /\ ~Lengthened(text, fields) => Folded(SubSeq(text, m.from + 1, m.to), fields.cased)
                                           = Folded(fields.query, fields.cased)
         /\ counted = text /\ shown # NoRange /\ index > 0 => Within(m, text) = shown
=============================================================================
