---------------------------- MODULE MemoPickers ----------------------------
(***************************************************************************)
(* The three places where a memo is searched for and chosen: the picker of *)
(* a form, the board's dialog to add a memo, and the notebook's dialog.    *)
(* Each waits a little after typing and then asks the server; answers may  *)
(* come in any order, or fail.  The notebook's dialog alone aborts the     *)
(* request before.                                                         *)
(***************************************************************************)
EXTENDS Integers, Sequences, FiniteSets, SequencesExt

CONSTANTS
  Queries,     \* what a user types; "" is among them
  Found,       \* Found[q]: the memos the server finds, in order
  Titles,      \* Titles[m]: a memo's title
  NoMemo,
  MaxCalls     \* bound of this model: requests a user waits for at a time

PickersAssumption ==
  /\ "" \in Queries /\ Found \in [Queries -> Seq(DOMAIN Titles)]
  /\ NoMemo \notin DOMAIN Titles /\ MaxCalls \in Nat

VARIABLES
  kind,      \* which of the three
  field,     \* the query field
  timer,     \* the debounce timer runs
  calls,     \* queries asked and not answered, in order
  asked,     \* the last one asked
  failed,    \* its request failed
  shown,     \* the query whose results are listed
  active,    \* the highlighted result, 0 for none
  open,      \* the panel or dialog is open
  closing,   \* the timer that closes the panel runs
  down,      \* the pointer is pressed in the panel
  memo,      \* the hidden memo id
  posts      \* memos being added to the board

vars == <<kind, field, timer, calls, asked, failed, shown, active, open, closing, down, memo, posts>>

Memos == DOMAIN Titles
Texts == Queries \cup {Titles[m] : m \in Memos}
\* What the server finds for a text: a title finds its memo.
Results(q) == IF q \in Queries THEN Found[q] ELSE SelectSeq(SetToSeq(Memos), LAMBDA m : Titles[m] = q)

TypeOK ==
  /\ kind \in {"picker", "board", "notebook"}
  /\ field \in Texts /\ asked \in Texts \cup {NoMemo} /\ shown \in Texts \cup {NoMemo}
  /\ calls \in Seq(Texts) /\ posts \in Seq(Memos)
  /\ {timer, failed, open, closing, down} \subseteq BOOLEAN
  /\ active \in 0 .. (IF shown = NoMemo THEN 0 ELSE Len(Results(shown)))
  /\ memo \in Memos \cup {NoMemo}

Init ==
  /\ kind \in {"picker", "board", "notebook"}
  /\ field = "" /\ timer = (kind = "picker") /\ calls = <<>> /\ asked = NoMemo /\ failed = FALSE
  /\ shown = NoMemo /\ active = 0 /\ open = FALSE /\ closing = FALSE /\ down = FALSE
  /\ memo = NoMemo /\ posts = <<>>

-----------------------------------------------------------------------------
\* Searching

\* Mutated: the memo stays chosen.
TypedKeeps(q) == field' = q /\ memo' = memo
\* Typing into the picker or the notebook's dialog forgets the memo chosen before.
Typed(q) == field' = q /\ memo' = NoMemo

PickerInput(q) ==
  /\ kind = "picker" /\ Typed(q) /\ timer' = TRUE
  /\ UNCHANGED <<kind, calls, asked, failed, shown, active, open, closing, down, posts>>

NotebookInput(q) ==
  /\ kind = "notebook" /\ open /\ Typed(q) /\ timer' = TRUE
  /\ UNCHANGED <<kind, calls, asked, failed, shown, active, open, closing, down, posts>>

BoardInput(q) ==
  /\ kind = "board" /\ open /\ field' = q /\ timer' = TRUE
  /\ UNCHANGED <<kind, calls, asked, failed, shown, active, open, closing, down, memo, posts>>

\* The timer fires: the request names what the field says now.
PickerFetch ==
  /\ kind = "picker" /\ timer /\ Len(calls) < MaxCalls
  /\ timer' = FALSE /\ calls' = Append(calls, field) /\ asked' = field /\ failed' = FALSE
  /\ UNCHANGED <<kind, field, shown, active, open, closing, down, memo, posts>>

BoardFetch ==
  /\ kind = "board" /\ timer /\ Len(calls) < MaxCalls
  /\ timer' = FALSE /\ calls' = Append(calls, field) /\ asked' = field /\ failed' = FALSE
  /\ UNCHANGED <<kind, field, shown, active, open, closing, down, memo, posts>>

\* Mutated: the request before is not aborted.
AndAsked(cs, q) == Append(cs, q)
\* The notebook's dialog aborts the request before.
OnlyAsked(cs, q) == <<q>>

NotebookFetch ==
  /\ kind = "notebook" /\ timer /\ Len(calls) < MaxCalls
  /\ timer' = FALSE /\ calls' = OnlyAsked(calls, field) /\ asked' = field /\ failed' = FALSE
  /\ UNCHANGED <<kind, field, shown, active, open, closing, down, memo, posts>>

\* Answer i arrives and its results are listed; the picker highlights the first.
PickerRender(i) ==
  /\ kind = "picker" /\ calls' = RemoveAt(calls, i) /\ shown' = calls[i]
  /\ active' = IF Results(calls[i]) = <<>> THEN 0 ELSE 1
  /\ UNCHANGED <<kind, field, timer, asked, failed, open, closing, down, memo, posts>>

BoardRender(i) ==
  /\ kind = "board" /\ calls' = RemoveAt(calls, i) /\ shown' = calls[i]
  /\ UNCHANGED <<kind, field, timer, asked, failed, active, open, closing, down, memo, posts>>

NotebookRender(i) ==
  /\ kind = "notebook" /\ calls' = RemoveAt(calls, i) /\ shown' = calls[i]
  /\ UNCHANGED <<kind, field, timer, asked, failed, active, open, closing, down, memo, posts>>

\* Or it fails: what is listed stays.
FetchFails(i) ==
  /\ calls' = RemoveAt(calls, i) /\ failed' = (failed \/ i = Len(calls))
  /\ UNCHANGED <<kind, field, timer, asked, shown, active, open, closing, down, memo, posts>>

-----------------------------------------------------------------------------
\* The picker's panel

PickerOpen ==
  /\ kind = "picker" /\ open' = TRUE /\ timer' = TRUE
  /\ UNCHANGED <<kind, field, calls, asked, failed, shown, active, closing, down, memo, posts>>

PickerCloseLater ==
  /\ kind = "picker" /\ open /\ closing' = TRUE
  /\ UNCHANGED <<kind, field, timer, calls, asked, failed, shown, active, open, down, memo, posts>>

Closed == open' = FALSE /\ active' = 0

\* The timer closes the panel, whoever has focused it since, unless the pointer is down.
PickerCloseTimer ==
  /\ closing /\ closing' = FALSE
  /\ IF down THEN UNCHANGED <<open, active>> ELSE Closed
  /\ UNCHANGED <<kind, field, timer, calls, asked, failed, shown, down, memo, posts>>

Pointer(pressed) ==
  /\ kind = "picker" /\ down # pressed /\ (pressed => open) /\ down' = pressed
  /\ UNCHANGED <<kind, field, timer, calls, asked, failed, shown, active, open, closing, memo, posts>>

\* A choice fills the hidden id and the field.
Applied(m) == memo' = m /\ field' = Titles[m]

\* Keys of an open panel: escape, the arrows, enter on a highlighted result.
PickerKey ==
  /\ kind = "picker" /\ open
  /\ \/ Closed /\ UNCHANGED <<memo, field>>
     \/ /\ shown # NoMemo /\ Results(shown) # <<>>
        /\ active' \in {a \in {active - 1, active + 1} : 1 <= a /\ a <= Len(Results(shown))}
        /\ UNCHANGED <<open, memo, field>>
     \/ active > 0 /\ Applied(Results(shown)[active]) /\ Closed
  /\ UNCHANGED <<kind, timer, calls, asked, failed, shown, closing, down, posts>>

PickerSelect(m) ==
  /\ kind = "picker" /\ open /\ shown # NoMemo /\ m \in ToSet(Results(shown))
  /\ Applied(m) /\ Closed
  /\ UNCHANGED <<kind, timer, calls, asked, failed, shown, closing, down, posts>>

-----------------------------------------------------------------------------
\* The dialogs

BoardOpen ==
  /\ kind = "board" /\ ~open /\ open' = TRUE /\ timer' = TRUE
  /\ UNCHANGED <<kind, field, calls, asked, failed, shown, active, closing, down, memo, posts>>

\* The notebook's dialog starts with an empty form and searches at once.
NotebookOpen ==
  /\ kind = "notebook" /\ ~open /\ open' = TRUE /\ timer' = TRUE
  /\ field' = "" /\ memo' = NoMemo
  /\ UNCHANGED <<kind, calls, asked, failed, shown, active, closing, down, posts>>

DialogClose ==
  /\ kind # "picker" /\ open /\ open' = FALSE
  /\ UNCHANGED <<kind, field, timer, calls, asked, failed, shown, active, closing, down, memo, posts>>

NotebookSelect(m) ==
  /\ kind = "notebook" /\ open /\ shown # NoMemo /\ m \in ToSet(Results(shown)) /\ Applied(m)
  /\ UNCHANGED <<kind, timer, calls, asked, failed, shown, active, open, closing, down, posts>>

\* The picker's form or the notebook's goes with the chosen memo, to a new page.
Submit ==
  /\ memo # NoMemo /\ (kind = "notebook" => open)
  /\ field' = "" /\ timer' = (kind = "picker") /\ calls' = <<>> /\ asked' = NoMemo
  /\ failed' = FALSE /\ shown' = NoMemo /\ active' = 0 /\ open' = FALSE /\ closing' = FALSE
  /\ down' = FALSE /\ memo' = NoMemo
  /\ UNCHANGED <<kind, posts>>

\* A click on the board's list posts the memo; the answer closes the dialog.
BoardAdd(m) ==
  /\ kind = "board" /\ open /\ shown # NoMemo /\ m \in ToSet(Results(shown)) /\ Len(posts) < MaxCalls
  /\ posts' = Append(posts, m)
  /\ UNCHANGED <<kind, field, timer, calls, asked, failed, shown, active, open, closing, down, memo>>

BoardAdded(i) ==
  /\ posts' = RemoveAt(posts, i)
  /\ open' \in {open, FALSE}
  /\ UNCHANGED <<kind, field, timer, calls, asked, failed, shown, active, closing, down, memo>>

Next ==
  \/ \E q \in Queries : PickerInput(q) \/ NotebookInput(q) \/ BoardInput(q)
  \/ PickerFetch \/ BoardFetch \/ NotebookFetch
  \/ \E i \in DOMAIN calls : PickerRender(i) \/ BoardRender(i) \/ NotebookRender(i) \/ FetchFails(i)
  \/ PickerOpen \/ PickerCloseLater \/ PickerCloseTimer \/ PickerKey
  \/ \E b \in BOOLEAN : Pointer(b)
  \/ \E m \in Memos : PickerSelect(m) \/ NotebookSelect(m) \/ BoardAdd(m)
  \/ BoardOpen \/ NotebookOpen \/ DialogClose \/ Submit
  \/ \E i \in DOMAIN posts : BoardAdded(i)

Spec == Init /\ [][Next]_vars

-----------------------------------------------------------------------------
\* The id a form will send is that of the memo whose title its field shows,
\* whatever was typed, opened, answered and highlighted in between.
ChosenIsShown == memo # NoMemo => field = Titles[memo]

\* The notebook's dialog lists what it has asked last once that is answered: the
\* answer to an earlier text never takes its place.
LastAskedIsListed ==
  kind = "notebook" /\ calls = <<>> /\ asked # NoMemo /\ ~failed => shown = asked
=============================================================================
