------------------------------- MODULE AiPanel -------------------------------
(***************************************************************************)
(* The assistant's panel beside a memo (memo_ai_panel_controller.js) and   *)
(* what its answers do to the body (applyAiEdit, adoc_edit_targets.js).    *)
(* A question waits for the context of the caret, then for the answer; an  *)
(* answer that edits goes to where the caret is by then.  The user may     *)
(* type, move the caret, clear the talk and leave in between.              *)
(***************************************************************************)
EXTENDS Integers, Sequences, FiniteSets, FiniteSetsExt, SequencesExt

CONSTANTS
  Docs,        \* bodies: lines that are "=", "==", "" or text
  Answer,      \* the line an answer brings
  Roles, Role, \* the models one may ask, and the one asked at first
  None,
  MaxTurns, MaxEdits   \* bounds of this model

LevelOf == [l \in {"=", "=="} |-> IF l = "=" THEN 1 ELSE 2]
PanelAssumption ==
  /\ \A d \in Docs : d # <<>> /\ ToSet(d) \subseteq STRING /\ Role \in Roles /\ None \notin Roles
  /\ MaxTurns \in Nat /\ MaxEdits \in Nat

VARIABLES
  editing,   \* the page edits the memo, or shows it
  doc,       \* the body; on a page that shows the memo, the stored one
  caret,     \* the line the caret is on
  selected,  \* that line is selected
  include,   \* the checkbox: the selection is part of the context
  history,   \* the messages
  sending,   \* the button is disabled
  asked,     \* the questions under way
  inserting, \* the answer that is being appended to the stored memo
  message,   \* what the panel says: a status, an error, or both
  timer,     \* the status will go
  role, saved, options, refresh,   \* the choice of a model and its refresh
  turns, edits   \* counters

talk == <<history, sending, asked>>
text == <<doc, caret, selected>>
model == <<role, saved, options, refresh>>
vars == <<editing, text, include, talk, inserting, message, timer, model, turns, edits>>

TypeOK ==
  /\ editing \in BOOLEAN /\ selected \in BOOLEAN /\ include \in BOOLEAN /\ sending \in BOOLEAN
  /\ doc # <<>> /\ caret \in DOMAIN doc /\ timer \in BOOLEAN /\ inserting \in BOOLEAN
  /\ history \in Seq([role : {"user", "assistant"}, turn : 1 .. MaxTurns])
  /\ asked \subseteq [turn : 1 .. MaxTurns, stage : {"context", "sent", "unit"}, include : BOOLEAN,
                      range : Nat \X Nat]
  /\ message \subseteq {"status", "error"}
  /\ role \in Roles /\ saved \in Roles \cup {None} /\ options \subseteq Roles
  /\ refresh \in Roles \cup {None} /\ turns \in Nat /\ edits \in Nat

\* connect: the role chosen last, and a refresh of the choices.
Init ==
  /\ editing \in BOOLEAN /\ doc \in Docs /\ caret = 1 /\ selected = FALSE /\ include = TRUE
  /\ history = <<>> /\ sending = FALSE /\ asked = {} /\ inserting = FALSE
  /\ message = {} /\ timer = FALSE /\ options = Roles /\ saved \in Roles \cup {None}
  /\ role = (IF saved = None THEN Role ELSE saved) /\ refresh = role /\ turns = 0 /\ edits = 0

-----------------------------------------------------------------------------
\* Where an edit goes: line ranges of the body.

Level(l) == IF l \in DOMAIN LevelOf THEN LevelOf[l] ELSE 0

Headings(d) == {i \in DOMAIN d : Level(d[i]) > 0}

\* Mutated: a heading of the same level does not end a section.
EndsBelow(d, start) == {i \in Headings(d) : i > start /\ Level(d[i]) < Level(d[start])}
\* A section ends before the next heading that is not below its own.
Ends(d, start) == {i \in Headings(d) : i > start /\ Level(d[i]) <= Level(d[start])}

\* sectionRangeAtLine: from the heading above the line; none before the first.
SectionAt(d, line) ==
  LET above == {i \in Headings(d) : i <= line}
      start == Max(above)
  IN  IF above = {} THEN {}
      ELSE {<<start, IF Ends(d, start) = {} THEN Len(d) ELSE Min(Ends(d, start)) - 1>>}

\* The units of a body of headings and texts.
Units(d) ==
  {u \in (DOMAIN d) \X (DOMAIN d) :
     \/ u[1] = u[2] /\ u[1] \in Headings(d)
     \/ LET Text(i) == i \in DOMAIN d /\ d[i] # "" /\ i \notin Headings(d)
        IN  u[1] <= u[2] /\ (\A i \in u[1] .. u[2] : Text(i)) /\ ~Text(u[1] - 1) /\ ~Text(u[2] + 1)}

\* unitRangeAtLine and getActiveUnitIndex: the unit on the line, or the next, or the last.
UnitAt(d, line) ==
  LET on == {u \in Units(d) : u[1] <= line /\ line <= u[2]}
      after == {u \in Units(d) : u[1] > line}
  IN  IF Units(d) = {} THEN <<1, Len(d)>>
      ELSE IF on # {} THEN CHOOSE u \in on : TRUE
      ELSE IF after # {} THEN CHOOSE u \in after : \A v \in after : u[1] <= v[1]
      ELSE CHOOSE u \in Units(d) : \A v \in Units(d) : u[1] >= v[1]

\* replaceLineRange: the end is cut to the body there is.
Replaced(d, r) ==
  SubSeq(d, 1, r[1] - 1) \o <<Answer>> \o SubSeq(d, Min({r[2], Len(d)}) + 1, Len(d))

\* The body after an edit; the caret stays where it can.
Put(d) == doc' = d /\ caret' = Min({caret, Len(d)}) /\ selected' = FALSE

-----------------------------------------------------------------------------
\* The user

User == edits < MaxEdits /\ edits' = edits + 1

\* A line is typed below the caret's.
Type(l) ==
  /\ User /\ editing /\ doc' = InsertAt(doc, caret + 1, l) /\ caret' = caret + 1 /\ selected' = FALSE
  /\ UNCHANGED <<editing, include, talk, inserting, message, timer, model, turns>>

PointAt(line, select) ==
  /\ User /\ editing /\ caret' = line /\ selected' = select
  /\ UNCHANGED <<editing, doc, include, talk, inserting, message, timer, model, turns>>

IncludeSelection ==
  /\ User /\ include' = ~include
  /\ UNCHANGED <<editing, text, talk, inserting, message, timer, model, turns>>

\* modelRoleChanged.
ChooseRole(r) ==
  /\ User /\ r \in options /\ r # role /\ role' = r /\ saved' = r
  /\ UNCHANGED <<editing, text, include, talk, inserting, message, timer, options, refresh, turns>>

\* refreshModelOptions: back to the role that was chosen when it was asked for.
RefreshModelOptions(new) ==
  /\ refresh # None /\ refresh' = None
  /\ IF new = {} THEN UNCHANGED <<role, options>>
     ELSE options' = new /\ role' \in (IF refresh \in new THEN {refresh} ELSE new)
  /\ UNCHANGED <<editing, text, include, talk, inserting, message, timer, saved, turns, edits>>

ShowStatus == message' = message \cup {"status"} /\ timer' = TRUE
ShowError == message' = {"error"} /\ timer' = FALSE
ClearError == message' = message \ {"error"} /\ timer' = timer
ShowOnlyStatus == message' = {"status"} /\ timer' = TRUE

StatusTimer ==
  /\ timer /\ timer' = FALSE /\ message' = message \ {"status"}
  /\ UNCHANGED <<editing, text, include, talk, inserting, model, turns, edits>>

-----------------------------------------------------------------------------
\* A question

Message(who, n) == [role |-> who, turn |-> n]

\* Mutated: the button is given back while the context is read.
BusyOnceAsked == FALSE
Busy == TRUE

\* send, up to the context it waits for.
Send ==
  /\ ~sending /\ turns < MaxTurns /\ turns' = turns + 1
  /\ history' = Append(history, Message("user", turns')) /\ sending' = Busy
  /\ asked' = asked \cup {[turn |-> turns', stage |-> "context", include |-> include,
                           range |-> <<1, 0>>]}
  /\ ClearError
  /\ UNCHANGED <<editing, text, include, inserting, model, edits>>

Becomes(q, r) == asked' = (asked \ {q}) \cup {r}

\* getEditContext is there and the question goes out with the messages there are.
Ask(q) ==
  /\ q.stage = "context" /\ Becomes(q, [q EXCEPT !.stage = "sent"])
  /\ UNCHANGED <<editing, text, include, history, sending, inserting, message, timer, model, turns, edits>>

\* The end of send, whatever came of it.
Over(q) == asked' = asked \ {q} /\ sending' = FALSE

Fails(q) ==
  /\ q.stage = "sent" /\ Over(q) /\ ShowError
  /\ UNCHANGED <<editing, text, include, history, inserting, model, turns, edits>>

Answered(q) == q.stage = "sent" /\ history' = Append(history, Message("assistant", q.turn))

\* An answer without an edit, or one there is no editor for.
AnsweredOnly(q) ==
  /\ Answered(q) /\ Over(q)
  /\ UNCHANGED <<editing, text, include, inserting, message, timer, model, turns, edits>>

Applied(d) == Put(d) /\ ShowStatus
Refused == UNCHANGED text /\ ShowError

\* applyEditFromResponse: the selection of by now, if the question came with one.
EditSelection(q) ==
  /\ Answered(q) /\ editing /\ Over(q)
  /\ IF q.include /\ selected THEN Applied(ReplaceAt(doc, caret, Answer)) ELSE Refused
  /\ UNCHANGED <<editing, include, inserting, model, turns, edits>>

EditBody(q) ==
  /\ Answered(q) /\ editing /\ Over(q) /\ Applied(<<Answer>>)
  /\ UNCHANGED <<editing, include, inserting, model, turns, edits>>

EditSection(q) ==
  /\ Answered(q) /\ editing /\ Over(q)
  /\ IF SectionAt(doc, caret) = {} THEN Refused
     ELSE \E r \in SectionAt(doc, caret) : Applied(Replaced(doc, r))
  /\ UNCHANGED <<editing, include, inserting, model, turns, edits>>

\* The unit is looked for in the body of now, and replaced once it is found.
EditUnit(q) ==
  /\ Answered(q) /\ editing
  /\ Becomes(q, [q EXCEPT !.stage = "unit", !.range = UnitAt(doc, caret)])
  /\ UNCHANGED <<editing, text, include, sending, inserting, message, timer, model, turns, edits>>

UnitFound(q) ==
  /\ q.stage = "unit" /\ Applied(Replaced(doc, q.range)) /\ Over(q)
  /\ UNCHANGED <<editing, include, history, inserting, model, turns, edits>>

ClearChat ==
  /\ User /\ history # <<>> /\ history' = <<>> /\ ClearError
  /\ UNCHANGED <<editing, text, include, sending, asked, inserting, model, turns>>

-----------------------------------------------------------------------------
\* insertLastReply

HasReply == \E i \in DOMAIN history : history[i].role = "assistant"

InsertNothing ==
  /\ User /\ ~HasReply /\ ~inserting /\ ShowError
  /\ UNCHANGED <<editing, text, include, talk, inserting, model, turns>>

\* In an editor: at the caret.
InsertAtCaret ==
  /\ User /\ HasReply /\ editing
  /\ doc' = InsertAt(doc, caret, Answer) /\ caret' = caret + 1 /\ selected' = FALSE
  /\ ShowOnlyStatus
  /\ UNCHANGED <<editing, include, talk, inserting, model, turns>>

\* Without: at the end of the stored memo.
AppendReply ==
  /\ User /\ HasReply /\ ~editing /\ ~inserting /\ inserting' = TRUE
  /\ UNCHANGED <<editing, text, include, talk, message, timer, model, turns>>

Appended(ok) ==
  /\ inserting /\ inserting' = FALSE
  /\ doc' = IF ok THEN Append(doc, Answer) ELSE doc
  /\ IF ok THEN ShowOnlyStatus ELSE ShowError
  /\ UNCHANGED <<editing, caret, selected, include, talk, model, turns, edits>>

Next ==
  \/ \E l \in {"=", "a"} : Type(l)
  \/ \E line \in DOMAIN doc, b \in BOOLEAN : PointAt(line, b)
  \/ IncludeSelection \/ \E r \in Roles : ChooseRole(r)
  \/ \E new \in SUBSET Roles : RefreshModelOptions(new)
  \/ StatusTimer \/ Send
  \/ \E q \in asked : \/ Ask(q) \/ Fails(q) \/ AnsweredOnly(q) \/ EditSelection(q) \/ EditBody(q)
                      \/ EditSection(q) \/ EditUnit(q) \/ UnitFound(q)
  \/ ClearChat \/ InsertNothing \/ InsertAtCaret \/ AppendReply
  \/ \E ok \in BOOLEAN : Appended(ok)

Spec == Init /\ [][Next]_vars

-----------------------------------------------------------------------------
\* Every answer stands behind its own question, or first in a talk that was
\* cleared meanwhile: no two questions are ever under way (send, clearChat).
AnswersFollowQuestions ==
  \A i \in 2 .. Len(history) : history[i].role = "assistant" =>
    history[i - 1].role = "user" /\ history[i - 1].turn = history[i].turn

\* An edit of a section takes no heading of its level or above from the body but
\* the section's own, however the body was typed on meanwhile (sectionRangeAtLine).
EditKeepsSections ==
  (\E q \in asked : EditSection(q)) /\ doc' # doc =>
    LET own == Max({i \in Headings(doc) : i <= caret})
        High(l) == Level(l) > 0 /\ Level(l) <= Level(doc[own])
    IN  SelectSeq(doc', High) = SelectSeq(RemoveAt(doc, own), High)
=============================================================================
