---------------------------- MODULE EditorSession ----------------------------
(***************************************************************************)
(* The body of one memo in its editor: memo_body_editor_controller.js (the *)
(* textarea that is saved, the CodeMirror source pane, the mode tabs) and  *)
(* adoc-wysiwyg (one element per edit unit, one of them open as source, a  *)
(* debounced sync to the textarea, a debounced split, asynchronous         *)
(* rendering, and an undo history of whole documents).                     *)
(*                                                                         *)
(* A document is a sequence of paragraphs, joined by blank lines; Empty is *)
(* a paragraph of no text.  Open ... Close is a delimited block, and what  *)
(* is between them stays one edit unit.                                    *)
(***************************************************************************)
EXTENDS Naturals, Sequences, SequencesExt, FiniteSets

CONSTANTS
  Text, Open, Close, Table, Empty,
  Saved,        \* documents the memo may be opened with
  Puts,         \* documents put in from outside, or typed in the source pane
  Uploads,      \* what uploads insert
  Typed,        \* what one unit may be edited to
  Replacement,  \* search and replace: paragraph -> paragraph
  Gestures,     \* what the user does in this instance
  MaxTyped, MaxGestures, MaxHistory, MaxRenders, NoSource, NoSplit

Pieces == Text \cup {Open, Close, Table}
Docs == Seq(Pieces \cup {Empty})

ASSUME PiecesAssumption ==
  Empty \notin Pieces /\ Cardinality({Open, Close, Table}) = 3 /\ Text \cap {Open, Close, Table} = {}
ASSUME SavedAssumption == Saved \cup Puts \cup Typed \subseteq Seq(Pieces) /\ Uploads \subseteq Text
ASSUME ReplacementAssumption == Replacement \in [Text -> Text]
ASSUME BoundAssumption == {MaxTyped, MaxGestures, MaxHistory, MaxRenders} \subseteq Nat
ASSUME NoSourceAssumption == NoSource \notin Docs

VARIABLES
  mode,     \* _editMode
  shown,    \* the pane on the screen
  opening,  \* the source a switch to WYSIWYG read before it waited
  field,    \* the textarea: what a save sends
  cm,       \* the document of the source pane
  ed,       \* the WYSIWYG editor
  hist,     \* its history
  typed, gestures   \* counters

vars == <<mode, shown, opening, field, cm, ed, hist, typed, gestures>>

Units == [adoc : Seq(Pieces), host : Seq(Pieces), live : BOOLEAN, holder : BOOLEAN]
SplitCalls == [text : Seq(Pieces), enter : BOOLEAN]
Renders == [source : Docs, cursor : Nat, kind : {"load", "body", "history"},
            left : Seq(Seq(Pieces))]
Entries == [source : Docs, cursor : Nat]

TypeOK ==
  /\ mode \in {"source", "wysiwyg"} /\ shown \in {"source", "wysiwyg"}
  /\ opening \in Docs \cup {NoSource} /\ field \in Docs /\ cm \in Docs
  /\ ed \in [units : Seq(Units), active : Nat, composing : BOOLEAN,
             syncTimer : BOOLEAN, splitTimer : BOOLEAN,
             split : SplitCalls \cup {NoSplit}, rendering : BOOLEAN, applying : BOOLEAN,
             renders : Seq(Renders)]
  /\ ed.active <= Len(ed.units)
  /\ hist \in [undo : Seq(Entries), redo : Seq(Entries), current : Entries]
  /\ typed \in Nat /\ gestures \in Nat

-----------------------------------------------------------------------------
\* Documents

\* normalizeDocumentSource: no blank end.
Normal(d) ==
  LET last == {i \in DOMAIN d : d[i] # Empty}
  IN  IF last = {} THEN <<>> ELSE SubSeq(d, 1, CHOOSE i \in last : \A j \in last : j <= i)

\* buildSourceSegments: the paragraphs between the blank lines.
Segments(d) == SelectSeq(d, LAMBDA p : p # Empty)

\* One step of parseEditUnitsFromSource: a paragraph joins the delimited block
\* that is still open and begins a unit otherwise.
AddPiece(us, p) ==
  IF us # <<>> /\ Head(Last(us)) = Open /\ Last(Last(us)) # Close
  THEN ReplaceAt(us, Len(us), Append(Last(us), p))
  ELSE Append(us, <<p>>)

\* parseEditUnitsFromSource on a document of paragraphs and delimited blocks.
Parse(d) ==
  IF Segments(d) = <<>> THEN <<<<>>>> ELSE FoldLeft(AddPiece, <<>>, Segments(d))

\* findChangeCursorPosition, to the paragraph (0: none).
ChangeCursor(restored, other, fallback) ==
  LET differ == {i \in DOMAIN restored : i > Len(other) \/ restored[i] # other[i]}
      longer == Len(restored) - Len(other)
      tail == {i \in DOMAIN restored :
                 i - longer < 1 \/ i - longer > Len(other) \/ restored[i] # other[i - longer]}
  IN  IF restored = other THEN fallback
      ELSE IF longer > 0 /\ tail # {} THEN CHOOSE i \in tail : \A j \in tail : j <= i
      ELSE IF differ # {} THEN CHOOSE i \in differ : \A j \in differ : i <= j
      ELSE Len(restored)

-----------------------------------------------------------------------------
\* Units

Rendered(t) == [adoc |-> t, host |-> <<>>, live |-> FALSE, holder |-> FALSE]
Live(t) == [adoc |-> t, host |-> t, live |-> TRUE, holder |-> FALSE]
Holder == [adoc |-> <<>>, host |-> <<>>, live |-> FALSE, holder |-> TRUE]

\* getUnitText.
UnitText(u) == IF u.live THEN u.host ELSE u.adoc

\* What a unit adds to the document when the texts are joined by blank lines.
Joined(t) == IF t = <<>> THEN <<Empty>> ELSE t

\* collectDocumentSegments: placeholders do not count.
Collected(us) == SelectSeq(us, LAMBDA u : ~u.holder)
Join(us) == FlattenSeq([i \in DOMAIN Collected(us) |-> Joined(UnitText(Collected(us)[i]))])

\* The text the user sees, blank lines aside.
Visible(us) == Segments(Join(us))

\* getActiveSegmentIndex: the position among the units, taken for a position
\* among the paragraphs of the document last synced.
ActiveSegment(e, h) ==
  LET segs == Segments(h.current.source)
      dom == Len(Collected(SubSeq(e.units, 1, e.active)))
      same == {i \in DOMAIN segs : <<segs[i]>> = e.units[e.active].host}
  IN  IF e.active = 0 THEN 0
      ELSE IF dom <= Len(segs) THEN dom
      ELSE IF same = {} THEN 0 ELSE CHOOSE i \in same : \A j \in same : i <= j

\* rebuildSourceReplacingSegment.
Rebuilt(source, i, text) ==
  LET segs == Segments(source)
  IN  Normal(FlattenSeq([k \in DOMAIN segs |-> IF k = i THEN Joined(text) ELSE <<segs[k]>>]))

\* getDocumentSourceForSync.
DocumentForSync(e, h) ==
  LET i == ActiveSegment(e, h)
  IN  IF i = 0 THEN Join(e.units) ELSE Rebuilt(h.current.source, i, e.units[e.active].host)

\* getCursorPositionForSync and getGlobalCursorPosition.
CursorForSync(e, h, next) ==
  IF ActiveSegment(e, h) <= Len(Segments(next)) THEN ActiveSegment(e, h) ELSE 0

-----------------------------------------------------------------------------
\* The history

\* commitHistoryChange.
Committed(h, next, cursor) ==
  LET before == Normal(h.current.source)
      undoAt == ChangeCursor(before, Normal(next), h.current.cursor)
  IN  IF Normal(next) = before THEN h
      ELSE [undo |-> Append(h.undo, [source |-> before, cursor |-> undoAt]),
            redo |-> <<>>, current |-> [source |-> Normal(next), cursor |-> cursor]]

Undone(h, cursor) ==
  [undo |-> Front(h.undo), current |-> Last(h.undo),
   redo |-> Append(h.redo, [source |-> h.current.source, cursor |-> cursor])]

Redone(h, cursor) ==
  [undo |-> Append(h.undo, [source |-> h.current.source, cursor |-> cursor]),
   current |-> Last(h.redo), redo |-> Front(h.redo)]

Fresh(d) == [undo |-> <<>>, redo |-> <<>>, current |-> [source |-> Normal(d), cursor |-> 0]]

-----------------------------------------------------------------------------
\* Opening and closing a unit

\* Mutated: the text stored at the last change event stands for the editor's.
ClosedAsStored(u) == Rendered(u.adoc)
\* A closed unit shows the text its editor held.
Closed(u) == Rendered(u.host)

\* An emptied unit goes, and the last one becomes a placeholder.
Emptied(us, i) == IF Len(us) = 1 THEN <<Holder>> ELSE RemoveAt(us, i)

\* deactivateSourceUnit.
Deactivated(e) ==
  IF e.active = 0 THEN e
  ELSE [e EXCEPT
    !.units = IF e.units[e.active].host # <<>> THEN ReplaceAt(@, e.active, Closed(@[e.active]))
              ELSE Emptied(@, e.active),
    !.active = 0, !.composing = FALSE, !.split = NoSplit]

\* activateSourceUnit on another unit; units left empty go.
Activated(e, i, text) ==
  LET kept == {j \in DOMAIN e.units : j = i \/ UnitText(e.units[j]) # <<>>}
      rank == [j \in kept |-> Cardinality({k \in kept : k <= j})]
      next == [n \in 1 .. Cardinality(kept) |->
                 LET j == CHOOSE k \in kept : rank[k] = n
                 IN  IF j = i THEN Live(text)
                     ELSE IF e.units[j].live THEN Closed(e.units[j]) ELSE e.units[j]]
  IN  IF e.active = i THEN e
      ELSE [e EXCEPT !.units = next, !.active = rank[i], !.composing = FALSE,
                     !.split = NoSplit]

\* revealDocumentOffset: open the unit with the change, as the paragraph the
\* source has there.
Revealed(e, source, cursor) ==
  LET segs == Segments(source)
      at == IF cursor = 0 THEN 1 ELSE IF cursor > Len(segs) THEN Len(segs) ELSE cursor
      texts == [i \in DOMAIN e.units |-> UnitText(e.units[i])]
      exact == {i \in DOMAIN texts : texts[i] = <<segs[at]>>}
      covering == {i \in DOMAIN texts : Len(FlattenSeq(SubSeq(texts, 1, i))) >= at}
      first(S) == CHOOSE i \in S : \A j \in S : i <= j
      target == IF at \in exact THEN at
                ELSE IF exact # {} THEN first(exact)
                ELSE IF covering # {} THEN first(covering) ELSE Len(texts)
  IN  IF segs = <<>> \/ texts = <<>> THEN e ELSE Activated(e, target, <<segs[at]>>)

NoTimers(e) == [e EXCEPT !.syncTimer = FALSE, !.splitTimer = FALSE]

\* renderFromSourceInternal up to its first await: the units are gone.
RenderBegun(e, d, cursor, kind) ==
  [NoTimers(e) EXCEPT !.units = <<>>, !.active = 0, !.composing = FALSE, !.split = NoSplit,
     !.rendering = TRUE, !.applying = TRUE,
     !.renders = Append(@, [source |-> d, cursor |-> cursor, kind |-> kind,
                            left |-> Parse(d)])]

Blank == [units |-> <<>>, active |-> 0, composing |-> FALSE, syncTimer |-> FALSE,
          splitTimer |-> FALSE, split |-> NoSplit, rendering |-> FALSE,
          applying |-> FALSE, renders |-> <<>>]

\* connect(): the mode last used is restored.
Init ==
  \E d \in Saved, preferred \in {"source", "wysiwyg"} :
    /\ mode = preferred /\ shown = "source"
    /\ opening = IF preferred = "wysiwyg" THEN d ELSE NoSource
    /\ field = d /\ cm = d /\ ed = Blank /\ hist = Fresh(<<>>)
    /\ typed = 0 /\ gestures = 0

-----------------------------------------------------------------------------
\* syncFromDom, flush and the textarea

\* syncFromDom stays away from a half-rendered document and from an IME.
SyncBlocked(e) == e.applying \/ e.rendering \/ e.composing

Synced(e, h) ==
  LET next == DocumentForSync(e, h)
  IN  IF SyncBlocked(e) THEN h ELSE Committed(h, next, CursorForSync(e, h, next))

\* The textarea after a sync: a sync that changed nothing tells nobody.
SyncedField(e, h, f) ==
  IF ~SyncBlocked(e) /\ Synced(e, h) # h THEN DocumentForSync(e, h) ELSE f

\* Mutated: a flush reads the document before it closes the open unit.
FlushedEarly(e, h) == h.current.source
\* flush: the open unit is closed and the units are what there is to save.
Flushed(e, h) == Join(Deactivated(e).units)

Gesture(g) ==
  /\ g \in Gestures /\ gestures < MaxGestures /\ gestures' = gestures + 1
  /\ Len(hist.undo) < MaxHistory

\* A gesture that may begin a render; how many overlap is a bound.
Rerendering(g) == Gesture(g) /\ Len(ed.renders) < MaxRenders

\* flushBodyToField, before a commit or a question to the assistant.
FlushBody ==
  /\ Gesture("flush") /\ mode = "wysiwyg" /\ opening = NoSource
  /\ ed' = NoTimers(Deactivated(ed))
  /\ hist' = Synced(Deactivated(ed), hist)
  /\ field' = Flushed(ed, hist)
  /\ UNCHANGED <<mode, shown, opening, cm, typed>>

\* Mutated: the source pane keeps what it held when WYSIWYG was opened.
PaneLeftStale(d) == cm
\* updateCodeMirrorSource.
PaneUpdated(d) == d

\* switchEditMode("source").
ToSource ==
  /\ Gesture("mode") /\ mode = "wysiwyg"
  /\ LET d == IF ed = Blank THEN field ELSE Flushed(ed, hist)
     IN  field' = d /\ cm' = PaneUpdated(d)
  /\ ed' = NoTimers(Deactivated(ed))
  /\ hist' = Synced(Deactivated(ed), hist)
  /\ mode' = "source" /\ shown' = "source"
  /\ UNCHANGED <<opening, typed>>

\* switchEditMode("wysiwyg"): the first time it waits for the editor's code.
\* One such wait at a time is a bound.  The pane can be typed in (TypeSource)
\* until the units are drawn, and they are drawn from the source read here.
ToWysiwyg ==
  /\ Rerendering("mode") /\ mode = "source" /\ opening = NoSource
  /\ mode' = "wysiwyg"
  /\ IF ed = Blank
     THEN opening' = cm /\ UNCHANGED <<ed, hist>>
     ELSE ed' = RenderBegun(ed, cm, 0, "load") /\ hist' = Fresh(cm) /\ UNCHANGED opening
  /\ UNCHANGED <<shown, field, cm, typed>>

\* The code is there: the source read before the wait is rendered.
OpenWysiwyg ==
  /\ opening # NoSource /\ opening' = NoSource
  /\ ed' = RenderBegun(ed, opening, 0, "load")
  /\ hist' = Fresh(opening)
  /\ UNCHANGED <<mode, shown, field, cm, typed, gestures>>

\* Typing in the source pane, which stays on the screen until the units are there.
TypeSource(d) ==
  /\ "source" \in Gestures /\ shown = "source" /\ d # cm
  /\ typed < MaxTyped /\ typed' = typed + 1
  /\ cm' = d /\ field' = d
  /\ UNCHANGED <<mode, shown, opening, ed, hist, gestures>>

-----------------------------------------------------------------------------
\* A document put in from outside

\* While the editor's code is awaited there is no editor, and all three put
\* what they bring in the pane that is still on the screen; the switch then
\* renders the source it read before.

\* applyExternalBody: the textarea was given another body.  In WYSIWYG it is
\* compared with the hidden source pane.
ResetBody(d) ==
  /\ Rerendering("reset")
  /\ field' = d
  /\ IF mode = "source" \/ ed = Blank
     THEN cm' = d /\ UNCHANGED <<ed, hist>>
     ELSE /\ UNCHANGED cm
          /\ IF d # cm \/ ed.units = <<>>
             THEN ed' = RenderBegun(ed, d, 0, "body") /\ hist' = Fresh(d)
             ELSE UNCHANGED <<ed, hist>>
  /\ UNCHANGED <<mode, shown, opening, typed>>

\* replaceDocumentBody, for an answer of the assistant.
ReplaceBody(d) ==
  /\ Rerendering("assistant")
  /\ field' = d
  /\ IF mode = "source" \/ ed = Blank
     THEN cm' = d /\ UNCHANGED <<ed, hist>>
     ELSE ed' = RenderBegun(ed, d, 0, "body") /\ hist' = Fresh(d) /\ UNCHANGED cm
  /\ UNCHANGED <<mode, shown, opening, typed>>

Changed(e, t) ==
  [e EXCEPT !.units[e.active] = [@ EXCEPT !.host = t, !.adoc = IF e.composing THEN @ ELSE t],
            !.syncTimer = @ \/ ~e.composing, !.splitTimer = @ \/ ~e.composing]

\* uploadFiles: what came of the files that were stored goes to the caret, or
\* behind the textarea's text when no unit is open.
InsertUpload(p) ==
  /\ Rerendering("upload")
  /\ IF mode = "source" \/ ed = Blank
     THEN cm' = Append(cm, p) /\ field' = cm' /\ UNCHANGED <<ed, hist>>
     ELSE IF ed.active # 0
     THEN ed' = Changed(ed, Append(ed.units[ed.active].host, p)) /\ UNCHANGED <<cm, field, hist>>
     ELSE /\ field' = Append(field, p) /\ UNCHANGED cm
          /\ ed' = RenderBegun(ed, field', 0, "body") /\ hist' = Fresh(field')
  /\ UNCHANGED <<mode, shown, opening, typed>>

-----------------------------------------------------------------------------
\* In the WYSIWYG editor

Editing == /\ UNCHANGED <<mode, shown, opening, cm>>
           /\ shown = "wysiwyg" /\ mode = "wysiwyg"

\* onChange of the open unit's editor; an IME keeps it quiet.
TypeUnit(t) ==
  /\ Editing /\ ed.active # 0 /\ t # ed.units[ed.active].host
  /\ typed < MaxTyped /\ typed' = typed + 1
  /\ ed' = Changed(ed, t)
  /\ UNCHANGED <<field, hist, gestures>>

StartIme ==
  /\ Editing /\ Gesture("ime") /\ ed.active # 0 /\ ~ed.composing
  /\ ed' = [ed EXCEPT !.composing = TRUE]
  /\ UNCHANGED <<field, hist, typed>>

\* compositionend reports a change, compositioncancel does not.
EndIme(cancelled) ==
  /\ Editing /\ ed.composing
  /\ LET quiet == [ed EXCEPT !.composing = FALSE]
     IN  ed' = IF cancelled THEN quiet ELSE Changed(quiet, ed.units[ed.active].host)
  /\ UNCHANGED <<field, hist, typed, gestures>>

\* mousedown or a moved selection on a closed unit.
OpenUnit(i) ==
  /\ Editing /\ Gesture("open") /\ i # ed.active /\ ~ed.rendering /\ ed.split = NoSplit
  /\ ed' = Activated(ed, i, ed.units[i].adoc)
  /\ UNCHANGED <<field, hist, typed>>

\* The focus left the editor and the form's buttons.
LeaveUnit ==
  /\ Editing /\ Gesture("open") /\ ed.active # 0 /\ ~ed.rendering /\ ed.split = NoSplit
  /\ ed' = Deactivated(ed)
  /\ UNCHANGED <<field, hist, typed>>

\* handleSourceKeydown: an arrow at the edge goes to the next unit with text.
ArrowKey(up) ==
  LET beyond == {i \in DOMAIN ed.units :
                   UnitText(ed.units[i]) # <<>> /\ (IF up THEN i < ed.active ELSE i > ed.active)}
      next == CHOOSE i \in beyond : \A j \in beyond : IF up THEN j <= i ELSE i <= j
  IN  /\ Editing /\ Gesture("arrow") /\ ed.active # 0 /\ beyond # {}
      /\ ed' = Activated(ed, next, ed.units[next].adoc)
      /\ UNCHANGED <<field, hist, typed>>

\* appendParagraphAtEnd: an empty unit is opened at the end.
AppendParagraph ==
  LET closed == Deactivated(ed)
      us == closed.units
      more == IF Len(us) = 1 /\ us[1].holder THEN <<Live(<<>>)>> ELSE Append(us, Live(<<>>))
  IN  /\ Editing /\ Gesture("append") /\ ~ed.rendering
      /\ hist' = Synced(ed, hist) /\ field' = SyncedField(ed, hist, field)
      /\ ed' = [NoTimers(closed) EXCEPT !.units = more, !.active = Len(more),
                                        !.syncTimer = Len(more) > 1]
      /\ UNCHANGED typed

SyncTimer ==
  /\ ed.syncTimer /\ ed' = [ed EXCEPT !.syncTimer = FALSE]
  /\ hist' = Synced(ed, hist) /\ field' = SyncedField(ed, hist, field)
  /\ cm' = IF mode = "source" THEN field' ELSE cm
  /\ UNCHANGED <<mode, shown, opening, typed, gestures>>

\* trySplitActiveUnit up to the parse it waits for.
SplitTimer ==
  /\ ed.splitTimer
  /\ LET quiet == [ed EXCEPT !.splitTimer = FALSE]
         idle == ed.active = 0 \/ ed.rendering \/ ed.split # NoSplit
     IN  ed' = IF idle THEN quiet
               ELSE [quiet EXCEPT !.split = [text |-> ed.units[ed.active].host, enter |-> FALSE]]
  /\ UNCHANGED <<mode, shown, opening, field, cm, hist, typed, gestures>>

\* splitUnitOnBlankLineFromView: Enter on a blank line, in a block too.
EnterOnBlank ==
  /\ Editing /\ Gesture("enter") /\ ed.active # 0 /\ ~ed.rendering /\ ed.split = NoSplit
  /\ ed' = [ed EXCEPT !.split = [text |-> ed.units[ed.active].host, enter |-> TRUE]]
  /\ UNCHANGED <<field, hist, typed>>

\* What the debounced split makes of a unit's text, by where the caret is: the
\* text after a table, one unit each, or an empty one behind them.
Splits(t) ==
  LET tables == {i \in DOMAIN t : t[i] = Table}
      k == CHOOSE i \in tables : \A j \in tables : j <= i
      parts == Parse(t)
  IN  (IF tables # {} /\ k < Len(t)
       THEN {<<<<<<Table>>, SubSeq(t, k + 1, Len(t))>>, 2>>} ELSE {})
      \cup (IF Len(parts) > 1
            THEN {<<parts, i>> : i \in DOMAIN parts}
                 \cup {<<Append(parts, <<>>), Len(parts) + 1>>}
            ELSE {})

\* splitParagraphAtBlankLine after `cut` paragraphs, and the parse of both parts.
SplitsAtBlank(t) ==
  {LET before == SubSeq(t, 1, cut)
       after == SubSeq(t, cut + 1, Len(t))
       first == IF before = <<>> THEN <<>> ELSE Parse(before)
   IN  <<first \o Parse(after), Len(first) + 1>> : cut \in 0 .. Len(t)}

\* Mutated: the open unit is counted from where the old one was.
SplitIntoFromNext(e, parts, k) ==
  [e EXCEPT !.units = SubSeq(@, 1, e.active - 1)
                      \o [i \in DOMAIN parts |-> IF i = k THEN Live(parts[i]) ELSE Rendered(parts[i])]
                      \o SubSeq(@, e.active + 1, Len(@)),
            !.active = e.active + k, !.composing = FALSE,
            !.split = NoSplit, !.splitTimer = FALSE, !.syncTimer = TRUE]
\* replaceActiveUnitWithSplit.
SplitInto(e, parts, k) ==
  [e EXCEPT !.units = SubSeq(@, 1, e.active - 1)
                      \o [i \in DOMAIN parts |-> IF i = k THEN Live(parts[i]) ELSE Rendered(parts[i])]
                      \o SubSeq(@, e.active + 1, Len(@)),
            !.active = e.active - 1 + k, !.composing = FALSE,
            !.split = NoSplit, !.splitTimer = FALSE, !.syncTimer = TRUE]

\* The parse is there; a unit that was edited meanwhile is left alone.
SplitDone ==
  /\ ed.split # NoSplit
  /\ LET t == ed.split.text
         outcomes == IF ed.split.enter THEN SplitsAtBlank(t) ELSE Splits(t)
     IN  IF outcomes = {} \/ ed.rendering \/ ed.units[ed.active].host # t
         THEN ed' = [ed EXCEPT !.split = NoSplit]
         ELSE \E o \in outcomes : ed' = SplitInto(ed, o[1], o[2])
  /\ UNCHANGED <<mode, shown, opening, field, cm, hist, typed, gestures>>

-----------------------------------------------------------------------------
\* Undo, redo, replace

\* applyHistorySource.
ApplyHistory(e, h) ==
  /\ hist' = [h EXCEPT !.current.source = Normal(@)]
  /\ field' = Normal(h.current.source)
  /\ ed' = RenderBegun(e, Normal(h.current.source), h.current.cursor, "history")

Cursor(e, h) == CursorForSync(e, h, DocumentForSync(e, h))

UndoDocument ==
  LET h == Synced(ed, hist) IN
  /\ Editing /\ Rerendering("undo")
  /\ hist.undo # <<>>
  /\ ApplyHistory(ed, Undone(h, Cursor(ed, h)))
  /\ UNCHANGED typed

\* redoDocument: what the sync found may leave nothing to redo.
RedoDocument ==
  LET h == Synced(ed, hist) IN
  /\ Editing /\ Rerendering("undo")
  /\ hist.redo # <<>>
  /\ IF h.redo # <<>>
     THEN ApplyHistory(ed, Redone(h, Cursor(ed, h)))
     ELSE hist' = h /\ field' = SyncedField(ed, hist, field) /\ ed' = NoTimers(ed)
  /\ UNCHANGED typed

\* replaceAllInDocument on what the units hold, then commitDocumentSource.
ReplaceEverywhere ==
  LET d == Join(ed.units)
      next == [i \in DOMAIN d |-> IF d[i] \in Text THEN Replacement[d[i]] ELSE d[i]]
      h == Synced(ed, hist)
  IN  /\ Editing /\ Rerendering("replace") /\ next # d
      /\ ApplyHistory(ed, [Committed(h, next, Cursor(ed, h)) EXCEPT
                             !.current = [source |-> Normal(next), cursor |-> Cursor(ed, h)]])
      /\ UNCHANGED typed

-----------------------------------------------------------------------------
\* Rendering

\* Once the labels are there, unit after unit is rendered and appended: other
\* renders may do the same in between.
RenderStep(k) ==
  LET left == ed.renders[k].left IN
  /\ left # <<>>
  /\ ed' = [ed EXCEPT !.renders[k].left = Tail(@),
               !.units = Append(@, IF Head(left) = <<>> THEN Holder ELSE Rendered(Head(left)))]
  /\ UNCHANGED <<mode, shown, opening, field, cm, hist, typed, gestures>>

\* The end of a render, finishRenderFromSource, and syncEditModeUi of a switch.
RenderDone(k) ==
  LET r == ed.renders[k]
      done == [ed EXCEPT !.renders = RemoveAt(@, k), !.rendering = FALSE, !.applying = FALSE]
      open == IF r.kind = "history" THEN Revealed(done, r.source, r.cursor) ELSE done
  IN  /\ r.left = <<>>
      /\ ed' = IF open.units = <<>> THEN [open EXCEPT !.units = <<Holder>>] ELSE open
      /\ shown' = IF r.kind = "load" THEN mode ELSE shown
      /\ UNCHANGED <<mode, opening, field, cm, hist, typed, gestures>>

-----------------------------------------------------------------------------
User ==
  \/ FlushBody \/ ToSource \/ ToWysiwyg
  \/ \E d \in Puts : TypeSource(d) \/ ResetBody(d) \/ ReplaceBody(d)
  \/ \E p \in Uploads : InsertUpload(p)
  \/ \E t \in Typed : TypeUnit(t)
  \/ StartIme \/ \E cancelled \in BOOLEAN : EndIme(cancelled)
  \/ \E i \in DOMAIN ed.units : OpenUnit(i)
  \/ LeaveUnit \/ \E up \in BOOLEAN : ArrowKey(up)
  \/ AppendParagraph \/ EnterOnBlank \/ UndoDocument \/ RedoDocument \/ ReplaceEverywhere

Editor == OpenWysiwyg \/ SyncTimer \/ SplitTimer \/ SplitDone
          \/ \E k \in DOMAIN ed.renders : RenderStep(k) \/ RenderDone(k)

Next == User \/ Editor
Spec == Init /\ [][Next]_vars

-----------------------------------------------------------------------------
AtRest ==
  /\ opening = NoSource /\ ed.renders = <<>> /\ ed.split = NoSplit
  /\ ~ed.syncTimer /\ ~ed.splitTimer /\ ~ed.composing

\* Opening, closing, leaving and splitting units, timers and flushes change how
\* the document is cut into units and never its text: only typing, a put-in
\* document and a render do (deactivateSourceUnit, activateSourceUnit,
\* replaceActiveUnitWithSplit, removeEmptyRenderedUnits).
GesturesKeepText ==
  [][(typed' = typed /\ ed'.renders = ed.renders /\ ~(\E p \in Uploads : InsertUpload(p)))
       => Visible(ed'.units) = Visible(ed.units)]_vars

\* What a flush hands to a save is the text on the screen, whatever was synced
\* before it (flush, flushBodyToField).
FlushIsWhatIsShown ==
  [][(mode = "wysiwyg" /\ opening = NoSource /\ ~ed.rendering
        /\ (mode' = "source" \/ FlushBody))
       => Segments(field') = Visible(ed.units)]_vars

\* In source mode the pane and the textarea are one text, through every switch,
\* upload, reset and answer, those that come while the editor's code is awaited
\* or its units are drawn included (switchEditMode, applyExternalBody,
\* insertAtCursor).  That such text also reaches the units is not said: the
\* switch draws the source it read before the wait, and the next sync replaces
\* the textarea by what was drawn.
SourceModeAgrees == mode = "source" => field = cm
=============================================================================
