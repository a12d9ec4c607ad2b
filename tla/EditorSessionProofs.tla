------------------------- MODULE EditorSessionProofs -------------------------
(***************************************************************************)
(* Proofs about the body editor and about what works beside it: what the   *)
(* editor may rely on in source mode, the figures and live previews of a   *)
(* memo, what is pasted, and the previews of links and pictures, each for  *)
(* any values of its constants.                                            *)
(***************************************************************************)
EXTENDS EditorSession, FiniteSetTheorems, WellFoundedInduction, TLAPS

CONSTANTS FigureTexts, NoText, MaxOpens, MaxFigures, MaxFigureFaults,   \* of the figures
          Picture, Stages, One, MaxScale, Pointers, Places,
          Files, MaxFlows, MaxBatch, NoFlow,                            \* of what is pasted
          Texts, Size, MaxAsked, MaxDrawn, MaxPreviewFaults             \* of the previews

VARIABLES block, diagram, live, figureFlows, view,
          pasteFlows, pending, open, closing, ready, may, editor, handling, stored, body, missed,
          text, source, units, active, rendering, drawing, cache, seq, previewFlows, faults

Draw == INSTANCE Renderings WITH Texts <- FigureTexts, None <- NoText, MaxRenders <- MaxFigures,
  MaxFaults <- MaxFigureFaults, flows <- figureFlows
Paste == INSTANCE Pasting WITH None <- NoFlow, flows <- pasteFlows
Previews == INSTANCE LinkPreviews WITH MaxRenders <- MaxDrawn, MaxFaults <- MaxPreviewFaults,
  flows <- previewFlows


-----------------------------------------------------------------------------
\* The editor

\* What is done in the WYSIWYG editor is done in its mode, so its writes to the
\* textarea alone leave no source pane behind that is in use.
LEMMA EditingIsWysiwyg == Editing => mode' = "wysiwyg"
BY DEF Editing

\* Putting a document in from outside gives it to the pane that is on.
LEMMA PutInBoth ==
  ASSUME SourceModeAgrees,
         NEW d, ResetBody(d) \/ ReplaceBody(d)
  PROVE  SourceModeAgrees'
<1>1. CASE mode = "source"
  <2>1. field' = d /\ cm' = d
    BY <1>1 DEF ResetBody, ReplaceBody
  <2> QED BY <2>1 DEF SourceModeAgrees
<1>2. CASE mode # "source"
  <2>1. mode' = mode
    BY DEF ResetBody, ReplaceBody
  <2> QED BY <1>2, <2>1 DEF SourceModeAgrees
<1> QED BY <1>1, <1>2

\* An upload goes behind the text of the pane, and of the textarea with it.
LEMMA UploadInBoth ==
  ASSUME SourceModeAgrees, NEW p, InsertUpload(p)
  PROVE  SourceModeAgrees'
<1>1. CASE mode = "source"
  BY <1>1 DEF InsertUpload, SourceModeAgrees
<1>2. CASE mode # "source"
  <2>1. mode' = mode
    BY DEF InsertUpload
  <2> QED BY <1>2, <2>1 DEF SourceModeAgrees
<1> QED BY <1>1, <1>2

LEMMA UserAgrees ==
  ASSUME SourceModeAgrees, User
  PROVE  SourceModeAgrees'
<1>1. CASE FlushBody
  BY <1>1 DEF FlushBody, SourceModeAgrees
<1>2. CASE ToSource
  <2>1. field' = cm'
    BY <1>2 DEF ToSource, PaneUpdated
  <2> QED BY <2>1 DEF SourceModeAgrees
<1>3. CASE ToWysiwyg
  BY <1>3 DEF ToWysiwyg, SourceModeAgrees
<1>4. CASE \E d \in Puts : TypeSource(d) \/ ResetBody(d) \/ ReplaceBody(d)
  <2>1. PICK d \in Puts : TypeSource(d) \/ ResetBody(d) \/ ReplaceBody(d)
    BY <1>4
  <2>2. CASE TypeSource(d)
    BY <2>2 DEF TypeSource, SourceModeAgrees
  <2> QED BY <2>1, <2>2, PutInBoth
<1>5. CASE \E p \in Uploads : InsertUpload(p)
  BY <1>5, UploadInBoth
<1>6. CASE \/ \E t \in Typed : TypeUnit(t)
           \/ StartIme \/ \E cancelled \in BOOLEAN : EndIme(cancelled)
           \/ \E i \in DOMAIN ed.units : OpenUnit(i)
           \/ LeaveUnit \/ \E up \in BOOLEAN : ArrowKey(up)
           \/ AppendParagraph \/ EnterOnBlank
           \/ UndoDocument \/ RedoDocument \/ ReplaceEverywhere
  <2>1. Editing
    BY <1>6 DEF TypeUnit, StartIme, EndIme, OpenUnit, LeaveUnit, ArrowKey, AppendParagraph,
                EnterOnBlank, UndoDocument, RedoDocument, ReplaceEverywhere
  <2> QED BY <2>1, EditingIsWysiwyg DEF SourceModeAgrees
<1> QED BY <1>1, <1>2, <1>3, <1>4, <1>5, <1>6 DEF User

\* Of the editor's own steps only the sync writes a text, and in source mode it
\* writes it to the pane too.
LEMMA EditorAgrees ==
  ASSUME SourceModeAgrees, Editor
  PROVE  SourceModeAgrees'
<1>1. CASE SyncTimer
  BY <1>1 DEF SyncTimer, SourceModeAgrees
<1>2. CASE OpenWysiwyg \/ SplitTimer \/ SplitDone \/ \E k \in DOMAIN ed.renders : RenderStep(k)
      \/ RenderDone(k)
  <2>1. UNCHANGED <<mode, field, cm>>
    BY <1>2 DEF OpenWysiwyg, SplitTimer, SplitDone, RenderStep, RenderDone
  <2> QED BY <2>1 DEF SourceModeAgrees
<1> QED BY <1>1, <1>2 DEF Editor

\* In source mode the pane and the textarea are one text, through every switch
\* of mode, upload, reset and answer, whatever renders, splits and syncs of the
\* WYSIWYG editor are still under way (switchEditMode, applyExternalBody,
\* replaceDocumentBody, the change event of adoc-wysiwyg).
THEOREM SourcePaneIsTheField == Spec => []SourceModeAgrees
<1>1. Init => SourceModeAgrees
  BY DEF Init, SourceModeAgrees
<1>2. SourceModeAgrees /\ [Next]_vars => SourceModeAgrees'
  <2> SUFFICES ASSUME SourceModeAgrees, [Next]_vars
               PROVE  SourceModeAgrees'
    OBVIOUS
  <2>1. CASE UNCHANGED vars
    BY <2>1 DEF vars, SourceModeAgrees
  <2> QED BY <2>1, UserAgrees, EditorAgrees DEF Next
<1> QED BY <1>1, <1>2, PTL DEF Spec

-----------------------------------------------------------------------------
\* Figures and live previews

\* A block of code
Blocks == [lang : {"svg", "mermaid"}, mode : {"source", "diagram"}, pre : BOOLEAN,
           figure : {"hidden", "loading", "error", "drawn"}, rendered : BOOLEAN,
           first : BOOLEAN, loading : BOOLEAN]

\* While the figure is asked for the block counts as source.
BlockInv == block \in Blocks /\ Draw!BlockIsReadable /\ (block.loading => block.mode = "source")

LEMMA BlockStarts == ASSUME Draw!BlockInit PROVE BlockInv
<1>1. \/ block = [lang |-> "svg", mode |-> "source", pre |-> FALSE, figure |-> "loading",
                  rendered |-> FALSE, first |-> TRUE, loading |-> TRUE]
      \/ block = [lang |-> "mermaid", mode |-> "source", pre |-> TRUE, figure |-> "hidden",
                  rendered |-> FALSE, first |-> FALSE, loading |-> FALSE]
  BY DEF Draw!BlockInit
<1>2. block \in Blocks
  <2>1. CASE block = [lang |-> "svg", mode |-> "source", pre |-> FALSE, figure |-> "loading",
                      rendered |-> FALSE, first |-> TRUE, loading |-> TRUE]
    BY <2>1 DEF Blocks
  <2>2. CASE block = [lang |-> "mermaid", mode |-> "source", pre |-> TRUE, figure |-> "hidden",
                      rendered |-> FALSE, first |-> FALSE, loading |-> FALSE]
    BY <2>2 DEF Blocks
  <2> QED BY <1>1, <2>1, <2>2
<1>3. block.mode = "source" /\ block.figure # "drawn"
      /\ (block.pre = TRUE \/ (block.first = TRUE /\ block.loading = TRUE))
  BY <1>1
<1> QED BY <1>2, <1>3 DEF BlockInv, Draw!BlockIsReadable

LEMMA BlockNext == ASSUME BlockInv, Draw!FigureNext \/ UNCHANGED block PROVE BlockInv'
<1>1. CASE Draw!Toggle
  BY <1>1 DEF Draw!Toggle, Draw!AsSource, Draw!AsDiagram, BlockInv, Blocks, Draw!BlockIsReadable
<1>2. ASSUME NEW ok \in BOOLEAN, Draw!BlockAnswer(ok) PROVE BlockInv'
  BY <1>2 DEF Draw!BlockAnswer, Draw!ShowsError, Draw!AsDiagram, BlockInv, Blocks, Draw!BlockIsReadable
<1>3. CASE UNCHANGED block
  BY <1>3 DEF BlockInv, Draw!BlockIsReadable
<1> QED BY <1>1, <1>2, <1>3 DEF Draw!FigureNext

-----------------------------------------------------------------------------
\* The editor of a diagram
Diagrams == [stage : {"loading", "open", "left", "gone"}, doc : FigureTexts, field : FigureTexts,
             timer : Draw!Shown, asks : SUBSET FigureTexts, shown : Draw!Shown, error : BOOLEAN,
               busy : BOOLEAN]

\* What is asked for in an open editor is the source, unless the source is about to be asked for.
DiagramInv ==
  /\ diagram \in Diagrams
  /\ diagram.stage = "open" =>
       /\ diagram.field = diagram.doc
       /\ diagram.timer = NoText =>
            IF diagram.asks = {} THEN ~diagram.busy /\ Draw!DiagramIsOfSource
              ELSE diagram.asks = {diagram.doc}
  /\ diagram.stage = "open" => diagram.timer \in {NoText, diagram.doc}

LEMMA DiagramStarts == ASSUME Draw!DiagramInit PROVE DiagramInv
BY DEF Draw!DiagramInit, DiagramInv, Diagrams, Draw!Shown

LEMMA DiagramKept ==
  ASSUME Draw!RenderingsAssumption, DiagramInv, Draw!DiagramNext \/ UNCHANGED diagram PROVE DiagramInv'
<1>0. NoText \notin FigureTexts
  BY DEF Draw!RenderingsAssumption
<1>1. CASE Draw!EditorOpens
  BY <1>0, <1>1 DEF Draw!EditorOpens, DiagramInv, Diagrams, Draw!Shown
<1>2. CASE Draw!FetchPreview
  <2>1. diagram' = [diagram EXCEPT !.timer = NoText, !.asks = {diagram.timer}, !.busy = TRUE, !.error = FALSE]
    BY <1>2 DEF Draw!FetchPreview, Draw!Aborted
  <2>2. diagram.timer \in FigureTexts /\ diagram \in Diagrams
    BY <1>2 DEF Draw!FetchPreview, DiagramInv, Diagrams, Draw!Shown
  <2>3. {diagram.timer} \in SUBSET FigureTexts /\ {diagram.timer} # {}
    BY <2>2
  <2>4. diagram' \in Diagrams /\ diagram'.asks # {} /\ diagram'.timer = NoText
        /\ diagram'.asks = {diagram.timer}
        /\ diagram'.stage = diagram.stage /\ diagram'.field = diagram.field /\ diagram'.doc = diagram.doc
    BY <2>1, <2>2, <2>3 DEF Diagrams, Draw!Shown
  <2> QED BY <1>0, <1>2, <2>2, <2>4 DEF Draw!FetchPreview, DiagramInv
<1>3. CASE Draw!LeaveDiagram
  BY <1>0, <1>3 DEF Draw!LeaveDiagram, Draw!Aborted, DiagramInv, Diagrams, Draw!Shown
<1>4. ASSUME NEW t \in FigureTexts, Draw!Written(t) PROVE DiagramInv'
  BY <1>0, <1>4 DEF Draw!Written, DiagramInv, Diagrams, Draw!Shown
<1>5. ASSUME NEW t \in FigureTexts, NEW ok \in BOOLEAN, Draw!PreviewAnswer(t, ok) PROVE DiagramInv'
  BY <1>0, <1>5 DEF Draw!PreviewAnswer, DiagramInv, Diagrams, Draw!Shown, Draw!DiagramIsOfSource
<1>6. CASE UNCHANGED diagram
  BY <1>6 DEF DiagramInv, Draw!DiagramIsOfSource
<1> QED BY <1>1, <1>2, <1>3, <1>4, <1>5, <1>6 DEF Draw!DiagramNext

-----------------------------------------------------------------------------
\* The previews next to the body editor
Lives == [text : FigureTexts, enabled : BOOLEAN, imports : Nat, inst : 0 .. MaxOpens,
          opened : 0 .. MaxOpens, timers : SUBSET Draw!Opened,
          seq : [Draw!Opened -> 0 .. MaxFigures], lost : [Draw!Opened -> 0 .. MaxFigures],
          drawn : [inst : 0 .. MaxOpens, of : Draw!Shown], faults : 0 .. MaxFigureFaults]

\* Renders are of previews that were opened, and numbered up to the last.
Bound(l, fl) ==
  /\ l \in Lives /\ fl \subseteq Draw!Flows
  /\ l.inst \in {0, l.opened} /\ l.timers \subseteq 1 .. l.opened /\ l.drawn.inst \in 0 .. l.opened
  /\ \A f \in fl : f.inst \in 1 .. l.opened /\ f.seq <= l.seq[f.inst]
  /\ \A i \in Draw!Opened : l.lost[i] <= l.seq[i] /\ (i > l.opened => l.seq[i] = 0)

\* The last render of preview i is of the body, and under way, lost, or drawn.
Latest(l, fl, i) == \A f \in fl : f.inst = i /\ f.seq = l.seq[i] => f.of = l.text
Here(l, fl, i) ==
  \/ l.lost[i] = l.seq[i]
  \/ \E f \in fl : f.inst = i /\ f.seq = l.seq[i]
  \/ (l.drawn.inst = i => l.drawn.of = l.text) /\ (l.opened = 1 => l.drawn.inst = i)

Fits(l, fl) == l.inst # 0 /\ l.inst \notin l.timers => Latest(l, fl, l.inst) /\ Here(l, fl, l.inst)
LiveInv == Bound(live, figureFlows) /\ Fits(live, figureFlows)

LEMMA LiveStarts == ASSUME Draw!RenderingsAssumption, Draw!LiveInit PROVE LiveInv
<1>1. MaxOpens \in Nat /\ MaxFigures \in Nat /\ MaxFigureFaults \in Nat
  BY DEF Draw!RenderingsAssumption
<1>2. [i \in Draw!Opened |-> 0] \in [Draw!Opened -> 0 .. MaxFigures]
      /\ [inst |-> 0, of |-> NoText] \in [inst : 0 .. MaxOpens, of : Draw!Shown]
  BY <1>1 DEF Draw!Shown
<1>3. live \in Lives
  BY <1>1, <1>2 DEF Draw!LiveInit, Lives
<1>4. /\ figureFlows = {} /\ live.inst = 0 /\ live.timers = {} /\ live.drawn.inst = 0 /\ live.opened = 0
      /\ \A i \in Draw!Opened : live.lost[i] = 0 /\ live.seq[i] = 0
  BY DEF Draw!LiveInit
<1> QED BY <1>1, <1>3, <1>4 DEF LiveInv, Bound, Fits

\* A render that goes on, of preview i among others.
LEMMA RenderGoesOn ==
  ASSUME Draw!RenderingsAssumption, NEW l, NEW others, Bound(l, others), NEW i \in 1 .. l.opened,
         i \in Draw!Opened,
         NEW n \in 1 .. MaxFigures, n = l.seq[i], NEW t \in FigureTexts,
           NEW step \in {"start"} \cup Draw!Steps,
         Draw!GoesOn(l, others, i, n, t, step),
         l.inst # 0 /\ l.inst \notin l.timers =>
           Latest(l, others, l.inst) /\ (IF i = l.inst THEN t = l.text ELSE Here(l, others, l.inst))
  PROVE  LiveInv'
<1>1. CASE figureFlows' = others /\ live' = [l EXCEPT !.drawn = [inst |-> i, of |-> t]]
  <2>1. [inst |-> i, of |-> t] \in [inst : 0 .. MaxOpens, of : Draw!Shown]
    BY DEF Draw!Shown, Draw!Opened
  <2>2. live' \in Lives
    BY <1>1, <2>1 DEF Bound, Lives
  <2>3. /\ live'.drawn = [inst |-> i, of |-> t] /\ live'.text = l.text /\ live'.inst = l.inst
           /\ live'.opened = l.opened
        /\ live'.timers = l.timers /\ live'.seq = l.seq /\ live'.lost = l.lost
    BY <1>1 DEF Bound, Lives
  <2>4. Bound(live', figureFlows')
    BY <1>1, <2>2, <2>3 DEF Bound
  <2>5. ASSUME l.inst # 0, l.inst \notin l.timers
        PROVE  Latest(live', figureFlows', l.inst) /\ Here(live', figureFlows', l.inst)
    <3>1. Latest(live', figureFlows', l.inst)
      BY <1>1, <2>3, <2>5 DEF Latest
    <3>2. CASE i = l.inst
      BY <2>3, <2>5, <3>1, <3>2 DEF Here
    <3>3. CASE i # l.inst
      <4>1. l.opened # 1
        BY <2>5, <3>3 DEF Bound
      <4>2. \/ l.lost[l.inst] = l.seq[l.inst]
            \/ \E f \in others : f.inst = l.inst /\ f.seq = l.seq[l.inst]
            \/ l.drawn.inst = l.inst => l.drawn.of = l.text
        BY <2>5, <3>3 DEF Here
      <4>3. live'.drawn.inst # l.inst
        BY <2>3, <3>3
      <4> QED BY <1>1, <2>3, <3>1, <4>1, <4>2, <4>3 DEF Here
    <3> QED BY <3>1, <3>2, <3>3
  <2> QED BY <2>3, <2>4, <2>5 DEF LiveInv, Fits
<1>2. ASSUME NEW next \in Draw!Behind(step), live' = l,
             figureFlows' = others \cup {[of |-> t, inst |-> i, seq |-> n, step |-> next]}
      PROVE  LiveInv'
  <2> DEFINE f == [of |-> t, inst |-> i, seq |-> n, step |-> next]
  <2>1. next \in Draw!Steps
    BY DEF Draw!Behind, Draw!Steps
  <2>2. f \in Draw!Flows /\ f.of = t /\ f.inst = i /\ f.seq = n
    BY <2>1 DEF Draw!Flows
  <2> HIDE DEF f
  <2>3. figureFlows' = others \cup {f}
    BY <1>2 DEF f
  <2>4. n <= l.seq[i]
    OBVIOUS
  <2>5. Bound(live', figureFlows')
    BY <1>2, <2>2, <2>3, <2>4 DEF Bound
  <2>6. ASSUME l.inst # 0, l.inst \notin l.timers
        PROVE  Latest(live', figureFlows', l.inst) /\ Here(live', figureFlows', l.inst)
    <3>1. Latest(live', figureFlows', l.inst)
      BY <1>2, <2>2, <2>3, <2>6 DEF Latest
    <3>2. CASE i = l.inst
      BY <1>2, <2>2, <2>3, <3>1, <3>2 DEF Here
    <3>3. CASE i # l.inst
      <4>1. Here(l, others, l.inst)
        BY <2>6, <3>3
      <4> QED BY <1>2, <2>3, <3>1, <4>1 DEF Here
    <3> QED BY <3>1, <3>2, <3>3
  <2> QED BY <1>2, <2>5, <2>6 DEF LiveInv, Fits
<1> QED BY <1>1, <1>2 DEF Draw!GoesOn

LEMMA LiveTyped ==
  ASSUME Draw!RenderingsAssumption, LiveInv
  PROVE  /\ live \in Lives /\ Draw!Opened \subseteq Nat /\ MaxOpens \in Nat /\ MaxFigures \in Nat
         /\ MaxFigureFaults \in Nat
         /\ live.opened \in 0 .. MaxOpens /\ live.text \in FigureTexts /\ live.inst \in 0 .. MaxOpens
         /\ \A i \in Draw!Opened : live.seq[i] \in 0 .. MaxFigures /\ live.lost[i] \in 0 .. MaxFigures
         /\ \A f \in figureFlows : f.of \in FigureTexts /\ f.inst \in Draw!Opened
            /\ f.seq \in 1 .. MaxFigures /\ f.step \in Draw!Steps
<1>1. Draw!Opened \subseteq Nat /\ MaxOpens \in Nat /\ MaxFigures \in Nat /\ MaxFigureFaults \in Nat
  BY DEF Draw!RenderingsAssumption, Draw!Opened
<1>2. live \in Lives /\ figureFlows \subseteq Draw!Flows
  BY DEF LiveInv, Bound
<1>3. live.opened \in 0 .. MaxOpens /\ live.text \in FigureTexts /\ live.inst \in 0 .. MaxOpens
  BY <1>2 DEF Lives
<1>4. live.seq \in [Draw!Opened -> 0 .. MaxFigures] /\ live.lost \in [Draw!Opened -> 0 .. MaxFigures]
  BY <1>2 DEF Lives
<1>5. \A f \in figureFlows : f.of \in FigureTexts /\ f.inst \in Draw!Opened /\ f.seq \in 1 .. MaxFigures
      /\ f.step \in Draw!Steps
  BY <1>2 DEF Draw!Flows
<1> QED BY <1>1, <1>2, <1>3, <1>4, <1>5

LEMMA TimerOK ==
  ASSUME Draw!RenderingsAssumption, LiveInv, NEW i \in Draw!Opened, Draw!TimerFires(i) PROVE LiveInv'
<1> DEFINE l == [live EXCEPT !.seq[i] = @ + 1, !.timers = @ \ {i}]
<1>1. live.seq[i] + 1 \in 1 .. MaxFigures /\ i \in live.timers
  BY LiveTyped DEF Draw!TimerFires, Draw!Renders
<1>2. i \in 1 .. live.opened
  BY <1>1 DEF LiveInv, Bound
<1>3. l \in Lives
  <2>1. live.seq[i] + 1 \in 0 .. MaxFigures /\ live.timers \ {i} \in SUBSET Draw!Opened /\ live \in Lives
    BY <1>1, LiveTyped DEF Lives
  <2>2. [live.seq EXCEPT ![i] = live.seq[i] + 1] \in [Draw!Opened -> 0 .. MaxFigures]
    BY <2>1 DEF Lives
  <2>3. l = [live EXCEPT !.seq = [live.seq EXCEPT ![i] = live.seq[i] + 1], !.timers = live.timers \ {i}]
    OBVIOUS
  <2> HIDE DEF l
  <2> DEFINE new == [live.seq EXCEPT ![i] = live.seq[i] + 1]
             rest == live.timers \ {i}
  <2>4. new \in [Draw!Opened -> 0 .. MaxFigures] /\ rest \in SUBSET Draw!Opened
        /\ l = [live EXCEPT !.seq = new, !.timers = rest]
    BY <2>1, <2>2, <2>3
  <2> HIDE DEF new, rest
  <2> QED BY <2>1, <2>4 DEF Lives
<1>4. /\ l.text = live.text /\ l.inst = live.inst /\ l.opened = live.opened /\ l.drawn = live.drawn
         /\ l.lost = live.lost
      /\ l.timers = live.timers \ {i} /\ l.seq[i] = live.seq[i] + 1
         /\ \A j \in Draw!Opened \ {i} : l.seq[j] = live.seq[j]
  BY LiveTyped DEF Lives
<1>5. Draw!GoesOn(l, figureFlows, i, live.seq[i] + 1, live.text, "start")
  BY DEF Draw!TimerFires, Draw!Renders
<1> HIDE DEF l
<1>6. Bound(l, figureFlows)
  <2>1. \A j \in Draw!Opened : l.lost[j] <= l.seq[j] /\ (j > l.opened => l.seq[j] = 0)
        /\ live.seq[j] <= l.seq[j]
    BY <1>2, <1>4, LiveTyped DEF LiveInv, Bound
  <2>2. \A f \in figureFlows : f.inst \in 1 .. l.opened /\ f.seq <= l.seq[f.inst]
    <3> TAKE f \in figureFlows
    <3>1. f.inst \in 1 .. live.opened /\ f.seq <= live.seq[f.inst] /\ f.inst \in Draw!Opened /\ f.seq \in Int
      BY LiveTyped DEF LiveInv, Bound
    <3>2. live.seq[f.inst] \in Int /\ l.seq[f.inst] \in Int /\ live.seq[f.inst] <= l.seq[f.inst]
      BY <1>3, <2>1, <3>1, LiveTyped DEF Lives
    <3> QED BY <1>4, <3>1, <3>2
  <2> QED BY <1>3, <1>4, <2>1, <2>2 DEF LiveInv, Bound
<1>7. ASSUME l.inst # 0, l.inst \notin l.timers
      PROVE  Latest(l, figureFlows, l.inst) /\ (IF i = l.inst THEN live.text = l.text
             ELSE Here(l, figureFlows, l.inst))
  <2>1. CASE i = l.inst
    <3>1. \A f \in figureFlows : f.inst = i => f.seq # l.seq[i]
      BY <1>4, LiveTyped DEF LiveInv, Bound
    <3> QED BY <1>4, <2>1, <3>1 DEF Latest
  <2>2. CASE i # l.inst
    <3>1. live.inst \in Draw!Opened /\ live.inst \notin live.timers /\ l.seq[live.inst] = live.seq[live.inst]
      BY <1>4, <1>7, <2>2, LiveTyped DEF Draw!Opened
    <3>2. Latest(live, figureFlows, live.inst) /\ Here(live, figureFlows, live.inst)
      BY <1>4, <1>7, <3>1 DEF LiveInv, Fits
    <3> QED BY <1>4, <2>2, <3>1, <3>2 DEF Latest, Here
  <2> QED BY <2>1, <2>2
<1>8. i \in 1 .. l.opened /\ live.seq[i] + 1 = l.seq[i]
  BY <1>2, <1>4
<1> QED BY <1>1, <1>5, <1>6, <1>7, <1>8, LiveTyped, RenderGoesOn

LEMMA ImportedOK == ASSUME Draw!RenderingsAssumption, LiveInv, Draw!Imported PROVE LiveInv'
<1> DEFINE i == live.opened + 1
           o == [live EXCEPT !.imports = @ - 1, !.opened = @ + 1, !.inst = live.opened + 1]
           l == [o EXCEPT !.seq[i] = @ + 1, !.timers = @ \ {i}]
<1>1. i \in Draw!Opened /\ live.imports > 0 /\ o.seq[i] < MaxFigures
  BY LiveTyped DEF Draw!Imported, Draw!Renders, Draw!Opened
<1>2. Draw!GoesOn(l, figureFlows, i, o.seq[i] + 1, o.text, "start")
  BY DEF Draw!Imported, Draw!Renders
<1>3. o \in Lives /\ o.text = live.text /\ o.inst = i /\ o.opened = i /\ o.drawn = live.drawn
      /\ o.lost = live.lost
      /\ o.timers = live.timers /\ o.seq = live.seq
  <2>1. live.imports - 1 \in Nat /\ live.opened + 1 \in 0 .. MaxOpens
    BY <1>1, LiveTyped DEF Lives, Draw!Opened
  <2> QED BY <2>1, LiveTyped DEF Lives
<1> HIDE DEF o
<1>4. o.seq[i] = 0 /\ 1 \in 1 .. MaxFigures /\ o.seq[i] + 1 = 1
  <2>1. o.seq[i] = 0
    BY <1>1, <1>3, LiveTyped DEF LiveInv, Bound
  <2> QED BY <1>1, <2>1, LiveTyped
<1> HIDE DEF i
<1>5. l = [o EXCEPT !.seq[i] = 1, !.timers = @ \ {i}]
  BY <1>4
<1>6. l \in Lives
  <2> DEFINE new == [o.seq EXCEPT ![i] = 1]
             rest == o.timers \ {i}
  <2>1. new \in [Draw!Opened -> 0 .. MaxFigures] /\ rest \in SUBSET Draw!Opened
    <3>1. o.seq \in [Draw!Opened -> 0 .. MaxFigures] /\ o.timers \in SUBSET Draw!Opened
      BY <1>3 DEF Lives
    <3>2. 1 \in 0 .. MaxFigures
      BY <1>4, LiveTyped
    <3> QED BY <1>1, <3>1, <3>2
  <2>2. l = [o EXCEPT !.seq = new, !.timers = rest]
    BY <1>5
  <2> HIDE DEF new, rest, l
  <2> QED BY <1>3, <2>1, <2>2 DEF Lives
<1>7. /\ l.text = live.text /\ l.inst = i /\ l.opened = i /\ l.drawn = live.drawn /\ l.lost = live.lost
      /\ l.timers = live.timers \ {i} /\ l.seq[i] = 1 /\ \A j \in Draw!Opened \ {i} : l.seq[j] = live.seq[j]
  BY <1>1, <1>3, <1>5 DEF Lives
<1> HIDE DEF l
<1>8. \A f \in figureFlows : f.inst \in 1 .. live.opened /\ f.inst # i /\ f.inst \in Draw!Opened
      /\ f.seq <= live.seq[f.inst]
  BY LiveTyped DEF LiveInv, Bound, i
<1>9. i \in 1 .. i /\ 1 .. live.opened \subseteq 1 .. i /\ 0 .. live.opened \subseteq 0 .. i
  BY <1>1, LiveTyped DEF i
<1>10. Bound(l, figureFlows)
  <2>1. \A j \in Draw!Opened : l.lost[j] <= l.seq[j] /\ (j > l.opened => l.seq[j] = 0)
    <3> TAKE j \in Draw!Opened
    <3>1. live.lost[j] <= live.seq[j] /\ (j > live.opened => live.seq[j] = 0) /\ live.seq[j] \in Int
          /\ live.lost[j] \in Int
      BY LiveTyped DEF LiveInv, Bound
    <3>2. CASE j = i
      <4>1. live.seq[j] = 0
        BY <1>3, <1>4, <3>2
      <4>2. l.lost[j] <= 0 /\ l.seq[j] = 1 /\ l.lost[j] \in Int
        BY <1>7, <3>1, <3>2, <4>1
      <4> QED BY <1>1, <1>7, <3>2, <4>2, LiveTyped
    <3>3. CASE j # i
      <4>1. l.seq[j] = live.seq[j] /\ l.lost[j] = live.lost[j]
        BY <1>7, <3>3
      <4>2. j > l.opened => j > live.opened
        BY <1>1, <1>7, LiveTyped DEF i
      <4> QED BY <3>1, <4>1, <4>2
    <3> QED BY <3>2, <3>3
  <2>2. \A f \in figureFlows : f.inst \in 1 .. l.opened /\ f.seq <= l.seq[f.inst]
    BY <1>7, <1>8, <1>9
  <2>3. l.timers \subseteq 1 .. l.opened /\ l.drawn.inst \in 0 .. l.opened
    BY <1>7, <1>9 DEF LiveInv, Bound
  <2> QED BY <1>6, <1>7, <2>1, <2>2, <2>3 DEF LiveInv, Bound
<1>11. Latest(l, figureFlows, l.inst)
  BY <1>7, <1>8 DEF Latest
<1>12. Draw!GoesOn(l, figureFlows, i, 1, live.text, "start")
  BY <1>2, <1>3, <1>4
<1>13. i \in 1 .. l.opened /\ 1 = l.seq[i] /\ i = l.inst /\ live.text = l.text
  BY <1>7, <1>9
<1> QED BY <1>1, <1>4, <1>10, <1>11, <1>12, <1>13, LiveTyped, RenderGoesOn

LEMMA AnswerOK ==
  ASSUME Draw!RenderingsAssumption, LiveInv, NEW f \in figureFlows, Draw!LiveAnswer(f) PROVE LiveInv'
<1> DEFINE others == figureFlows \ {f}
<1>0. Bound(live, others)
  BY DEF LiveInv, Bound
<1>1. \A i : Latest(live, figureFlows, i) => Latest(live, others, i)
  BY DEF Latest
<1>2. \A i : Here(live, figureFlows, i) /\ ~(f.inst = i /\ f.seq = live.seq[i]) => Here(live, others, i)
  BY DEF Here
<1>3. CASE Draw!Stale(f)
  <2>1. figureFlows' = others /\ live' = live
    BY <1>3 DEF Draw!LiveAnswer
  <2>2. \A i : ~(f.inst = i /\ f.seq = live.seq[i])
    BY <1>3 DEF Draw!Stale
  <2> HIDE DEF others
  <2>3. Fits(live, others)
    BY <1>1, <1>2, <2>2 DEF LiveInv, Fits
  <2> QED BY <1>0, <2>1, <2>3 DEF LiveInv
<1>4. CASE ~Draw!Stale(f)
  <2>1. Draw!GoesOn(live, others, f.inst, f.seq, f.of, f.step)
    BY <1>4 DEF Draw!LiveAnswer
  <2>2. f.seq = live.seq[f.inst] /\ f.inst \in 1 .. live.opened
    BY <1>4 DEF Draw!Stale, LiveInv, Bound
  <2> HIDE DEF others
  <2>3. ASSUME live.inst # 0, live.inst \notin live.timers
        PROVE  Latest(live, others, live.inst)
               /\ (IF f.inst = live.inst THEN f.of = live.text ELSE Here(live, others, live.inst))
    <3>1. Latest(live, figureFlows, live.inst) /\ Here(live, figureFlows, live.inst)
      BY <2>3 DEF LiveInv, Fits
    <3>2. f.inst = live.inst => f.of = live.text
      BY <2>2, <3>1 DEF Latest
    <3> QED BY <1>1, <1>2, <3>1, <3>2
  <2> QED BY <1>0, <2>1, <2>2, <2>3, LiveTyped, RenderGoesOn
<1> QED BY <1>3, <1>4

LEMMA LostOK ==
  ASSUME Draw!RenderingsAssumption, LiveInv, NEW f \in figureFlows, Draw!LiveLost(f) PROVE LiveInv'
<1> DEFINE others == figureFlows \ {f}
           i == f.inst
           last == IF f.seq > live.lost[i] THEN f.seq ELSE live.lost[i]
<1>1. /\ live' = [live EXCEPT !.faults = @ + 1, !.lost[i] = last] /\ figureFlows' = others
      /\ live.faults + 1 \in 0 .. MaxFigureFaults /\ i \in Draw!Opened
  BY LiveTyped DEF Draw!LiveLost, Lives
<1>2. last \in 0 .. MaxFigures /\ last <= live.seq[i] /\ f.seq <= last
  BY LiveTyped DEF LiveInv, Bound
<1> HIDE DEF last
<1>3. live' \in Lives
  BY <1>1, <1>2, LiveTyped DEF Lives
<1>4. /\ live'.text = live.text /\ live'.inst = live.inst /\ live'.opened = live.opened
         /\ live'.drawn = live.drawn
      /\ live'.timers = live.timers /\ live'.seq = live.seq /\ live'.lost[i] = last
      /\ \A j \in Draw!Opened \ {i} : live'.lost[j] = live.lost[j]
  BY <1>1, LiveTyped DEF Lives
<1>5. Bound(live', figureFlows')
  <2>1. \A j \in Draw!Opened : live'.lost[j] <= live'.seq[j] /\ (j > live'.opened => live'.seq[j] = 0)
    BY <1>2, <1>4 DEF LiveInv, Bound
  <2> QED BY <1>1, <1>3, <1>4, <2>1 DEF LiveInv, Bound
<1>6. ASSUME live.inst # 0, live.inst \notin live.timers
      PROVE  Latest(live', figureFlows', live.inst) /\ Here(live', figureFlows', live.inst)
  <2>1. Latest(live, figureFlows, live.inst) /\ Here(live, figureFlows, live.inst)
        /\ live.inst \in Draw!Opened
    BY <1>6, LiveTyped DEF LiveInv, Fits, Draw!Opened
  <2>2. Latest(live', figureFlows', live.inst)
    BY <1>1, <1>4, <2>1 DEF Latest
  <2>3. CASE f.inst = live.inst /\ f.seq = live.seq[live.inst]
    <3>1. last = live.seq[i]
      <4>1. last \in Int /\ f.seq \in Int /\ live.seq[i] \in Int /\ f.seq = live.seq[i]
        BY <1>1, <1>2, <2>3, LiveTyped
      <4> QED BY <1>2, <4>1
    <3> QED BY <1>4, <2>2, <2>3, <3>1 DEF Here
  <2>4. CASE ~(f.inst = live.inst /\ f.seq = live.seq[live.inst])
    <3>1. live.lost[live.inst] = live.seq[live.inst] => live'.lost[live.inst] = live'.seq[live.inst]
      <4>1. CASE live.inst = i
        <5>1. live.lost[i] = live.seq[i] => last = live.lost[i]
          BY <1>2, LiveTyped DEF last, LiveInv, Bound
        <5> QED BY <1>4, <4>1, <5>1
      <4>2. CASE live.inst # i
        BY <1>4, <2>1, <4>2
      <4> QED BY <4>1, <4>2
    <3> QED BY <1>1, <1>4, <2>1, <2>2, <2>4, <3>1 DEF Here
  <2> QED BY <2>3, <2>4
<1> QED BY <1>4, <1>5, <1>6 DEF LiveInv, Fits

LEMMA LiveKept ==
  ASSUME Draw!RenderingsAssumption, LiveInv, Draw!LiveNext \/ UNCHANGED <<live, figureFlows>> PROVE LiveInv'
<1>1. CASE Draw!Imported
  BY <1>1, ImportedOK
<1>2. CASE Draw!ToggleLive
  <2>1. figureFlows' = figureFlows
    BY <1>2 DEF Draw!ToggleLive
  <2>2. CASE live.enabled
    <3>1. live' = [live EXCEPT !.enabled = FALSE, !.inst = 0, !.timers = @ \ {live.inst}]
      BY <1>2, <2>2 DEF Draw!ToggleLive
    <3>2. live' \in Lives
      <4> DEFINE rest == live.timers \ {live.inst}
      <4>1. rest \in SUBSET Draw!Opened /\ 0 \in 0 .. MaxOpens /\ live \in Lives
        BY LiveTyped DEF Lives
      <4>2. live' = [live EXCEPT !.enabled = FALSE, !.inst = 0, !.timers = rest]
        BY <3>1
      <4> HIDE DEF rest
      <4> QED BY <4>1, <4>2 DEF Lives
    <3>3. /\ live'.inst = 0 /\ live'.opened = live.opened /\ live'.drawn = live.drawn
             /\ live'.lost = live.lost
          /\ live'.timers \subseteq live.timers /\ live'.seq = live.seq
      BY <3>1, LiveTyped DEF Lives
    <3> QED BY <2>1, <3>2, <3>3 DEF LiveInv, Bound, Fits
  <2>3. CASE ~live.enabled
    <3>1. PICK n \in Nat : live' = [live EXCEPT !.enabled = TRUE, !.imports = n]
      <4>1. live.imports \in Nat /\ live.imports + 1 \in Nat
        BY LiveTyped DEF Lives
      <4> QED BY <1>2, <2>3, <4>1 DEF Draw!ToggleLive
    <3>2. live' \in Lives
      BY <3>1, LiveTyped DEF Lives
    <3>3. /\ live'.inst = live.inst /\ live'.opened = live.opened /\ live'.drawn = live.drawn
             /\ live'.lost = live.lost
          /\ live'.timers = live.timers /\ live'.seq = live.seq /\ live'.text = live.text
      BY <3>1, LiveTyped DEF Lives
    <3> QED BY <2>1, <3>2, <3>3 DEF LiveInv, Bound, Fits, Latest, Here
  <2> QED BY <2>2, <2>3
<1>3. ASSUME NEW t \in FigureTexts, Draw!EditBody(t) PROVE LiveInv'
  <2>1. live' = [live EXCEPT !.text = t, !.timers = @ \cup ({live.inst} \ {0})] /\ figureFlows' = figureFlows
    BY <1>3 DEF Draw!EditBody, Draw!Scheduled
  <2>2. {live.inst} \ {0} \subseteq 1 .. live.opened /\ {live.inst} \ {0} \subseteq Draw!Opened
    BY LiveTyped DEF LiveInv, Bound, Draw!Opened
  <2>3. live' \in Lives
    BY <2>1, <2>2, LiveTyped DEF Lives
  <2>4. /\ live'.inst = live.inst /\ live'.opened = live.opened /\ live'.drawn = live.drawn
           /\ live'.lost = live.lost
        /\ live'.timers = live.timers \cup ({live.inst} \ {0}) /\ live'.seq = live.seq
    BY <2>1, LiveTyped DEF Lives
  <2> QED BY <2>1, <2>2, <2>3, <2>4 DEF LiveInv, Bound, Fits
<1>4. ASSUME NEW i \in Draw!Opened, Draw!TimerFires(i) PROVE LiveInv'
  BY <1>4, TimerOK
<1>5. ASSUME NEW f \in figureFlows, Draw!LiveAnswer(f) \/ Draw!LiveLost(f) PROVE LiveInv'
  BY <1>5, AnswerOK, LostOK
<1>6. CASE UNCHANGED <<live, figureFlows>>
  BY <1>6 DEF LiveInv
<1> QED BY <1>1, <1>2, <1>3, <1>4, <1>5, <1>6 DEF Draw!LiveNext

LEMMA LiveIsShown == ASSUME Draw!RenderingsAssumption, LiveInv PROVE Draw!LiveShowsBody
BY LiveTyped DEF LiveInv, Fits, Here, Draw!LiveShowsBody

-----------------------------------------------------------------------------
\* The viewer of a picture
Drags == [by : Pointers \cup {0}, at : Places \cup {0}, pan : Int]
Pictures == [width : {0, Picture}, stage : Stages, scale : 1 .. MaxScale, pan : Int, fit : BOOLEAN,
           drag : Drags, applied : Int, resized : BOOLEAN]

\* A set of numbers has a least one.
LEMMA LeastOf ==
  ASSUME NEW S \in SUBSET Nat, S # {}
  PROVE  \E x \in S : \A y \in S : x <= y
<1>1. PICK x \in S : \A y \in S : ~(<<y, x>> \in OpToRel(<, Nat))
  BY WFMin, NatLessThanWellFounded
<1>2. ASSUME NEW y \in S PROVE x <= y
  <2>1. ~(y < x)
    BY <1>1 DEF OpToRel
  <2> QED BY <2>1
<1> QED BY <1>2

\* Of the scales at which the picture fits there is a greatest.
LEMMA FitIsScale ==
  ASSUME Draw!RenderingsAssumption, NEW v
  PROVE  Draw!FitScale(v) \in 1 .. MaxScale
<1> DEFINE fits == {s \in 1 .. MaxScale : v.width * s <= v.stage}
           left == {MaxScale - s : s \in fits}
<1>1. MaxScale \in Nat /\ 1 \in 1 .. MaxScale
  BY DEF Draw!RenderingsAssumption
<1>2. CASE fits = {}
  BY <1>1, <1>2 DEF Draw!FitScale
<1>3. CASE fits # {}
  <2>1. \E s \in fits : \A r \in fits : r <= s
    <3>1. left # {} /\ left \subseteq Nat
      BY <1>1, <1>3
    <3> HIDE DEF left
    <3>2. \E n \in left : \A m \in left : n <= m
      BY <3>1, LeastOf
    <3> USE DEF left
    <3>3. PICK s \in fits : \A m \in left : MaxScale - s <= m
      BY <3>2
    <3>4. \A r \in fits : MaxScale - s <= MaxScale - r
      BY <3>3
    <3> HIDE DEF left
    <3>5. \A r \in fits : r \in Int
      OBVIOUS
    <3> HIDE DEF fits
    <3> QED BY <1>1, <3>3, <3>4, <3>5
  <2> QED BY <1>3, <2>1 DEF Draw!FitScale
<1> QED BY <1>2, <1>3

\* How far a picture may be dragged does not depend on where it is.
LEMMA PanHas ==
  ASSUME Draw!RenderingsAssumption, NEW v, v.width \in Nat, v.scale \in Nat, v.stage \in Nat
  PROVE  Draw!MaxPan(v) \in Nat
<1>1. v.width * v.scale \in Int
  OBVIOUS
<1> DEFINE n == v.width * v.scale - v.stage
<1>2. n \in Int
  BY <1>1
<1> HIDE DEF n
<1>3. n \div 2 \in Int
  BY <1>2
<1>4. Draw!MaxPan(v) = Draw!Most(0, n \div 2)
  BY DEF Draw!MaxPan, n
<1> QED BY <1>3, <1>4 DEF Draw!Most

LEMMA PictureTyped ==
  ASSUME Draw!RenderingsAssumption, NEW v \in Pictures
  PROVE  /\ v.width \in Nat /\ v.stage \in Nat \ {0} /\ v.scale \in 1 .. MaxScale /\ v.scale \in Nat
         /\ v.pan \in Int /\ v.applied \in Int /\ v.drag \in Drags /\ v.fit \in BOOLEAN
         /\ v.drag.pan \in Int /\ v.drag.at \in Int /\ Draw!MaxPan(v) \in Nat
<1>1. /\ v.width \in {0, Picture} /\ v.stage \in Stages /\ v.scale \in 1 .. MaxScale
      /\ v.pan \in Int /\ v.applied \in Int /\ v.drag \in Drags /\ v.fit \in BOOLEAN
  BY DEF Pictures
<1>2. Picture \in Nat /\ Stages \subseteq Nat \ {0} /\ Places \subseteq Int /\ MaxScale \in Nat
  BY DEF Draw!RenderingsAssumption
<1>3. v.drag.pan \in Int /\ v.drag.at \in Int
  <2>1. v.drag.pan \in Int /\ v.drag.at \in Places \cup {0}
    BY <1>1 DEF Drags
  <2>2. \A x \in Places \cup {0} : x \in Int
    BY <1>2
  <2> QED BY <2>1, <2>2
<1>4. v.width \in Nat /\ v.stage \in Nat \ {0} /\ v.scale \in Nat
  <2>1. v.width \in Nat
    BY <1>1, <1>2
  <2>2. v.stage \in Nat \ {0}
    BY <1>1, <1>2
  <2> QED BY <1>1, <1>2, <2>1, <2>2
<1> QED BY <1>1, <1>3, <1>4, PanHas

LEMMA ClampOK ==
  ASSUME Draw!RenderingsAssumption, NEW v \in Pictures
  PROVE  /\ Draw!ClampedPan(v) \in Pictures
         /\ Draw!ClampedPan(v).width = v.width /\ Draw!ClampedPan(v).stage = v.stage
            /\ Draw!ClampedPan(v).scale = v.scale
         /\ Draw!ClampedPan(v).fit = v.fit
         /\ Draw!ClampedPan(v).pan \in (0 - Draw!MaxPan(Draw!ClampedPan(v))) .. Draw!MaxPan(Draw!ClampedPan(v))
<1> DEFINE m == Draw!MaxPan(v)
           n == Draw!Between(v.pan, 0 - m, m)
           c == [v EXCEPT !.pan = n]
<1>1. n \in (0 - m) .. m /\ n \in Int
  <2>1. m \in Nat /\ v.pan \in Int
    BY PictureTyped
  <2> HIDE DEF m
  <2> QED BY <2>1 DEF Draw!Between
<1> HIDE DEF n
<1>2. c \in Pictures /\ c.pan = n /\ c.width = v.width /\ c.stage = v.stage /\ c.scale = v.scale
      /\ c.fit = v.fit
  BY <1>1 DEF Pictures
<1>3. Draw!ClampedPan(v) = c
  BY DEF Draw!ClampedPan, n
<1> HIDE DEF c, m
<1>4. Draw!MaxPan(c) = m
  BY <1>2 DEF Draw!MaxPan, m
<1> QED BY <1>1, <1>2, <1>3, <1>4

\* A view that is as it should be
ViewOK(v) ==
  /\ v \in Pictures
  /\ v.pan \in (0 - Draw!MaxPan(v)) .. Draw!MaxPan(v)
  /\ v.applied = v.pan \/ v.resized = TRUE
  /\ v.fit = TRUE /\ v.width # 0 => v.scale = Draw!FitScale(v)

\* What is applied and clamped is drawn as it is.
LEMMA AppliedOK ==
  ASSUME Draw!RenderingsAssumption, NEW v \in Pictures, v.fit = TRUE
         /\ v.width # 0 => v.scale = Draw!FitScale(v)
  PROVE  ViewOK(Draw!Applied(Draw!ClampedPan(v)))
<1> DEFINE c == Draw!ClampedPan(v)
<1>1. /\ c \in Pictures /\ c.width = v.width /\ c.stage = v.stage /\ c.scale = v.scale /\ c.fit = v.fit
      /\ c.pan \in (0 - Draw!MaxPan(c)) .. Draw!MaxPan(c)
  BY ClampOK
<1> HIDE DEF c
<1> DEFINE a == [c EXCEPT !.applied = c.pan, !.resized = FALSE]
<1>2. Draw!Applied(c) = a
  BY DEF Draw!Applied
<1>3. c.pan \in Int
  BY <1>1, PictureTyped
<1>4. /\ a \in Pictures /\ a.pan = c.pan /\ a.applied = c.pan /\ a.fit = v.fit /\ a.width = v.width
         /\ a.stage = v.stage
      /\ a.scale = v.scale
  BY <1>1, <1>3 DEF Pictures
<1> HIDE DEF a
<1>5. Draw!MaxPan(a) = Draw!MaxPan(c) /\ Draw!FitScale(a) = Draw!FitScale(v)
  BY <1>1, <1>4 DEF Draw!MaxPan, Draw!FitScale
<1> QED BY <1>1, <1>2, <1>4, <1>5 DEF ViewOK, c

LEMMA ScaledOK ==
  ASSUME Draw!RenderingsAssumption, NEW v \in Pictures, NEW s \in Int,
         v.fit = TRUE /\ v.width # 0 => s \in 1 .. MaxScale /\ s = Draw!FitScale(v)
  PROVE  ViewOK(Draw!SetScale(v, s))
<1> DEFINE n == Draw!Between(s, 1, MaxScale)
           z == [v EXCEPT !.scale = n]
<1>1. n \in 1 .. MaxScale /\ (s \in 1 .. MaxScale => n = s)
  BY DEF Draw!Between, Draw!RenderingsAssumption
<1> HIDE DEF n
<1>2. z \in Pictures /\ z.scale = n /\ z.fit = v.fit /\ z.width = v.width /\ z.stage = v.stage
  BY <1>1 DEF Pictures
<1>3. Draw!SetScale(v, s) = Draw!Applied(Draw!ClampedPan(z))
  BY DEF Draw!SetScale, n
<1> HIDE DEF z
<1>4. Draw!FitScale(z) = Draw!FitScale(v)
  BY <1>2 DEF Draw!FitScale
<1> QED BY <1>1, <1>2, <1>3, <1>4, AppliedOK

LEMMA PlacedOK ==
  ASSUME NEW v \in Pictures, NEW b \in BOOLEAN
  PROVE  [v EXCEPT !.fit = b, !.pan = 0] \in Pictures
<1> DEFINE Placed(n) == [v EXCEPT !.fit = b, !.pan = n] \in Pictures
<1>1. \A n \in Int : Placed(n)
  BY DEF Pictures
<1> HIDE DEF Placed
<1>2. Placed(0)
  BY <1>1
<1> QED BY <1>2 DEF Placed

LEMMA FittedOK ==
  ASSUME Draw!RenderingsAssumption, NEW v \in Pictures,
         v.width = 0 => v.pan = 0 /\ (v.applied = 0 \/ v.resized = TRUE)
  PROVE  ViewOK(Draw!FitToWindow(v))
<1> DEFINE c == [v EXCEPT !.fit = TRUE, !.pan = 0]
<1>1. /\ c \in Pictures /\ c.pan = 0 /\ c.fit = TRUE /\ c.width = v.width /\ c.stage = v.stage
         /\ c.scale = v.scale
      /\ c.applied = v.applied /\ (v.resized = TRUE => c.resized = TRUE)
  <2>1. c \in Pictures
    BY PlacedOK
  <2>2. c.pan = 0 /\ c.fit = TRUE /\ c.width = v.width /\ c.stage = v.stage /\ c.scale = v.scale
        /\ c.applied = v.applied
    BY DEF Pictures
  <2>3. v.resized = TRUE => c.resized = TRUE
    BY DEF Pictures
  <2> QED BY <2>1, <2>2, <2>3
<1>2. /\ v.width = 0 => Draw!FitToWindow(v) = c
      /\ v.width # 0 => Draw!FitToWindow(v) = Draw!SetScale(c, Draw!FitScale(v))
  BY Zenon DEF Draw!FitToWindow
<1>5. Draw!FitScale(c) = Draw!FitScale(v)
  BY <1>1 DEF Draw!FitScale
<1> HIDE DEF c
<1>3. CASE v.width = 0
  <2>1. Draw!MaxPan(c) \in Nat
    BY <1>1, PictureTyped
  <2>2. 0 \in (0 - Draw!MaxPan(c)) .. Draw!MaxPan(c)
    BY <2>1
  <2> QED BY <1>1, <1>2, <1>3, <2>2 DEF ViewOK
<1>4. CASE v.width # 0
  <2>1. Draw!FitScale(c) \in 1 .. MaxScale /\ Draw!FitScale(c) \in Int
    BY FitIsScale, MaxScale \in Nat DEF Draw!RenderingsAssumption
  <2> QED BY <1>1, <1>2, <1>4, <1>5, <2>1, ScaledOK
<1> QED BY <1>3, <1>4

\* Before the picture has come there is nothing to drag.
LEMMA NoPicture ==
  ASSUME Draw!RenderingsAssumption, NEW v, ViewOK(v), v.width = 0
  PROVE  v.pan = 0 /\ (v.applied = 0 \/ v.resized = TRUE)
<1>1. v \in Pictures
  BY DEF ViewOK
<1>2. v.scale \in Nat /\ v.stage \in Nat \ {0} /\ v.pan \in Int
  BY <1>1, PictureTyped
<1>3. v.width * v.scale - v.stage = 0 - v.stage
  BY <1>2
<1>4. Draw!MaxPan(v) = 0
  BY <1>2, <1>3 DEF Draw!MaxPan, Draw!Most
<1> QED BY <1>2, <1>4 DEF ViewOK

LEMMA ViewStarts == ASSUME Draw!RenderingsAssumption, Draw!ViewInit PROVE ViewOK(view)
<1>1. PICK stage \in Stages :
        view = [width |-> 0, stage |-> stage, scale |-> One, pan |-> 0, fit |-> FALSE,
                drag |-> [by |-> 0, at |-> 0, pan |-> 0], applied |-> 0, resized |-> FALSE]
  BY DEF Draw!ViewInit
<1>2. One \in 1 .. MaxScale
  BY DEF Draw!RenderingsAssumption
<1>3. [by |-> 0, at |-> 0, pan |-> 0] \in Drags
  BY DEF Drags
<1>4. view \in Pictures
  BY <1>1, <1>2, <1>3 DEF Pictures
<1>5. Draw!MaxPan(view) \in Nat
  BY <1>4, PictureTyped
<1>6. view.pan = 0 /\ view.applied = 0 /\ view.fit = FALSE
  BY <1>1
<1> QED BY <1>4, <1>5, <1>6 DEF ViewOK

LEMMA ViewNextOK == ASSUME Draw!RenderingsAssumption, ViewOK(view), Draw!ViewNext PROVE ViewOK(view')
<1>0. view \in Pictures
  BY DEF ViewOK
<1>1. CASE Draw!PictureLoads
  <2> DEFINE v == [view EXCEPT !.width = Picture]
  <2>1. v \in Pictures /\ v.pan = view.pan /\ v.applied = view.applied
        /\ (view.resized = TRUE => v.resized = TRUE)
    <3>1. v \in Pictures
      BY <1>0 DEF Pictures
    <3>2. v.pan = view.pan /\ v.applied = view.applied
      BY <1>0 DEF Pictures
    <3>3. view.resized = TRUE => v.resized = TRUE
      BY <1>0 DEF Pictures
    <3> QED BY <3>1, <3>2, <3>3
  <2>2. view' = Draw!FitToWindow(v) /\ view.width = 0
    BY <1>1 DEF Draw!PictureLoads, Draw!Views
  <2> HIDE DEF v
  <2>3. ViewOK(Draw!FitToWindow(v))
    BY <2>1, <2>2, NoPicture, FittedOK
  <2> QED BY <2>2, <2>3
<1>2. CASE Draw!Fit
  <2>1. ViewOK(Draw!FitToWindow(view))
    BY <1>0, NoPicture, FittedOK
  <2> QED BY <1>2, <2>1 DEF Draw!Fit, Draw!Views
<1>3. ASSUME NEW by \in {1, 0 - 1}, Draw!Zoom(by) PROVE ViewOK(view')
  <2> DEFINE v == [view EXCEPT !.fit = FALSE]
  <2>1. v \in Pictures /\ v.fit = FALSE
    BY <1>0 DEF Pictures
  <2>2. view.scale + by \in Int
    BY <1>0, PictureTyped
  <2>3. view' = Draw!SetScale(v, view.scale + by)
    BY <1>3 DEF Draw!Zoom, Draw!Views
  <2> HIDE DEF v
  <2>4. ViewOK(Draw!SetScale(v, view.scale + by))
    BY <2>1, <2>2, ScaledOK
  <2> QED BY <2>3, <2>4
<1>4. CASE Draw!ResetZoom
  <2> DEFINE v == [view EXCEPT !.fit = FALSE, !.pan = 0]
  <2>1. v \in Pictures /\ v.fit = FALSE
    <3>1. v \in Pictures
      BY <1>0, PlacedOK
    <3> QED BY <1>0, <3>1 DEF Pictures
  <2>2. view' = Draw!SetScale(v, One) /\ One \in Int
    BY <1>4 DEF Draw!ResetZoom, Draw!Views, Draw!RenderingsAssumption
  <2> HIDE DEF v
  <2>3. ViewOK(Draw!SetScale(v, One))
    BY <2>1, <2>2, ScaledOK
  <2> QED BY <2>2, <2>3
<1>5. ASSUME NEW d \in Drags, view' = [view EXCEPT !.drag = d] PROVE ViewOK(view')
  <2> DEFINE v == [view EXCEPT !.drag = d]
  <2>1. /\ v \in Pictures /\ v.width = view.width /\ v.stage = view.stage /\ v.scale = view.scale
           /\ v.fit = view.fit
        /\ v.pan = view.pan /\ v.applied = view.applied /\ v.resized = view.resized
    BY <1>0 DEF Pictures
  <2> HIDE DEF v
  <2>2. Draw!MaxPan(v) = Draw!MaxPan(view) /\ Draw!FitScale(v) = Draw!FitScale(view)
    BY <2>1 DEF Draw!MaxPan, Draw!FitScale
  <2>3. ViewOK(v)
    BY <2>1, <2>2 DEF ViewOK
  <2> QED BY <1>5, <2>3 DEF v
<1>6. ASSUME NEW p \in Pointers, NEW x \in Places, Draw!PointerMove(p, x) PROVE ViewOK(view')
  <2> DEFINE n == view.drag.pan + x - view.drag.at
             v == [view EXCEPT !.pan = n]
  <2>1. n \in Int
    BY <1>0, PictureTyped DEF Draw!RenderingsAssumption
  <2>2. view' = Draw!Applied(Draw!ClampedPan(v))
    BY <1>6 DEF Draw!PointerMove, Draw!Views
  <2> HIDE DEF n
  <2>3. v \in Pictures /\ v.width = view.width /\ v.stage = view.stage /\ v.scale = view.scale
        /\ v.fit = view.fit
    BY <1>0, <2>1 DEF Pictures
  <2> HIDE DEF v
  <2>4. Draw!FitScale(v) = Draw!FitScale(view)
    BY <2>3 DEF Draw!FitScale
  <2>5. ViewOK(Draw!Applied(Draw!ClampedPan(v)))
    BY <2>3, <2>4, AppliedOK DEF ViewOK
  <2> QED BY <2>2, <2>5
<1>7. ASSUME NEW stage \in Stages, Draw!Resize(stage) PROVE ViewOK(view')
  <2> DEFINE v == [view EXCEPT !.stage = stage]
  <2>1. /\ v \in Pictures /\ v.width = view.width /\ v.pan = view.pan /\ v.applied = view.applied
        /\ v.resized = view.resized /\ v.fit = view.fit
    BY <1>0 DEF Pictures
  <2>2. view' = IF v.fit THEN Draw!FitToWindow(v) ELSE [Draw!ClampedPan(v) EXCEPT !.resized = TRUE]
    BY <1>7 DEF Draw!Resize, Draw!Views
  <2> HIDE DEF v
  <2>3. CASE v.fit = TRUE
    <3>1. ViewOK(Draw!FitToWindow(v))
      BY <2>1, NoPicture, FittedOK
    <3> QED BY <2>2, <2>3, <3>1
  <2>4. CASE v.fit = FALSE
    <3> DEFINE c == Draw!ClampedPan(v)
               r == [c EXCEPT !.resized = TRUE]
    <3>1. c \in Pictures /\ c.fit = FALSE /\ c.pan \in (0 - Draw!MaxPan(c)) .. Draw!MaxPan(c)
      BY <2>1, <2>4, ClampOK
    <3>2. view' = r
      BY <2>2, <2>4
    <3> HIDE DEF c
    <3>3. /\ r \in Pictures /\ r.fit = FALSE /\ r.pan = c.pan /\ r.resized = TRUE /\ r.width = c.width
          /\ r.scale = c.scale /\ r.stage = c.stage
      BY <3>1 DEF Pictures
    <3> HIDE DEF r
    <3>4. Draw!MaxPan(r) = Draw!MaxPan(c)
      BY <3>3 DEF Draw!MaxPan
    <3>5. ViewOK(r)
      BY <3>1, <3>3, <3>4 DEF ViewOK
    <3> QED BY <3>2, <3>5
  <2>5. v.fit \in BOOLEAN
    BY <2>1, PictureTyped
  <2> QED BY <2>3, <2>4, <2>5
<1>8. ASSUME NEW p \in Pointers, NEW x \in Places, Draw!PointerDown(p, x) PROVE ViewOK(view')
  <2>1. [by |-> p, at |-> x, pan |-> view.pan] \in Drags
    BY <1>0, PictureTyped DEF Drags
  <2> QED BY <1>5, <1>8, <2>1 DEF Draw!PointerDown, Draw!Views
<1>9. ASSUME NEW p \in Pointers, Draw!PointerUp(p) PROVE ViewOK(view')
  <2>1. [by |-> 0, at |-> 0, pan |-> 0] \in Drags
    BY DEF Drags
  <2> QED BY <1>5, <1>9, <2>1 DEF Draw!PointerUp, Draw!Views
<1> QED BY <1>1, <1>2, <1>3, <1>4, <1>6, <1>7, <1>8, <1>9 DEF Draw!ViewNext

-----------------------------------------------------------------------------
LEMMA OthersStay ==
  ASSUME Draw!Next \/ UNCHANGED Draw!vars
  PROVE  /\ Draw!FigureNext \/ UNCHANGED block
         /\ Draw!DiagramNext \/ UNCHANGED diagram
         /\ Draw!LiveNext \/ UNCHANGED <<live, figureFlows>>
         /\ Draw!ViewNext \/ UNCHANGED view
<1>1. CASE Draw!FigureNext
  BY <1>1 DEF Draw!FigureNext, Draw!Toggle, Draw!BlockAnswer
<1>2. CASE Draw!DiagramNext
  BY <1>2 DEF Draw!DiagramNext, Draw!EditorOpens, Draw!FetchPreview, Draw!LeaveDiagram, Draw!Written,
     Draw!PreviewAnswer
<1>3. CASE Draw!LiveNext
  BY <1>3 DEF Draw!LiveNext, Draw!Imported, Draw!ToggleLive, Draw!EditBody, Draw!TimerFires, Draw!LiveAnswer,
     Draw!LiveLost
<1>4. CASE Draw!ViewNext
  BY <1>4 DEF Draw!ViewNext, Draw!PictureLoads, Draw!Fit, Draw!ResetZoom, Draw!Zoom, Draw!PointerUp,
     Draw!PointerDown, Draw!PointerMove, Draw!Resize, Draw!Views
<1>5. CASE UNCHANGED Draw!vars
  BY <1>5 DEF Draw!vars
<1> QED BY <1>1, <1>2, <1>3, <1>4, <1>5 DEF Draw!Next

RenderingsInv == BlockInv /\ DiagramInv /\ LiveInv /\ ViewOK(view)

\* However late, or in whatever order, the answers come and however a picture is dragged (the
\* controllers of blocks of code, diagrams, live previews and the picture viewer): a block shows its
\* source or its figure; with nothing on its way the diagram drawn is that of the source that will
\* be saved, and the last preview shows the body as it stands unless its last render was lost; and
\* no edge of a picture comes further in than the edge of its stage.
THEOREM RenderingsHold ==
  ASSUME Draw!RenderingsAssumption
  PROVE  Draw!Spec => [](Draw!BlockIsReadable /\ Draw!DiagramIsOfSource /\ Draw!LiveShowsBody
         /\ Draw!PictureStaysInReach)
<1>1. Draw!Init => RenderingsInv
  BY BlockStarts, DiagramStarts, LiveStarts, ViewStarts DEF Draw!Init, RenderingsInv
<1>2. RenderingsInv /\ [Draw!Next]_(Draw!vars) => RenderingsInv'
  <2> SUFFICES ASSUME RenderingsInv, Draw!Next \/ UNCHANGED Draw!vars PROVE RenderingsInv'
    OBVIOUS
  <2>1. BlockInv'
    BY OthersStay, BlockNext DEF RenderingsInv
  <2>2. DiagramInv'
    BY OthersStay, DiagramKept DEF RenderingsInv
  <2>3. LiveInv'
    BY OthersStay, LiveKept DEF RenderingsInv
  <2>4. ViewOK(view')
    <3>1. CASE Draw!ViewNext
      BY <3>1, ViewNextOK DEF RenderingsInv
    <3>2. CASE UNCHANGED view
      BY <3>2 DEF RenderingsInv
    <3> QED BY <3>1, <3>2, OthersStay
  <2> QED BY <2>1, <2>2, <2>3, <2>4 DEF RenderingsInv
<1>3. RenderingsInv => Draw!BlockIsReadable /\ Draw!DiagramIsOfSource /\ Draw!LiveShowsBody
      /\ Draw!PictureStaysInReach
  <2> SUFFICES ASSUME RenderingsInv PROVE Draw!BlockIsReadable /\ Draw!DiagramIsOfSource
      /\ Draw!LiveShowsBody /\ Draw!PictureStaysInReach
    OBVIOUS
  <2>1. Draw!BlockIsReadable
    BY DEF RenderingsInv, BlockInv
  <2>2. Draw!DiagramIsOfSource
    BY DEF RenderingsInv, DiagramInv, Draw!DiagramIsOfSource
  <2>3. Draw!LiveShowsBody
    BY LiveIsShown DEF RenderingsInv
  <2>4. Draw!PictureStaysInReach
    BY DEF RenderingsInv, ViewOK, Draw!PictureStaysInReach
  <2> QED BY <2>1, <2>2, <2>3, <2>4
<1> QED BY <1>1, <1>2, <1>3, PTL DEF Draw!Spec

-----------------------------------------------------------------------------
\* What is pasted

Steps == {"asking", "answered", "uploading", "done"}
Answers == {"none", "accept", "cancel"}
\* What was pasted, dropped or picked
Pastings == [kind : {"pasted", "dropped", "picked", "web"}, left : Seq(Files), sent : Seq(Files),
             step : Steps, plain : Paste!Plains, answer : Answers, alive : BOOLEAN]

\* The questions, where flow "but" is about to go on
Asked(fl, pd, op) ==
  /\ pd \in [Paste!Dialogs -> DOMAIN fl \cup {NoFlow}] /\ op \in [Paste!Dialogs -> BOOLEAN]
  /\ \A i \in DOMAIN fl : fl[i].step = "asking" => pd[Paste!DialogOf(fl[i])] = i
  /\ \A d \in Paste!Dialogs : pd[d] # NoFlow => op[d] = TRUE /\ fl[pd[d]].step = "asking"
     /\ Paste!DialogOf(fl[pd[d]]) = d

\* Exactly the flows that are answered are in the queue, each once.
Queued(fl, q, but) ==
  /\ q \in Seq(DOMAIN fl)
  /\ \A i \in DOMAIN fl \ but : fl[i].step = "answered" => \E n \in 1 .. Len(q) : q[n] = i
  /\ \A n \in 1 .. Len(q) : q[n] \notin but /\ fl[q[n]].step = "answered"
  /\ \A n, m \in 1 .. Len(q) : q[n] = q[m] => n = m

Flowing(fl) == fl \in Seq(Pastings) /\ \A i \in DOMAIN fl : fl[i].step # "done" => fl[i].left # <<>>

PastingInv == Flowing(pasteFlows) /\ Asked(pasteFlows, pending, open) /\ Queued(pasteFlows, ready, {})

LEMMA AsFunction ==
  ASSUME NEW S, NEW g \in Seq(S)
  PROVE  Len(g) \in Nat /\ DOMAIN g = 1 .. Len(g) /\ \A i \in DOMAIN g : g[i] \in S
OBVIOUS

\* Step and answer of flow i
WithStep(fl, i, s, a) == [fl EXCEPT ![i].step = s, ![i].answer = a]

LEMMA Stepped ==
  ASSUME NEW fl \in Seq(Pastings), NEW i \in DOMAIN fl, NEW s \in Steps, NEW a \in Answers
  PROVE  LET g == WithStep(fl, i, s, a)
         IN  /\ g \in Seq(Pastings) /\ DOMAIN g = DOMAIN fl
             /\ g[i].step = s /\ g[i].kind = fl[i].kind /\ g[i].left = fl[i].left
             /\ \A j \in DOMAIN fl \ {i} : g[j] = fl[j]
<1> DEFINE w == [fl[i] EXCEPT !.step = s, !.answer = a]
           g == [fl EXCEPT ![i].step = s, ![i].answer = a]
<1>1. fl[i] \in Pastings /\ Len(fl) \in Nat /\ DOMAIN fl = 1 .. Len(fl) /\ fl \in [1 .. Len(fl) -> Pastings]
  BY AsFunction
<1>2. w \in Pastings /\ w.step = s /\ w.kind = fl[i].kind /\ w.left = fl[i].left
  BY <1>1 DEF Pastings
<1>3. g = [fl EXCEPT ![i] = w]
  OBVIOUS
<1> HIDE DEF w
<1>4. g \in [1 .. Len(fl) -> Pastings] /\ g[i] = w /\ \A j \in DOMAIN fl \ {i} : g[j] = fl[j]
  BY <1>1, <1>2, <1>3
<1> HIDE DEF g
<1>5. g \in Seq(Pastings) /\ DOMAIN g = DOMAIN fl
  <2> DEFINE n == Len(fl)
  <2>1. n \in Nat /\ DOMAIN fl = 1 .. n /\ g \in [1 .. n -> Pastings]
    BY <1>1, <1>4
  <2> HIDE DEF n
  <2>2. g \in Seq(Pastings) /\ DOMAIN g = 1 .. n
    BY ONLY <2>1
  <2> QED BY <2>1, <2>2
<1> QED BY <1>2, <1>4, <1>5 DEF g, WithStep

\* What is taken over is answered, and nothing else happens to the flows.
LEMMA TakenIs ==
  ASSUME NEW fl, Flowing(fl), NEW id \in DOMAIN fl, fl[id].step # "asking", Asked(fl, pending, open),
         NEW d \in Paste!Dialogs
  PROVE  LET g == Paste!TakenOver(fl, d)
         IN  /\ g \in Seq(Pastings) /\ DOMAIN g = DOMAIN fl
             /\ pending[d] # NoFlow => pending[d] \in DOMAIN fl /\ pending[d] # id
                /\ g[pending[d]].step = "answered"
                                       /\ g[pending[d]].kind = fl[pending[d]].kind
                                       /\ g[pending[d]].left = fl[pending[d]].left
             /\ \A i \in DOMAIN fl : i # pending[d] => g[i] = fl[i]
<1> DEFINE w(i) == IF i = pending[d] THEN [fl[i] EXCEPT !.step = "answered", !.answer = "cancel"] ELSE fl[i]
           n == Len(fl)
           g == [i \in 1 .. n |-> w(i)]
<1>1. fl \in Seq(Pastings) /\ n \in Nat /\ DOMAIN fl = 1 .. n /\ \A i \in DOMAIN fl : fl[i] \in Pastings
  BY AsFunction DEF Flowing
<1> HIDE DEF n
<1>2. \A i \in DOMAIN fl : /\ w(i) \in Pastings
                           /\ i = pending[d] => w(i).step = "answered" /\ w(i).kind = fl[i].kind
                              /\ w(i).left = fl[i].left
                           /\ i # pending[d] => w(i) = fl[i]
  <2> TAKE i \in DOMAIN fl
  <2>1. CASE i = pending[d]
    BY <1>1, <2>1 DEF Pastings, Steps, Answers
  <2>2. CASE i # pending[d]
    BY <1>1, <2>2
  <2> QED BY <2>1, <2>2
<1>3. Paste!TakenOver(fl, d) = g
  BY <1>1 DEF Paste!TakenOver
<1> HIDE DEF w
<1>4. g \in [1 .. n -> Pastings] /\ \A i \in 1 .. n : g[i] = w(i)
  BY <1>1, <1>2
<1> HIDE DEF g
<1>5. g \in Seq(Pastings) /\ DOMAIN g = 1 .. n
  BY ONLY <1>1, <1>4
<1>6. pending[d] # NoFlow => pending[d] \in DOMAIN fl /\ fl[pending[d]].step = "asking"
  BY DEF Asked
<1>7. pending[d] # NoFlow => g[pending[d]] = w(pending[d])
  BY <1>1, <1>4, <1>6
<1>8. \A i \in DOMAIN fl : g[i] = w(i)
  BY <1>1, <1>4
<1>9. pending[d] # NoFlow => pending[d] # id
  BY <1>6
<1> QED BY <1>1, <1>2, <1>3, <1>5, <1>6, <1>7, <1>8, <1>9

LEMMA Appends ==
  ASSUME NEW S, NEW q \in Seq(S), NEW x \in S
  PROVE  /\ Append(q, x) \in Seq(S) /\ Len(Append(q, x)) = Len(q) + 1 /\ Append(q, x)[Len(q) + 1] = x
         /\ \A n \in 1 .. Len(q) : Append(q, x)[n] = q[n]
OBVIOUS

\* One who asks will be answered by the dialog, and so is the one before.
LEMMA AskOK ==
  ASSUME NEW fl, NEW q, NEW id \in DOMAIN fl, NoFlow \notin Nat, Flowing(fl), Asked(fl, pending, open),
         Queued(fl, q, {id}),
         fl[id].step # "asking", fl[id].left # <<>>, Paste!Ask(id, fl, q)
  PROVE  PastingInv'
<1> DEFINE d == Paste!DialogOf(fl[id])
           p == pending[d]
           o == Paste!TakenOver(fl, d)
<1>1. d \in Paste!Dialogs
  BY DEF Paste!DialogOf, Paste!Dialogs
<1>2. /\ o \in Seq(Pastings) /\ DOMAIN o = DOMAIN fl
      /\ p # NoFlow => p \in DOMAIN fl /\ p # id /\ o[p].step = "answered" /\ o[p].kind = fl[p].kind
         /\ o[p].left = fl[p].left
      /\ \A i \in DOMAIN fl : i # p => o[i] = fl[i]
  BY <1>1, TakenIs
<1>3. /\ pasteFlows' = [o EXCEPT ![id].step = "asking", ![id].answer = "none"]
      /\ ready' = q \o (IF p = NoFlow THEN <<>> ELSE <<p>>)
      /\ pending' = [pending EXCEPT ![d] = id] /\ open' = [open EXCEPT ![d] = TRUE]
  BY DEF Paste!Ask
<1>4. pending \in [Paste!Dialogs -> DOMAIN fl \cup {NoFlow}] /\ open \in [Paste!Dialogs -> BOOLEAN]
  BY DEF Asked
<1>5. id # p
  <2>1. id # NoFlow
    BY AsFunction DEF Flowing
  <2> QED BY <1>2, <2>1
<1> HIDE DEF o
<1>6. /\ pasteFlows' \in Seq(Pastings) /\ DOMAIN pasteFlows' = DOMAIN fl
      /\ pasteFlows'[id].step = "asking" /\ pasteFlows'[id].kind = fl[id].kind
         /\ pasteFlows'[id].left = fl[id].left
      /\ \A j \in DOMAIN fl \ {id} : pasteFlows'[j] = o[j]
  <2>1. "asking" \in Steps /\ "none" \in Answers /\ o[id] = fl[id]
    BY <1>2, <1>5 DEF Steps, Answers
  <2>2. pasteFlows' = WithStep(o, id, "asking", "none")
    BY <1>3 DEF WithStep
  <2> QED BY <1>2, <2>1, <2>2, Stepped
<1>7. \A j \in DOMAIN fl \ {id} : /\ j # p => pasteFlows'[j] = fl[j]
                                  /\ j = p => pasteFlows'[j].step = "answered"
                                     /\ pasteFlows'[j].kind = fl[j].kind
                                              /\ pasteFlows'[j].left = fl[j].left
  <2>1. NoFlow \notin DOMAIN fl
    BY AsFunction DEF Flowing
  <2> QED BY <1>2, <1>6, <2>1
<1>8. pending'[d] = id /\ open'[d] = TRUE /\ \A e \in Paste!Dialogs \ {d} : pending'[e] = pending[e]
      /\ open'[e] = open[e]
  BY <1>1, <1>3, <1>4
<1>9. pending' \in [Paste!Dialogs -> DOMAIN pasteFlows' \cup {NoFlow}] /\ open' \in [Paste!Dialogs -> BOOLEAN]
  BY <1>1, <1>3, <1>4, <1>6
<1>10. p # NoFlow => p \in DOMAIN fl /\ fl[p].step = "asking" /\ Paste!DialogOf(fl[p]) = d
  BY <1>1, <1>2 DEF Asked
<1>11. Flowing(pasteFlows')
  <2> SUFFICES ASSUME NEW j \in DOMAIN pasteFlows', pasteFlows'[j].step # "done"
      PROVE pasteFlows'[j].left # <<>>
    BY <1>6 DEF Flowing
  <2>1. CASE j = id
    BY <1>6, <2>1
  <2>2. CASE j # id /\ j # p
    BY <1>6, <1>7, <2>2 DEF Flowing
  <2>3. CASE j # id /\ j = p
    <3>1. fl[p].step = "asking"
      BY <1>6, <1>10, <2>3, AsFunction DEF Flowing
    <3>2. fl[j].step # "done"
      BY <2>3, <3>1
    <3> QED BY <1>6, <1>7, <2>3, <3>2 DEF Flowing
  <2> QED BY <2>1, <2>2, <2>3
<1>12. Asked(pasteFlows', pending', open')
  <2>1. ASSUME NEW j \in DOMAIN pasteFlows', pasteFlows'[j].step = "asking"
        PROVE  pending'[Paste!DialogOf(pasteFlows'[j])] = j
    <3>1. CASE j = id
      BY <1>6, <1>8, <3>1 DEF Paste!DialogOf
    <3>2. CASE j # id
      <4>1. j # p /\ pasteFlows'[j] = fl[j]
        BY <1>6, <1>7, <2>1, <3>2
      <4>2. pending[Paste!DialogOf(fl[j])] = j /\ Paste!DialogOf(fl[j]) \in Paste!Dialogs
        BY <1>6, <2>1, <4>1 DEF Asked, Paste!DialogOf, Paste!Dialogs
      <4>3. Paste!DialogOf(fl[j]) # d
        BY <4>1, <4>2
      <4> QED BY <1>8, <4>1, <4>2, <4>3
    <3> QED BY <3>1, <3>2
  <2>2. ASSUME NEW e \in Paste!Dialogs, pending'[e] # NoFlow
        PROVE  open'[e] = TRUE /\ pasteFlows'[pending'[e]].step = "asking"
               /\ Paste!DialogOf(pasteFlows'[pending'[e]]) = e
    <3>1. CASE e = d
      BY <1>6, <1>8, <3>1 DEF Paste!DialogOf
    <3>2. CASE e # d
      <4>1. /\ pending'[e] = pending[e] /\ open'[e] = TRUE /\ pending[e] \in DOMAIN fl
            /\ fl[pending[e]].step = "asking" /\ Paste!DialogOf(fl[pending[e]]) = e
        BY <1>4, <1>8, <2>2, <3>2 DEF Asked
      <4>2. pending[e] # id /\ pending[e] # p
        BY <1>2, <1>10, <2>2, <3>2, <4>1
      <4>3. pasteFlows'[pending[e]] = fl[pending[e]]
        BY <1>7, <4>1, <4>2
      <4> QED BY <4>1, <4>3
    <3> QED BY <3>1, <3>2
  <2> QED BY <1>9, <2>1, <2>2 DEF Asked
<1>13. Queued(pasteFlows', ready', {})
  <2>0. /\ q \in Seq(DOMAIN fl) /\ Len(q) \in Nat
        /\ \A i \in DOMAIN fl \ {id} : fl[i].step = "answered" => \E n \in 1 .. Len(q) : q[n] = i
        /\ \A n \in 1 .. Len(q) : q[n] \in DOMAIN fl /\ q[n] # id /\ fl[q[n]].step = "answered"
        /\ \A n, m \in 1 .. Len(q) : q[n] = q[m] => n = m
    BY AsFunction DEF Queued
  <2>1. \A n \in 1 .. Len(q) : q[n] # p
    BY <1>10, <2>0, AsFunction DEF Flowing
  <2>2. \A n \in 1 .. Len(q) : pasteFlows'[q[n]].step = "answered"
    BY <1>7, <2>0, <2>1
  <2>3. CASE p = NoFlow
    <3>1. ready' = q
      BY <1>3, <2>0, <2>3
    <3>2. \A i \in DOMAIN fl : pasteFlows'[i].step = "answered" => i # id /\ fl[i].step = "answered"
      <4>1. NoFlow \notin DOMAIN fl
        BY AsFunction DEF Flowing
      <4> QED BY <1>6, <1>7, <2>3, <4>1
    <3> QED BY <1>6, <2>0, <2>2, <3>1, <3>2 DEF Queued
  <2>4. CASE p # NoFlow
    <3>1. ready' = Append(q, p) /\ p \in DOMAIN fl
      BY <1>3, <1>10, <2>0, <2>4
    <3>2. /\ ready' \in Seq(DOMAIN fl) /\ Len(ready') = Len(q) + 1 /\ ready'[Len(q) + 1] = p
          /\ \A n \in 1 .. Len(q) : ready'[n] = q[n]
      BY <2>0, <3>1, Appends
    <3> DEFINE k == Len(q)
    <3>3. k \in Nat
      BY <2>0
    <3>4. \A n \in 1 .. k + 1 : n \in 1 .. k \/ n = k + 1
      BY <3>3
    <3>5. \A n \in 1 .. k : n \in 1 .. k + 1
      BY <3>3
    <3>6. \A i \in DOMAIN fl : pasteFlows'[i].step = "answered" => \E n \in 1 .. k + 1 : ready'[n] = i
      <4> TAKE i \in DOMAIN fl
      <4>1. CASE i = p
        BY <3>2, <3>3, <4>1
      <4>2. CASE i # p
        <5>1. pasteFlows'[i].step = "answered" => i # id /\ fl[i].step = "answered"
          BY <1>6, <1>7, <4>2
        <5> QED BY <2>0, <3>2, <3>5, <5>1
      <4> QED BY <4>1, <4>2
    <3>7. \A n \in 1 .. k + 1 : pasteFlows'[ready'[n]].step = "answered"
      BY <1>5, <1>7, <2>2, <3>1, <3>2, <3>4
    <3>8. \A n, m \in 1 .. k + 1 : ready'[n] = ready'[m] => n = m
      BY <2>0, <2>1, <3>2, <3>4
    <3> QED BY <1>6, <3>2, <3>6, <3>7, <3>8 DEF Queued
  <2> QED BY <2>3, <2>4
<1> QED BY <1>11, <1>12, <1>13 DEF PastingInv

-----------------------------------------------------------------------------
LEMMA PasteChanged ==
  ASSUME NEW fl \in Seq(Pastings), NEW i \in DOMAIN fl, NEW w \in Pastings
  PROVE  /\ [fl EXCEPT ![i] = w] \in Seq(Pastings) /\ DOMAIN [fl EXCEPT ![i] = w] = DOMAIN fl
         /\ [fl EXCEPT ![i] = w][i] = w /\ \A j \in DOMAIN fl \ {i} : [fl EXCEPT ![i] = w][j] = fl[j]
<1> DEFINE n == Len(fl)
           g == [fl EXCEPT ![i] = w]
<1>1. n \in Nat /\ DOMAIN fl = 1 .. n /\ fl \in [1 .. n -> Pastings]
  BY AsFunction
<1> HIDE DEF n
<1>2. g \in [1 .. n -> Pastings] /\ g[i] = w /\ \A j \in DOMAIN fl \ {i} : g[j] = fl[j]
  BY <1>1
<1> HIDE DEF g
<1>3. g \in Seq(Pastings) /\ DOMAIN g = 1 .. n
  BY ONLY <1>1, <1>2
<1> QED BY <1>1, <1>2, <1>3 DEF g

\* A flow that waits for no dialog goes on, or ends.
LEMMA MovedOK ==
  ASSUME NEW fl, NEW id \in DOMAIN fl, Flowing(fl), Asked(fl, pending, open), Queued(fl, ready', {id}),
         fl[id].step # "asking", pasteFlows' \in Seq(Pastings), DOMAIN pasteFlows' = DOMAIN fl,
         \A j \in DOMAIN fl \ {id} : pasteFlows'[j] = fl[j],
         pasteFlows'[id].step \notin {"asking", "answered"}, pasteFlows'[id].step = "done"
           \/ pasteFlows'[id].left # <<>>,
         pending' = pending, open' = open, NoFlow \notin Nat
  PROVE  PastingInv'
<1>1. Flowing(pasteFlows')
  BY DEF Flowing
<1>2. Asked(pasteFlows', pending', open')
  <2>1. \A d \in Paste!Dialogs : pending[d] # NoFlow => pending[d] \in DOMAIN fl
        /\ fl[pending[d]].step = "asking" /\ pending[d] # id
    BY DEF Asked
  <2> QED BY <2>1 DEF Asked
<1>3. Queued(pasteFlows', ready', {})
  BY AsFunction DEF Queued
<1> QED BY <1>1, <1>2, <1>3 DEF PastingInv

\* What does not change a step keeps all.
LEMMA SameOK ==
  ASSUME PastingInv, pasteFlows' \in Seq(Pastings), DOMAIN pasteFlows' = DOMAIN pasteFlows,
         pending' = pending, open' = open, ready' = ready,
         \A i \in DOMAIN pasteFlows : pasteFlows'[i].step = pasteFlows[i].step
           /\ pasteFlows'[i].kind = pasteFlows[i].kind
                                      /\ pasteFlows'[i].left = pasteFlows[i].left
  PROVE  PastingInv'
<1>1. Flowing(pasteFlows')
  BY DEF Flowing, PastingInv
<1>2. Asked(pasteFlows', pending', open')
  <2>1. \A i \in DOMAIN pasteFlows : Paste!DialogOf(pasteFlows'[i]) = Paste!DialogOf(pasteFlows[i])
    BY DEF Paste!DialogOf
  <2> QED BY <2>1 DEF Asked, PastingInv
<1>3. Queued(pasteFlows', ready', {})
  BY AsFunction DEF Queued, PastingInv
<1> QED BY <1>1, <1>2, <1>3 DEF PastingInv

\* A flow that is begun
LEMMA StartedOK ==
  ASSUME PastingInv, NEW w \in Pastings, w.left # <<>>, w.step # "asking", NoFlow \notin Nat
  PROVE  LET fl == Append(pasteFlows, w)
         IN  /\ Flowing(fl) /\ Asked(fl, pending, open) /\ Queued(fl, ready, {Len(fl)})
             /\ Len(fl) \in DOMAIN fl /\ fl[Len(fl)] = w
             /\ w.step # "answered" => Queued(fl, ready, {})
<1> DEFINE fl == Append(pasteFlows, w)
           n == Len(pasteFlows)
<1>1. pasteFlows \in Seq(Pastings) /\ n \in Nat /\ DOMAIN pasteFlows = 1 .. n
  BY AsFunction DEF PastingInv, Flowing
<1>2. fl \in Seq(Pastings) /\ Len(fl) = n + 1 /\ fl[n + 1] = w /\ \A i \in 1 .. n : fl[i] = pasteFlows[i]
  BY <1>1, Appends
<1> HIDE DEF fl
<1>3. DOMAIN fl = 1 .. n + 1
  BY <1>2, AsFunction
<1> HIDE DEF n
<1>4. \A i \in 1 .. n + 1 : i \in 1 .. n \/ i = n + 1
  BY <1>1
<1>5. n + 1 \notin 1 .. n /\ n + 1 \in 1 .. n + 1 /\ 1 .. n \subseteq 1 .. n + 1
  BY <1>1
<1>6. Flowing(fl)
  BY <1>1, <1>2, <1>3, <1>4 DEF PastingInv, Flowing
<1>7. Asked(fl, pending, open)
  <2>1. pending \in [Paste!Dialogs -> DOMAIN fl \cup {NoFlow}]
    BY <1>1, <1>3, <1>5 DEF PastingInv, Asked
  <2>2. \A d \in Paste!Dialogs : pending[d] # NoFlow => pending[d] \in 1 .. n
    BY <1>1 DEF PastingInv, Asked
  <2> QED BY <1>1, <1>2, <1>3, <1>4, <2>1, <2>2 DEF PastingInv, Asked
<1>8. ready \in Seq(DOMAIN fl) /\ Len(ready) \in Nat /\ \A i \in 1 .. Len(ready) : ready[i] \in 1 .. n
  <2>1. ready \in Seq(DOMAIN pasteFlows)
    BY DEF PastingInv, Queued
  <2>2. \A i \in 1 .. Len(ready) : ready[i] \in 1 .. n /\ ready[i] \in DOMAIN fl
    BY <1>1, <1>3, <1>5, <2>1, AsFunction
  <2> DEFINE m == Len(ready)
  <2>3. m \in Nat /\ DOMAIN ready = 1 .. m /\ ready \in [1 .. m -> DOMAIN fl]
    BY <2>1, <2>2, AsFunction
  <2> HIDE DEF m
  <2>4. ready \in Seq(DOMAIN fl)
    BY ONLY <2>3
  <2> QED BY <2>2, <2>3, <2>4 DEF m
<1>9. Queued(fl, ready, {n + 1}) /\ (w.step # "answered" => Queued(fl, ready, {}))
  BY <1>1, <1>2, <1>3, <1>4, <1>5, <1>8 DEF PastingInv, Queued
<1> QED BY <1>2, <1>3, <1>5, <1>6, <1>7, <1>9 DEF fl

LEMMA BatchOK ==
  ASSUME NEW fs \in Paste!Batches, MaxBatch \in Nat
  PROVE  fs \in Seq(Files) /\ fs # <<>>
<1>1. PICK n \in 1 .. MaxBatch : fs \in [1 .. n -> Files]
  BY DEF Paste!Batches
<1> QED BY <1>1

LEMMA FlowIs ==
  ASSUME NEW k \in {"pasted", "dropped", "picked", "web"}, NEW fs \in Seq(Files), NEW st \in Steps,
         NEW p \in Paste!Plains
  PROVE  Paste!Flow(k, fs, st, p) \in Pastings /\ Paste!Flow(k, fs, st, p).left = fs
         /\ Paste!Flow(k, fs, st, p).step = st
<1>1. Paste!Flow(k, fs, st, p) = [kind |-> k, left |-> fs, sent |-> <<>>, step |-> st, plain |-> p,
      answer |-> "none", alive |-> TRUE]
  BY DEF Paste!Flow
<1>2. <<>> \in Seq(Files) /\ "none" \in Answers
  BY DEF Answers
<1> QED BY <1>1, <1>2 DEF Pastings

\* The dialog answers whom it asks.
LEMMA FinishedOK ==
  ASSUME PastingInv, ready = <<>>, NEW d \in Paste!Dialogs, pending[d] # NoFlow, NEW a \in Answers, NEW n,
         Paste!Finished(d, a, n),
         NoFlow \notin Nat
  PROVE  PastingInv'
<1> DEFINE p == pending[d]
<1>1. pasteFlows \in Seq(Pastings) /\ p \in DOMAIN pasteFlows /\ pasteFlows[p].step = "asking"
      /\ Paste!DialogOf(pasteFlows[p]) = d
      /\ pending \in [Paste!Dialogs -> DOMAIN pasteFlows \cup {NoFlow}] /\ open \in [Paste!Dialogs -> BOOLEAN]
  BY DEF PastingInv, Flowing, Asked
<1>2. pasteFlows' = WithStep(pasteFlows, p, "answered", a) /\ ready' = Append(<<>>, p)
      /\ pending' = [pending EXCEPT ![d] = NoFlow] /\ open' = [open EXCEPT ![d] = FALSE]
  BY DEF Paste!Finished, WithStep
<1>3. /\ pasteFlows' \in Seq(Pastings) /\ DOMAIN pasteFlows' = DOMAIN pasteFlows
      /\ pasteFlows'[p].step = "answered" /\ pasteFlows'[p].kind = pasteFlows[p].kind
         /\ pasteFlows'[p].left = pasteFlows[p].left
      /\ \A j \in DOMAIN pasteFlows \ {p} : pasteFlows'[j] = pasteFlows[j]
  <2>1. "answered" \in Steps
    BY DEF Steps
  <2> QED BY <1>1, <1>2, <2>1, Stepped
<1>4. ready' = <<p>> /\ <<p>> \in Seq(DOMAIN pasteFlows) /\ Len(<<p>>) = 1 /\ <<p>>[1] = p
  BY <1>1, <1>2
<1>5. Flowing(pasteFlows')
  BY <1>1, <1>3 DEF PastingInv, Flowing
<1>6. Asked(pasteFlows', pending', open')
  <2>1. pending'[d] = NoFlow /\ \A e \in Paste!Dialogs \ {d} : pending'[e] = pending[e] /\ open'[e] = open[e]
    BY <1>1, <1>2
  <2>2. pending' \in [Paste!Dialogs -> DOMAIN pasteFlows' \cup {NoFlow}]
        /\ open' \in [Paste!Dialogs -> BOOLEAN]
    BY <1>1, <1>2, <1>3
  <2>3. ASSUME NEW j \in DOMAIN pasteFlows', pasteFlows'[j].step = "asking"
        PROVE  pending'[Paste!DialogOf(pasteFlows'[j])] = j
    <3>1. j # p /\ pasteFlows'[j] = pasteFlows[j] /\ j \in DOMAIN pasteFlows
      BY <1>3, <2>3
    <3>2. pending[Paste!DialogOf(pasteFlows[j])] = j /\ Paste!DialogOf(pasteFlows[j]) \in Paste!Dialogs
      BY <2>3, <3>1 DEF PastingInv, Asked, Paste!DialogOf, Paste!Dialogs
    <3> QED BY <2>1, <3>1, <3>2
  <2>4. ASSUME NEW e \in Paste!Dialogs, pending'[e] # NoFlow
        PROVE  open'[e] = TRUE /\ pasteFlows'[pending'[e]].step = "asking"
               /\ Paste!DialogOf(pasteFlows'[pending'[e]]) = e
    <3>1. e # d /\ pending'[e] = pending[e] /\ open'[e] = open[e]
      BY <2>1, <2>4
    <3>2. open[e] = TRUE /\ pending[e] \in DOMAIN pasteFlows /\ pasteFlows[pending[e]].step = "asking"
          /\ Paste!DialogOf(pasteFlows[pending[e]]) = e
      BY <1>1, <2>4, <3>1 DEF PastingInv, Asked
    <3>3. pending[e] # p
      BY <1>1, <3>1, <3>2
    <3> QED BY <1>3, <3>1, <3>2, <3>3
  <2> QED BY <2>2, <2>3, <2>4 DEF Asked
<1>7. Queued(pasteFlows', ready', {})
  <2>1. \A i \in DOMAIN pasteFlows : pasteFlows[i].step # "answered"
    BY DEF PastingInv, Queued
  <2>2. \A i \in 1 .. 1 : i = 1
    OBVIOUS
  <2>3. \A i \in DOMAIN pasteFlows' : pasteFlows'[i].step = "answered" => i = p
    BY <1>3, <2>1
  <2> QED BY <1>3, <1>4, <2>2, <2>3 DEF Queued
<1> QED BY <1>5, <1>6, <1>7 DEF PastingInv

LEMMA NextPastedOK ==
  ASSUME PastingInv, NEW id \in DOMAIN pasteFlows, pasteFlows[id].step \notin {"asking", "done"}, NEW q,
         Queued(pasteFlows, q, {id}),
         Paste!NextPasted(id, pasteFlows, q), NoFlow \notin Nat
  PROVE  PastingInv'
<1> DEFINE w == [pasteFlows[id] EXCEPT !.left = Tail(@)]
           rest == [pasteFlows EXCEPT ![id] = w]
<1>1. pasteFlows \in Seq(Pastings) /\ pasteFlows[id] \in Pastings /\ pasteFlows[id].left # <<>>
  BY AsFunction DEF PastingInv, Flowing
<1>2. Tail(pasteFlows[id].left) \in Seq(Files)
  BY <1>1 DEF Pastings
<1>3. w \in Pastings /\ w.left = Tail(pasteFlows[id].left) /\ w.step = pasteFlows[id].step
      /\ w.kind = pasteFlows[id].kind
  BY <1>1, <1>2 DEF Pastings
<1>4. [pasteFlows EXCEPT ![id].left = Tail(@)] = rest
  OBVIOUS
<1> HIDE DEF w
<1>5. /\ rest \in Seq(Pastings) /\ DOMAIN rest = DOMAIN pasteFlows /\ rest[id] = w
      /\ \A j \in DOMAIN pasteFlows \ {id} : rest[j] = pasteFlows[j]
  BY <1>1, <1>3, PasteChanged
<1>6. IF rest[id].left # <<>> THEN Paste!Ask(id, rest, q)
      ELSE /\ pasteFlows' = [rest EXCEPT ![id].step = "done", ![id].answer = "none"]
           /\ ready' = q /\ pending' = pending /\ open' = open
  BY <1>4 DEF Paste!NextPasted
<1> HIDE DEF rest
<1>7. Asked(rest, pending, open)
  <2>1. \A j \in DOMAIN pasteFlows : rest[j].step = pasteFlows[j].step
        /\ Paste!DialogOf(rest[j]) = Paste!DialogOf(pasteFlows[j])
    BY <1>3, <1>5 DEF Paste!DialogOf
  <2>2. /\ pending \in [Paste!Dialogs -> DOMAIN pasteFlows \cup {NoFlow}]
           /\ open \in [Paste!Dialogs -> BOOLEAN]
        /\ \A i \in DOMAIN pasteFlows : pasteFlows[i].step = "asking"
           => pending[Paste!DialogOf(pasteFlows[i])] = i
        /\ \A d \in Paste!Dialogs : pending[d] # NoFlow =>
             pending[d] \in DOMAIN pasteFlows /\ open[d] = TRUE /\ pasteFlows[pending[d]].step = "asking"
               /\ Paste!DialogOf(pasteFlows[pending[d]]) = d
    BY DEF PastingInv, Asked
  <2> QED BY <1>5, <2>1, <2>2 DEF Asked
<1>8. Queued(rest, q, {id})
  <2>1. q \in Seq(DOMAIN rest) /\ \A n \in 1 .. Len(q) : q[n] \in DOMAIN pasteFlows \ {id}
    BY <1>5, AsFunction DEF Queued
  <2>2. \A n \in 1 .. Len(q) : rest[q[n]] = pasteFlows[q[n]]
    BY <1>5, <2>1
  <2> QED BY <1>5, <2>1, <2>2 DEF Queued
<1>9. CASE rest[id].left # <<>>
  <2>1. Flowing(rest)
    BY <1>5, <1>9 DEF PastingInv, Flowing
  <2> QED BY <1>3, <1>5, <1>6, <1>7, <1>8, <1>9, <2>1, AskOK
<1>10. CASE rest[id].left = <<>>
  <2>1. pasteFlows' = WithStep(rest, id, "done", "none") /\ ready' = q /\ pending' = pending /\ open' = open
    BY <1>6, <1>10 DEF WithStep
  <2>2. /\ pasteFlows' \in Seq(Pastings) /\ DOMAIN pasteFlows' = DOMAIN rest /\ pasteFlows'[id].step = "done"
        /\ \A j \in DOMAIN rest \ {id} : pasteFlows'[j] = rest[j]
    <3>1. "done" \in Steps /\ "none" \in Answers
      BY DEF Steps, Answers
    <3> QED BY <1>5, <2>1, <3>1, Stepped
  <2>3. \A j \in DOMAIN pasteFlows \ {id} : pasteFlows'[j] = pasteFlows[j]
    BY <1>5, <2>2
  <2>4. Flowing(pasteFlows) /\ Asked(pasteFlows, pending, open) /\ Queued(pasteFlows, ready', {id})
    BY <2>1 DEF PastingInv
  <2> QED BY <1>5, <2>1, <2>2, <2>3, <2>4, MovedOK
<1> QED BY <1>9, <1>10

LEMMA StartsOK ==
  ASSUME Paste!PastingAssumption, PastingInv,
         \/ \E c \in Paste!Clipboards : Paste!PastePictures(c) \/ \E f \in Files : Paste!PasteWebPage(c, f)
         \/ \E fs \in Paste!Batches : Paste!DropPictures(fs) \/ Paste!PickFiles(fs)
  PROVE  PastingInv'
<1>0. NoFlow \notin Nat /\ MaxBatch \in Nat
  BY DEF Paste!PastingAssumption
<1>1. \A fs \in Paste!Batches : fs \in Seq(Files) /\ fs # <<>>
  BY <1>0, BatchOK
<1>2. "answered" \in Steps /\ "uploading" \in Steps /\ "none" \in Paste!Plains
      /\ \A c \in Paste!Clipboards : c.plain \in Paste!Plains
  BY DEF Steps, Paste!Plains, Paste!Clipboards
<1>3. ASSUME NEW c \in Paste!Clipboards, Paste!PastePictures(c) PROVE PastingInv'
  <2>1. c.files \in Seq(Files) /\ c.files # <<>>
    <3>1. c.files \in Paste!Batches \cup {<<>>} /\ c.files # <<>>
      BY <1>3 DEF Paste!PastePictures, Paste!IsPicture, Paste!Clipboards
    <3> QED BY <1>1, <3>1
  <2> DEFINE w == Paste!Flow("pasted", c.files, "answered", "none")
             fl == Append(pasteFlows, w)
  <2>2. w \in Pastings /\ w.left = c.files /\ w.step = "answered"
    BY <1>2, <2>1, FlowIs
  <2>3. Paste!Ask(Len(fl), fl, ready)
    BY <1>3 DEF Paste!PastePictures
  <2> HIDE DEF w
  <2>4. /\ Flowing(fl) /\ Asked(fl, pending, open) /\ Queued(fl, ready, {Len(fl)})
        /\ Len(fl) \in DOMAIN fl /\ fl[Len(fl)] = w
    BY <1>0, <2>1, <2>2, StartedOK
  <2> HIDE DEF fl
  <2>5. fl[Len(fl)].step # "asking" /\ fl[Len(fl)].left # <<>>
    BY <2>1, <2>2, <2>4
  <2> QED BY <1>0, <2>3, <2>4, <2>5, AskOK
<1>4. ASSUME NEW c \in Paste!Clipboards, NEW f \in Files, Paste!PasteWebPage(c, f) PROVE PastingInv'
  <2>1. <<f>> \in Seq(Files) /\ <<f>> # <<>>
    OBVIOUS
  <2> DEFINE w == Paste!Flow("web", <<f>>, "answered", c.plain)
             fl == Append(pasteFlows, w)
  <2>7. c.plain \in Paste!Plains
    BY <1>2
  <2>2. w \in Pastings /\ w.left = <<f>> /\ w.step = "answered"
    <3> DEFINE one == <<f>>
               p == c.plain
    <3>1. one \in Seq(Files) /\ p \in Paste!Plains
      BY <2>1, <2>7
    <3> HIDE DEF one, p
    <3>2. LET v == Paste!Flow("web", one, "answered", p)
          IN  v \in Pastings /\ v.left = one /\ v.step = "answered"
      BY <1>2, <3>1, FlowIs
    <3> QED BY <3>2 DEF one, p
  <2>3. IF c.url THEN pasteFlows' = fl /\ ready' = Append(ready, Len(fl)) /\ pending' = pending
        /\ open' = open
        ELSE Paste!Ask(Len(fl), fl, ready)
    BY <1>4 DEF Paste!PasteWebPage
  <2>9. ready = <<>>
    BY <1>4 DEF Paste!PasteWebPage, Paste!Starts
  <2> HIDE DEF w
  <2>4. /\ Flowing(fl) /\ Asked(fl, pending, open) /\ Queued(fl, ready, {Len(fl)})
        /\ Len(fl) \in DOMAIN fl /\ fl[Len(fl)] = w
    BY <1>0, <2>1, <2>2, StartedOK
  <2> HIDE DEF fl
  <2>5. CASE c.url
    <3> DEFINE k == Len(fl)
    <3>1. pasteFlows' = fl /\ ready' = <<k>> /\ pending' = pending /\ open' = open
      BY <2>3, <2>5, <2>9
    <3>2. k \in DOMAIN fl /\ fl[k].step = "answered" /\ \A i \in DOMAIN fl \ {k} : fl[i].step # "answered"
      BY <2>2, <2>4, <2>9 DEF Queued
    <3> HIDE DEF k
    <3>3. <<k>> \in Seq(DOMAIN fl) /\ Len(<<k>>) = 1 /\ <<k>>[1] = k /\ \A n \in 1 .. 1 : n = 1
      BY <3>2
    <3>4. Queued(fl, <<k>>, {})
      BY <3>2, <3>3 DEF Queued
    <3> QED BY <2>4, <3>1, <3>4 DEF PastingInv
  <2>6. CASE ~c.url
    <3>1. Paste!Ask(Len(fl), fl, ready)
      BY <2>3, <2>6
    <3>2. fl[Len(fl)].step # "asking" /\ fl[Len(fl)].left # <<>>
      BY <2>1, <2>2, <2>4
    <3> QED BY <1>0, <2>4, <3>1, <3>2, AskOK
  <2> QED BY <2>5, <2>6
<1>5. ASSUME NEW fs \in Paste!Batches, NEW k \in {"dropped", "picked"},
             pasteFlows' = Append(pasteFlows, Paste!Flow(k, fs, "uploading", "none")),
             pending' = pending, open' = open, ready' = ready
      PROVE  PastingInv'
  <2> DEFINE w == Paste!Flow(k, fs, "uploading", "none")
             fl == Append(pasteFlows, w)
  <2>1. w \in Pastings /\ w.left # <<>> /\ w.step = "uploading"
    BY <1>1, <1>2, FlowIs
  <2>2. pasteFlows' = fl
    BY <1>5
  <2> HIDE DEF w
  <2>3. Flowing(fl) /\ Asked(fl, pending, open) /\ Queued(fl, ready, {})
    BY <1>0, <2>1, StartedOK
  <2> HIDE DEF fl
  <2> QED BY <1>5, <2>2, <2>3 DEF PastingInv
<1>6. ASSUME NEW fs \in Paste!Batches, Paste!DropPictures(fs) \/ Paste!PickFiles(fs) PROVE PastingInv'
  BY <1>5, <1>6 DEF Paste!DropPictures, Paste!PickFiles
<1> QED BY <1>3, <1>4, <1>6

\* What a flow that is not answered goes on with
LEMMA NotQueued ==
  ASSUME PastingInv, NEW id \in DOMAIN pasteFlows, pasteFlows[id].step # "answered"
  PROVE  Queued(pasteFlows, ready, {id})
BY DEF PastingInv, Queued

LEMMA DialogsOK ==
  ASSUME Paste!PastingAssumption, PastingInv,
         \E d \in Paste!Dialogs : Paste!CloseEvent(d)
           \/ \E a \in {"accept", "cancel"} : Paste!AnswerDialog(d, a)
  PROVE  PastingInv'
<1>0. NoFlow \notin Nat /\ \A a \in {"accept", "cancel"} : a \in Answers
  BY DEF Paste!PastingAssumption, Answers
<1>1. PICK d \in Paste!Dialogs : Paste!CloseEvent(d)
      \/ \E a \in {"accept", "cancel"} : Paste!AnswerDialog(d, a)
  OBVIOUS
<1>2. ready = <<>>
  BY <1>1 DEF Paste!CloseEvent, Paste!AnswerDialog
<1>3. CASE pending[d] # NoFlow /\ Paste!Finished(d, "cancel", closing[d] - 1)
  BY <1>0, <1>2, <1>3, FinishedOK
<1>4. ASSUME NEW a \in {"accept", "cancel"}, Paste!AnswerDialog(d, a) PROVE PastingInv'
  <2>1. pending[d] # NoFlow /\ Paste!Finished(d, a, closing[d])
    BY <1>4 DEF Paste!AnswerDialog
  <2> QED BY <1>0, <1>2, <2>1, FinishedOK
<1>5. CASE UNCHANGED <<pasteFlows, pending, open, ready>>
  BY <1>5 DEF PastingInv
<1> QED BY <1>1, <1>3, <1>4, <1>5 DEF Paste!CloseEvent

\* The head of the queue goes on.
LEMMA ContinueOK == ASSUME Paste!PastingAssumption, PastingInv, Paste!Continue PROVE PastingInv'
<1> DEFINE id == Head(ready)
           q == Tail(ready)
           m == Len(ready)
<1>0. NoFlow \notin Nat
  BY DEF Paste!PastingAssumption
<1>1. /\ ready \in Seq(DOMAIN pasteFlows) /\ m \in Nat \ {0} /\ ready[1] = id
      /\ q \in Seq(DOMAIN pasteFlows) /\ Len(q) = m - 1 /\ \A n \in 1 .. m - 1 : q[n] = ready[n + 1]
  BY DEF PastingInv, Queued, Paste!Continue
<1>2. id \in DOMAIN pasteFlows /\ pasteFlows[id].step = "answered"
  BY <1>1, AsFunction DEF PastingInv, Queued
<1>3. Queued(pasteFlows, q, {id})
  <2>0. /\ \A i \in DOMAIN pasteFlows : pasteFlows[i].step = "answered" => \E n \in 1 .. m : ready[n] = i
        /\ \A n \in 1 .. m : ready[n] \in DOMAIN pasteFlows /\ pasteFlows[ready[n]].step = "answered"
        /\ \A n, k \in 1 .. m : ready[n] = ready[k] => n = k
    BY <1>1, AsFunction DEF PastingInv, Queued
  <2> HIDE DEF id, q, m
  <2>1. 1 \in 1 .. m /\ \A n \in 1 .. m - 1 : n + 1 \in 1 .. m /\ n + 1 # 1
    BY <1>1
  <2>2. \A n \in 1 .. m : n = 1 \/ (n - 1 \in 1 .. m - 1 /\ (n - 1) + 1 = n)
    BY <1>1
  <2>3. \A n \in 1 .. m - 1 : q[n] # id /\ pasteFlows[q[n]].step = "answered"
    <3> TAKE n \in 1 .. m - 1
    <3>1. q[n] = ready[n + 1] /\ n + 1 \in 1 .. m /\ n + 1 # 1
      BY <1>1, <2>1
    <3>2. ready[n + 1] # ready[1] /\ pasteFlows[ready[n + 1]].step = "answered"
      BY <2>0, <2>1, <3>1
    <3> QED BY <1>1, <3>1, <3>2
  <2>4. \A i \in DOMAIN pasteFlows \ {id} : pasteFlows[i].step = "answered" => \E n \in 1 .. m - 1 : q[n] = i
    <3> SUFFICES ASSUME NEW i \in DOMAIN pasteFlows \ {id}, pasteFlows[i].step = "answered"
                 PROVE  \E n \in 1 .. m - 1 : q[n] = i
      OBVIOUS
    <3>1. PICK n \in 1 .. m : ready[n] = i
      BY <2>0
    <3>2. n # 1
      BY <1>1, <3>1
    <3>3. n - 1 \in 1 .. m - 1 /\ (n - 1) + 1 = n
      BY <2>2, <3>2
    <3>4. q[n - 1] = i
      BY <1>1, <3>1, <3>3
    <3> QED BY <3>3, <3>4
  <2>5. \A n, k \in 1 .. m - 1 : q[n] = q[k] => n = k
    <3> TAKE n, k \in 1 .. m - 1
    <3>1. q[n] = q[k] => n + 1 = k + 1
      BY <1>1, <2>0, <2>1
    <3> QED BY <1>1, <3>1
  <2> QED BY <1>1, <2>3, <2>4, <2>5 DEF Queued
<1>4. Flowing(pasteFlows) /\ Asked(pasteFlows, pending, open) /\ pasteFlows \in Seq(Pastings)
      /\ pasteFlows[id] \in Pastings /\ pasteFlows[id].left # <<>>
  BY <1>2, AsFunction DEF PastingInv, Flowing
<1>5. \/ pasteFlows' = [pasteFlows EXCEPT ![id].step = "done"] /\ ready' = q
         /\ pending' = pending /\ open' = open
      \/ pasteFlows' = [pasteFlows EXCEPT ![id].step = "uploading"] /\ ready' = q /\ pending' = pending
         /\ open' = open
      \/ Paste!NextPasted(id, pasteFlows, q)
  BY DEF Paste!Continue
<1> HIDE DEF id, q
<1>6. CASE Paste!NextPasted(id, pasteFlows, q)
  BY <1>0, <1>2, <1>3, <1>6, NextPastedOK
<1>7. CASE /\ pasteFlows' = [pasteFlows EXCEPT ![id].step = "done"] /\ ready' = q
           /\ pending' = pending /\ open' = open
  <2> DEFINE w == [pasteFlows[id] EXCEPT !.step = "done"]
  <2>1. w \in Pastings /\ w.step = "done"
    BY <1>4 DEF Pastings, Steps
  <2>2. pasteFlows' = [pasteFlows EXCEPT ![id] = w]
    BY <1>7
  <2> HIDE DEF w
  <2>3. /\ pasteFlows' \in Seq(Pastings) /\ DOMAIN pasteFlows' = DOMAIN pasteFlows
           /\ pasteFlows'[id].step = "done"
        /\ \A j \in DOMAIN pasteFlows \ {id} : pasteFlows'[j] = pasteFlows[j]
    BY <1>2, <1>4, <2>1, <2>2, PasteChanged
  <2> QED BY <1>0, <1>2, <1>3, <1>4, <1>7, <2>3, MovedOK
<1>8. CASE pasteFlows' = [pasteFlows EXCEPT ![id].step = "uploading"] /\ ready' = q /\ pending' = pending
      /\ open' = open
  <2> DEFINE w == [pasteFlows[id] EXCEPT !.step = "uploading"]
  <2>1. w \in Pastings /\ w.step = "uploading" /\ w.left = pasteFlows[id].left
    BY <1>4 DEF Pastings, Steps
  <2>2. pasteFlows' = [pasteFlows EXCEPT ![id] = w]
    BY <1>8
  <2> HIDE DEF w
  <2>3. /\ pasteFlows' \in Seq(Pastings) /\ DOMAIN pasteFlows' = DOMAIN pasteFlows
           /\ pasteFlows'[id].step = "uploading"
        /\ pasteFlows'[id].left # <<>> /\ \A j \in DOMAIN pasteFlows \ {id} : pasteFlows'[j] = pasteFlows[j]
    BY <1>2, <1>4, <2>1, <2>2, PasteChanged
  <2> QED BY <1>0, <1>2, <1>3, <1>4, <1>8, <2>3, MovedOK
<1> QED BY <1>5, <1>6, <1>7, <1>8

LEMMA UploadOK ==
  ASSUME Paste!PastingAssumption, PastingInv, NEW id \in DOMAIN pasteFlows, NEW ok \in BOOLEAN,
         Paste!UploadAnswered(id, ok)
  PROVE  PastingInv'
<1> DEFINE x == pasteFlows[id]
           more == ok /\ x.kind # "pasted" /\ Len(x.left) > 1
<1>0. NoFlow \notin Nat
  BY DEF Paste!PastingAssumption
<1>1. /\ pasteFlows \in Seq(Pastings) /\ x \in Pastings /\ x.step = "uploading" /\ x.left # <<>>
      /\ Queued(pasteFlows, ready, {id}) /\ Flowing(pasteFlows) /\ Asked(pasteFlows, pending, open)
  BY NotQueued, AsFunction DEF Paste!UploadAnswered, PastingInv, Flowing
<1>2. IF x.kind = "pasted" THEN Paste!NextPasted(id, pasteFlows, ready)
      ELSE /\ pasteFlows' = IF more
                           THEN [pasteFlows EXCEPT ![id].left = Tail(@), ![id].sent = Paste!Inserted(x, ok)]
                            ELSE [pasteFlows EXCEPT ![id].left = <<>>, ![id].sent = <<>>, ![id].step = "done"]
           /\ pending' = pending /\ open' = open /\ ready' = ready
  BY DEF Paste!UploadAnswered
<1>3. CASE x.kind = "pasted"
  BY <1>0, <1>1, <1>2, <1>3, NextPastedOK
<1>4. CASE x.kind # "pasted" /\ more
  <2> DEFINE w == [x EXCEPT !.left = Tail(@), !.sent = Paste!Inserted(x, ok)]
  <2>1. x.left \in Seq(Files) /\ x.sent \in Seq(Files) /\ Len(x.left) > 1
    BY <1>1, <1>4 DEF Pastings
  <2>2. Tail(x.left) \in Seq(Files) /\ Tail(x.left) # <<>> /\ Head(x.left) \in Files
    <3> DEFINE left == x.left
    <3>1. left \in Seq(Files) /\ Len(left) > 1
      BY <2>1
    <3> HIDE DEF left
    <3>2. Tail(left) \in Seq(Files) /\ Len(Tail(left)) = Len(left) - 1
      BY <3>1
    <3>3. Tail(left) # <<>>
      <4>1. Len(left) \in Nat
        BY <3>1
      <4>2. Len(Tail(left)) # 0
        BY <3>1, <3>2, <4>1
      <4>3. Len(<<>>) = 0
        OBVIOUS
      <4> QED BY <4>2, <4>3, Zenon
    <3>4. Head(left) \in Files
      BY <3>1
    <3> QED BY <3>2, <3>3, <3>4 DEF left
  <2>3. Paste!Inserted(x, ok) \in Seq(Files)
    BY <2>1, <2>2 DEF Paste!Inserted
  <2>4. w \in Pastings /\ w.step = "uploading" /\ w.left # <<>>
    BY <1>1, <2>2, <2>3 DEF Pastings
  <2>5. pasteFlows' = [pasteFlows EXCEPT ![id] = w] /\ pending' = pending /\ open' = open /\ ready' = ready
    BY <1>2, <1>4
  <2> HIDE DEF w
  <2>6. /\ pasteFlows' \in Seq(Pastings) /\ DOMAIN pasteFlows' = DOMAIN pasteFlows
           /\ pasteFlows'[id].step = "uploading"
        /\ pasteFlows'[id].left # <<>> /\ \A j \in DOMAIN pasteFlows \ {id} : pasteFlows'[j] = pasteFlows[j]
    BY <1>1, <2>4, <2>5, PasteChanged
  <2> QED BY <1>0, <1>1, <2>5, <2>6, MovedOK
<1>5. CASE x.kind # "pasted" /\ ~more
  <2> DEFINE w == [x EXCEPT !.left = <<>>, !.sent = <<>>, !.step = "done"]
  <2>1. w \in Pastings /\ w.step = "done"
    <3>1. "done" \in Steps /\ <<>> \in Seq(Files)
      BY DEF Steps
    <3> QED BY <1>1, <3>1 DEF Pastings
  <2>2. pasteFlows' = [pasteFlows EXCEPT ![id] = w] /\ pending' = pending /\ open' = open /\ ready' = ready
    BY <1>2, <1>5
  <2> HIDE DEF w
  <2>3. /\ pasteFlows' \in Seq(Pastings) /\ DOMAIN pasteFlows' = DOMAIN pasteFlows
           /\ pasteFlows'[id].step = "done"
        /\ \A j \in DOMAIN pasteFlows \ {id} : pasteFlows'[j] = pasteFlows[j]
    BY <1>1, <2>1, <2>2, PasteChanged
  <2> QED BY <1>0, <1>1, <2>2, <2>3, MovedOK
<1> QED BY <1>3, <1>4, <1>5

LEMMA DrawnOK == ASSUME PastingInv, Paste!DocumentDrawn \/ Paste!Disconnected PROVE PastingInv'
<1> DEFINE w(i) == [pasteFlows[i] EXCEPT !.alive = @ /\ pasteFlows[i].step # "asking"]
           n == Len(pasteFlows)
           g == [i \in 1 .. n |-> w(i)]
<1>1. n \in Nat /\ DOMAIN pasteFlows = 1 .. n /\ \A i \in 1 .. n : pasteFlows[i] \in Pastings
  BY AsFunction DEF PastingInv, Flowing
<1> HIDE DEF n
<1>2. \A i \in 1 .. n : w(i) \in Pastings /\ w(i).step = pasteFlows[i].step /\ w(i).kind = pasteFlows[i].kind
      /\ w(i).left = pasteFlows[i].left
  <2> TAKE i \in 1 .. n
  <2>1. \A b \in BOOLEAN : LET v == [pasteFlows[i] EXCEPT !.alive = b]
                           IN  v \in Pastings /\ v.step = pasteFlows[i].step /\ v.kind = pasteFlows[i].kind
                             /\ v.left = pasteFlows[i].left
    BY <1>1 DEF Pastings
  <2>2. (pasteFlows[i].alive /\ pasteFlows[i].step # "asking") \in BOOLEAN
    OBVIOUS
  <2> QED BY <2>1, <2>2, Zenon
<1>3. pasteFlows' = g /\ pending' = pending /\ open' = open /\ ready' = ready
  BY <1>1 DEF Paste!DocumentDrawn, Paste!Disconnected, Paste!Uprooted
<1> HIDE DEF w
<1>4. g \in [1 .. n -> Pastings] /\ \A i \in 1 .. n : g[i] = w(i)
  BY <1>2
<1> HIDE DEF g
<1>5. g \in Seq(Pastings) /\ DOMAIN g = 1 .. n
  BY ONLY <1>1, <1>4
<1> QED BY <1>1, <1>2, <1>3, <1>4, <1>5, SameOK

LEMMA PastingStarts == ASSUME Paste!PastingAssumption, Paste!Init PROVE PastingInv
<1>1. pasteFlows = <<>> /\ ready = <<>> /\ DOMAIN pasteFlows = {} /\ pasteFlows \in Seq(Pastings)
      /\ ready \in Seq(DOMAIN pasteFlows)
      /\ Len(ready) = 0
  BY DEF Paste!Init
<1>2. pending \in [Paste!Dialogs -> DOMAIN pasteFlows \cup {NoFlow}] /\ open \in [Paste!Dialogs -> BOOLEAN]
      /\ \A d \in Paste!Dialogs : pending[d] = NoFlow
  BY DEF Paste!Init
<1>3. Flowing(pasteFlows) /\ Asked(pasteFlows, pending, open)
  BY <1>1, <1>2 DEF Flowing, Asked
<1>4. Queued(pasteFlows, ready, {})
  BY <1>1 DEF Queued
<1> QED BY <1>3, <1>4 DEF PastingInv

LEMMA PastingKept ==
  ASSUME Paste!PastingAssumption, PastingInv, Paste!Next \/ UNCHANGED Paste!vars PROVE PastingInv'
<1>1. CASE Paste!MemoPromoted \/ Paste!Mounted \/ UNCHANGED Paste!vars
  BY <1>1 DEF Paste!MemoPromoted, Paste!Mounted, Paste!vars, PastingInv
<1>3. ASSUME NEW id \in DOMAIN pasteFlows, NEW ok \in BOOLEAN, Paste!UploadAnswered(id, ok) PROVE PastingInv'
  BY <1>3, UploadOK
<1> QED BY <1>1, <1>3, StartsOK, DialogsOK, ContinueOK, DrawnOK DEF Paste!Next

LEMMA PromptIsOne == ASSUME PastingInv PROVE Paste!OnePromptWaits
<1>1. \A id \in DOMAIN pasteFlows : pasteFlows[id].step = "answered" => id \in Paste!ToSet(ready)
  <2> SUFFICES ASSUME NEW id \in DOMAIN pasteFlows, pasteFlows[id].step = "answered"
      PROVE id \in Paste!ToSet(ready)
    OBVIOUS
  <2>1. PICK n \in 1 .. Len(ready) : ready[n] = id
    BY DEF PastingInv, Queued
  <2>2. n \in DOMAIN ready
    BY AsFunction DEF PastingInv, Queued
  <2> QED BY <2>1, <2>2 DEF Paste!ToSet
<1>2. \A id \in DOMAIN pasteFlows : pasteFlows[id].step = "asking"
      => pending[Paste!DialogOf(pasteFlows[id])] = id
  BY DEF PastingInv, Asked
<1>3. \A d \in Paste!Dialogs : pending[d] # NoFlow => open[d] /\ pasteFlows[pending[d]].step = "asking"
  BY DEF PastingInv, Asked
<1> QED BY <1>1, <1>2, <1>3 DEF Paste!OnePromptWaits

-----------------------------------------------------------------------------
\* The files that are stored

\* What was put into the body, or missed; how often f is in s; the pages of text f that were put in;
\* and the pictures f the server has taken of the batches that are still being uploaded.
Kept == [f \in Files |-> body[f] + missed[f]]
Count(s, f) == Cardinality({k \in DOMAIN s : s[k] = f})
PagesIn(fl, f) ==
  {id \in DOMAIN fl : /\ fl[id].kind = "web" /\ fl[id].step = "done" /\ fl[id].left = <<f>>
                      /\ fl[id].alive /\ (fl[id].answer # "cancel" \/ fl[id].plain # "none")}
Uploaded(fl, f) ==
  {at \in (DOMAIN fl) \X (1 .. MaxBatch) : at[2] \in DOMAIN fl[at[1]].sent /\ fl[at[1]].sent[at[2]] = f}

\* A batch is no longer than it was.  Only of what is dropped or picked does anything wait for the
\* rest, and a page is one text that is asked about, answered or done.
Sized(w) ==
  /\ Len(w.sent) + Len(w.left) <= MaxBatch
  /\ w.kind \in {"pasted", "web"} => w.sent = <<>>
  /\ w.kind = "web" => w.step \in {"asking", "answered", "done"} /\ Len(w.left) = 1

StoredInv ==
  /\ stored \in [Files -> Nat] /\ body \in [Files -> Nat] /\ missed \in [Files -> Nat]
  /\ \A i \in DOMAIN pasteFlows : Sized(pasteFlows[i])
  /\ \A f \in Files : stored[f] + Cardinality(PagesIn(pasteFlows, f))
                        = Kept[f] + Cardinality(Uploaded(pasteFlows, f))

LEMMA KeptIs ==
  ASSUME body \in [Files -> Nat], missed \in [Files -> Nat]
  PROVE  Kept \in [Files -> Nat] /\ \A f \in Files : Kept[f] = body[f] + missed[f]
<1>1. \A f \in Files : body[f] \in Nat /\ missed[f] \in Nat
  OBVIOUS
<1>2. \A f \in Files : body[f] + missed[f] \in Nat
  BY <1>1
<1> QED BY <1>2 DEF Kept

LEMMA PasteCards == \A S : Paste!Cardinality(S) = Cardinality(S)
BY DEF Paste!Cardinality, Cardinality

LEMMA CountIs ==
  ASSUME NEW s \in Seq(Files), NEW f
  PROVE  /\ IsFiniteSet({k \in DOMAIN s : s[k] = f}) /\ Count(s, f) \in Nat
         /\ Count(<<>>, f) = 0
         /\ \A x \in Files : Count(Append(s, x), f) = Count(s, f) + (IF x = f THEN 1 ELSE 0)
<1> DEFINE n == Len(s)
           at == {k \in 1 .. n : s[k] = f}
<1>1. n \in Nat /\ DOMAIN s = 1 .. n
  BY AsFunction
<1> HIDE DEF n
<1>2. IsFiniteSet(at)
  <2>1. IsFiniteSet(1 .. n)
    BY <1>1, FS_Interval
  <2> QED BY <2>1, FS_Subset
<1>3. Count(<<>>, f) = 0
  <2>1. {k \in DOMAIN <<>> : <<>>[k] = f} = {}
    OBVIOUS
  <2> QED BY <2>1, FS_EmptySet DEF Count
<1>4. ASSUME NEW x \in Files PROVE Count(Append(s, x), f) = Count(s, f) + (IF x = f THEN 1 ELSE 0)
  <2> DEFINE t == Append(s, x)
  <2>1. Len(t) = n + 1 /\ t \in Seq(Files) /\ t[n + 1] = x /\ \A k \in 1 .. n : t[k] = s[k]
    BY Appends DEF n
  <2> HIDE DEF t
  <2>2. DOMAIN t = 1 .. n + 1
    BY <2>1, AsFunction
  <2>3. {k \in DOMAIN t : t[k] = f} = IF x = f THEN at \cup {n + 1} ELSE at
    BY <1>1, <2>1, <2>2
  <2>4. n + 1 \notin at
    BY <1>1
  <2>5. Cardinality(at \cup {n + 1}) = Cardinality(at) + 1 /\ Cardinality(at) \in Nat
    BY <1>2, <2>4, FS_AddElement, FS_CardinalityType
  <2>6. Count(s, f) = Cardinality(at)
    BY <1>1 DEF Count
  <2>7. Count(t, f) = Cardinality(IF x = f THEN at \cup {n + 1} ELSE at)
    BY <2>3 DEF Count
  <2> HIDE DEF at
  <2> QED BY <2>5, <2>6, <2>7 DEF t
<1> QED BY <1>1, <1>2, <1>3, <1>4, FS_CardinalityType DEF Count

LEMMA CountOne == ASSUME NEW x \in Files, NEW f PROVE Count(<<x>>, f) = IF x = f THEN 1 ELSE 0
<1>1. <<>> \in Seq(Files) /\ Append(<<>>, x) = <<x>>
  OBVIOUS
<1>2. Count(<<>>, f) = 0 /\ Count(Append(<<>>, x), f) = Count(<<>>, f) + (IF x = f THEN 1 ELSE 0)
  BY <1>1, CountIs
<1> QED BY <1>1, <1>2

LEMMA PutIs ==
  ASSUME NEW b \in [Files -> Nat], NEW s \in Seq(Files)
  PROVE  Paste!Put(b, s) \in [Files -> Nat] /\ \A f \in Files : Paste!Put(b, s)[f] = b[f] + Count(s, f)
<1>1. \A f \in Files : Count(s, f) \in Nat /\ b[f] \in Nat
  BY CountIs
<1>2. \A f \in Files : Paste!Cardinality({k \in DOMAIN s : s[k] = f}) = Count(s, f)
  BY PasteCards DEF Count
<1>3. Paste!Put(b, s) = [f \in Files |-> b[f] + Count(s, f)]
  BY <1>2 DEF Paste!Put
<1> QED BY <1>1, <1>3

LEMMA SetsAreFinite ==
  ASSUME MaxBatch \in Nat, NEW fl \in Seq(Pastings), NEW f
  PROVE  /\ IsFiniteSet(PagesIn(fl, f)) /\ Cardinality(PagesIn(fl, f)) \in Nat
         /\ IsFiniteSet(Uploaded(fl, f)) /\ Cardinality(Uploaded(fl, f)) \in Nat
<1>1. IsFiniteSet(DOMAIN fl)
  <2>1. Len(fl) \in Nat /\ DOMAIN fl = 1 .. Len(fl)
    BY AsFunction
  <2> QED BY <2>1, FS_Interval
<1>2. IsFiniteSet((DOMAIN fl) \X (1 .. MaxBatch))
  <2>1. IsFiniteSet(1 .. MaxBatch)
    BY FS_Interval
  <2> QED BY <1>1, <2>1, FS_Product
<1>3. PagesIn(fl, f) \in SUBSET DOMAIN fl /\ Uploaded(fl, f) \in SUBSET ((DOMAIN fl) \X (1 .. MaxBatch))
  BY DEF PagesIn, Uploaded
<1>4. IsFiniteSet(PagesIn(fl, f)) /\ IsFiniteSet(Uploaded(fl, f))
  BY <1>1, <1>2, <1>3, FS_Subset
<1> QED BY <1>4, FS_CardinalityType

\* What leaves a flow where the counts do not see it, and a flow that has yet to count
Alike(v, w) ==
  /\ v.kind = w.kind /\ v.sent = w.sent /\ (Sized(w) => Sized(v))
  /\ w.kind = "web" => /\ v.left = w.left /\ (v.step = "done" <=> w.step = "done")
                       /\ w.step = "done" => v.alive = w.alive /\ v.answer = w.answer /\ v.plain = w.plain
Uncounted(w) == Sized(w) /\ w.sent = <<>> /\ (w.kind = "web" => w.step # "done")

\* Nothing is counted but what is counted already, and what is stored is put in.
LEMMA GoesOn ==
  ASSUME MaxBatch \in Nat, Flowing(pasteFlows), StoredInv, DOMAIN pasteFlows \subseteq DOMAIN pasteFlows',
         \A i \in DOMAIN pasteFlows : Alike(pasteFlows'[i], pasteFlows[i]),
         \A i \in DOMAIN pasteFlows' \ DOMAIN pasteFlows : Uncounted(pasteFlows'[i]),
         stored' \in [Files -> Nat], body' \in [Files -> Nat], missed' \in [Files -> Nat],
         Kept' \in [Files -> Nat], \A f \in Files : stored'[f] + Kept[f] = stored[f] + Kept'[f]
  PROVE  StoredInv'
<1>1. \A i \in DOMAIN pasteFlows' : Sized(pasteFlows'[i])
  BY DEF StoredInv, Alike, Uncounted
<1>2. \A f : PagesIn(pasteFlows', f) = PagesIn(pasteFlows, f)
  BY DEF PagesIn, Alike, Uncounted
<1>3. \A f : Uploaded(pasteFlows', f) = Uploaded(pasteFlows, f)
  <2> SUFFICES ASSUME NEW f PROVE Uploaded(pasteFlows', f) = Uploaded(pasteFlows, f)
    OBVIOUS
  <2>1. \A i \in DOMAIN pasteFlows' \ DOMAIN pasteFlows : DOMAIN pasteFlows'[i].sent = {}
    BY DEF Uncounted
  <2>2. \A i \in DOMAIN pasteFlows : pasteFlows'[i].sent = pasteFlows[i].sent
    BY DEF Alike
  <2> QED BY <2>1, <2>2 DEF Uploaded
<1>4. ASSUME NEW f \in Files
      PROVE  stored'[f] + Cardinality(PagesIn(pasteFlows', f)) = Kept'[f]
             + Cardinality(Uploaded(pasteFlows', f))
  <2> DEFINE p == Cardinality(PagesIn(pasteFlows, f))
             u == Cardinality(Uploaded(pasteFlows, f))
  <2>1. p \in Nat /\ u \in Nat
    BY SetsAreFinite DEF Flowing
  <2>2. stored[f] + p = Kept[f] + u /\ stored[f] \in Nat /\ Kept[f] \in Nat
    BY KeptIs DEF StoredInv
  <2>3. stored'[f] + Kept[f] = stored[f] + Kept'[f] /\ stored'[f] \in Nat /\ Kept'[f] \in Nat
    OBVIOUS
  <2> HIDE DEF p, u
  <2>4. stored'[f] + p = Kept'[f] + u
    BY <2>1, <2>2, <2>3
  <2> QED BY <1>2, <1>3, <2>4 DEF p, u
<1> QED BY <1>1, <1>4 DEF StoredInv

-----------------------------------------------------------------------------
\* What steps leave alike

LEMMA StepAlike ==
  ASSUME NEW w \in Pastings, NEW s \in Steps, NEW a \in Answers,
         w.kind = "web" => w.step # "done" /\ s \in {"asking", "answered"}
  PROVE  Alike([w EXCEPT !.step = s, !.answer = a], w)
<1> DEFINE v == [w EXCEPT !.step = s, !.answer = a]
<1>1. v.kind = w.kind /\ v.sent = w.sent /\ v.left = w.left /\ v.step = s /\ v.alive = w.alive
  BY DEF Pastings
<1> HIDE DEF v
<1> QED BY <1>1 DEF v, Alike, Sized

LEMMA SameAlike == ASSUME NEW w PROVE Alike(w, w)
BY DEF Alike

\* A flow that asks, and one whose question it takes over
LEMMA AskAlike ==
  ASSUME NEW fl, NEW q, NEW id \in DOMAIN fl, NoFlow \notin Nat, Flowing(fl), Asked(fl, pending, open),
         fl[id].step \notin {"asking", "done"}, Paste!Ask(id, fl, q)
  PROVE  DOMAIN pasteFlows' = DOMAIN fl /\ \A i \in DOMAIN fl : Alike(pasteFlows'[i], fl[i])
<1> DEFINE d == Paste!DialogOf(fl[id])
           p == pending[d]
           taken(i) == [fl[i] EXCEPT !.step = "answered", !.answer = "cancel"]
           asks == [fl[id] EXCEPT !.step = "asking", !.answer = "none"]
           o == Paste!TakenOver(fl, d)
<1>1. d \in Paste!Dialogs /\ \A i \in DOMAIN fl : fl[i] \in Pastings
  BY AsFunction DEF Paste!DialogOf, Paste!Dialogs, Flowing
<1>2. p # NoFlow => fl[p].step = "asking"
  BY <1>1 DEF Asked
<1>3. NoFlow \notin DOMAIN fl
  BY AsFunction DEF Flowing
<1>4. o = [i \in DOMAIN fl |-> IF i = p THEN taken(i) ELSE fl[i]]
  BY DEF Paste!TakenOver
<1>5. pasteFlows' = [o EXCEPT ![id].step = "asking", ![id].answer = "none"]
  BY DEF Paste!Ask
<1>6. id # p
  BY <1>2, <1>3
<1>7. o[id] = fl[id]
  BY <1>4, <1>6
<1>8. pasteFlows' = [o EXCEPT ![id] = [o[id] EXCEPT !.step = "asking", !.answer = "none"]]
  BY <1>5
<1>9. pasteFlows' = [i \in DOMAIN fl |-> IF i = id THEN asks ELSE IF i = p THEN taken(i) ELSE fl[i]]
  <2> HIDE DEF taken, p, d
  <2> QED BY <1>4, <1>7, <1>8
<1>10. "asking" \in Steps /\ "answered" \in Steps /\ "none" \in Answers /\ "cancel" \in Answers
  BY DEF Steps, Answers
<1>11. Alike(asks, fl[id])
  BY <1>1, <1>10, StepAlike
<1>12. ASSUME NEW i \in DOMAIN fl, i = p PROVE Alike(taken(i), fl[i])
  <2>1. fl[i].step = "asking"
    BY <1>2, <1>3, <1>12
  <2> QED BY <1>1, <1>10, <2>1, StepAlike
<1> HIDE DEF taken, asks, p, d, o
<1> QED BY <1>9, <1>11, <1>12, SameAlike

\* A picture of a batch that is answered is followed by the next.
LEMMA NextAlike ==
  ASSUME MaxBatch \in Nat, NoFlow \notin Nat, PastingInv, NEW id \in DOMAIN pasteFlows,
         pasteFlows[id].kind = "pasted",
         pasteFlows[id].step \notin {"asking", "done"}, NEW q, Paste!NextPasted(id, pasteFlows, q)
  PROVE  DOMAIN pasteFlows' = DOMAIN pasteFlows
         /\ \A i \in DOMAIN pasteFlows : Alike(pasteFlows'[i], pasteFlows[i])
<1> DEFINE w == [pasteFlows[id] EXCEPT !.left = Tail(@)]
           rest == [pasteFlows EXCEPT ![id] = w]
<1>1. pasteFlows \in Seq(Pastings) /\ pasteFlows[id] \in Pastings /\ pasteFlows[id].left # <<>>
  BY AsFunction DEF PastingInv, Flowing
<1>2. Tail(pasteFlows[id].left) \in Seq(Files) /\ Len(Tail(pasteFlows[id].left)) <= Len(pasteFlows[id].left)
      /\ Len(pasteFlows[id].left) \in Nat /\ Len(pasteFlows[id].sent) \in Nat
  <2> DEFINE left == pasteFlows[id].left
  <2>1. left \in Seq(Files) /\ left # <<>> /\ pasteFlows[id].sent \in Seq(Files)
    BY <1>1 DEF Pastings
  <2> HIDE DEF left
  <2>2. Tail(left) \in Seq(Files) /\ Len(left) \in Nat /\ Len(Tail(left)) <= Len(left)
    BY <2>1
  <2> QED BY <2>1, <2>2 DEF left
<1>3. /\ w \in Pastings /\ w.left = Tail(pasteFlows[id].left) /\ w.step = pasteFlows[id].step
      /\ w.kind = "pasted" /\ w.sent = pasteFlows[id].sent
  BY <1>1, <1>2 DEF Pastings
<1>4. [pasteFlows EXCEPT ![id].left = Tail(@)] = rest
  OBVIOUS
<1>5. Alike(w, pasteFlows[id])
  <2>1. Len(w.left) \in Nat
    BY <1>2, <1>3
  <2> HIDE DEF w
  <2>2. ASSUME Len(pasteFlows[id].sent) + Len(pasteFlows[id].left) <= MaxBatch
        PROVE  Len(w.sent) + Len(w.left) <= MaxBatch
    <3> DEFINE a == Len(pasteFlows[id].sent)
               b == Len(pasteFlows[id].left)
               c == Len(w.left)
    <3>1. a \in Nat /\ b \in Nat /\ c \in Nat /\ c <= b /\ a + b <= MaxBatch
      BY <1>2, <1>3, <2>1, <2>2
    <3> HIDE DEF a, b, c
    <3>2. a + c <= MaxBatch
      BY <3>1
    <3> QED BY <1>3, <3>2 DEF a, c
  <2>3. Sized(pasteFlows[id]) => Sized(w)
    BY <1>3, <2>2 DEF Sized
  <2> QED BY <1>3, <2>3 DEF Alike
<1> HIDE DEF w
<1>6. /\ rest \in Seq(Pastings) /\ DOMAIN rest = DOMAIN pasteFlows /\ rest[id] = w
      /\ \A j \in DOMAIN pasteFlows \ {id} : rest[j] = pasteFlows[j]
  BY <1>1, <1>3, PasteChanged
<1>7. \A i \in DOMAIN pasteFlows : Alike(rest[i], pasteFlows[i])
  BY <1>5, <1>6, SameAlike
<1>8. IF rest[id].left # <<>> THEN Paste!Ask(id, rest, q)
      ELSE pasteFlows' = [rest EXCEPT ![id].step = "done", ![id].answer = "none"]
  BY <1>4 DEF Paste!NextPasted
<1> HIDE DEF rest
<1>9. DOMAIN pasteFlows' = DOMAIN rest /\ \A i \in DOMAIN rest : Alike(pasteFlows'[i], rest[i])
  <2>1. CASE rest[id].left # <<>>
    <3>1. Asked(rest, pending, open)
      <4>1. \A j \in DOMAIN pasteFlows : rest[j].step = pasteFlows[j].step
                                         /\ Paste!DialogOf(rest[j]) = Paste!DialogOf(pasteFlows[j])
        BY <1>3, <1>6 DEF Paste!DialogOf
      <4>2. /\ pending \in [Paste!Dialogs -> DOMAIN pasteFlows \cup {NoFlow}]
               /\ open \in [Paste!Dialogs -> BOOLEAN]
            /\ \A i \in DOMAIN pasteFlows : pasteFlows[i].step = "asking"
                 => pending[Paste!DialogOf(pasteFlows[i])] = i
            /\ \A d \in Paste!Dialogs : pending[d] # NoFlow =>
                 pending[d] \in DOMAIN pasteFlows /\ open[d] = TRUE /\ pasteFlows[pending[d]].step = "asking"
                 /\ Paste!DialogOf(pasteFlows[pending[d]]) = d
        BY DEF PastingInv, Asked
      <4> QED BY <1>6, <4>1, <4>2 DEF Asked
    <3>2. Flowing(rest)
      BY <1>6, <2>1 DEF PastingInv, Flowing
    <3> QED BY <1>3, <1>6, <1>8, <2>1, <3>1, <3>2, AskAlike
  <2>2. CASE rest[id].left = <<>>
    <3> DEFINE v == [w EXCEPT !.step = "done", !.answer = "none"]
    <3>1. pasteFlows' = [rest EXCEPT ![id] = v]
      BY <1>6, <1>8, <2>2
    <3>2. "done" \in Steps /\ "none" \in Answers
      BY DEF Steps, Answers
    <3>3. Alike(v, w)
      BY <1>3, <3>2, StepAlike
    <3>4. v \in Pastings
      BY <1>3, <3>2 DEF Pastings
    <3> HIDE DEF v
    <3>5. DOMAIN pasteFlows' = DOMAIN rest /\ pasteFlows'[id] = v
          /\ \A j \in DOMAIN rest \ {id} : pasteFlows'[j] = rest[j]
      BY <1>6, <3>1, <3>4, PasteChanged
    <3> QED BY <1>6, <3>3, <3>5, SameAlike
  <2> QED BY <2>1, <2>2
<1> QED BY <1>6, <1>7, <1>9 DEF Alike

-----------------------------------------------------------------------------
\* The steps

LEMMA UncountedSteps ==
  ASSUME MaxBatch \in Nat, PastingInv, StoredInv, DOMAIN pasteFlows' = DOMAIN pasteFlows,
         \A i \in DOMAIN pasteFlows : Alike(pasteFlows'[i], pasteFlows[i]), UNCHANGED <<stored, body, missed>>
  PROVE  StoredInv'
<1>1. stored \in [Files -> Nat] /\ body \in [Files -> Nat] /\ missed \in [Files -> Nat]
  BY DEF StoredInv
<1>2. Kept' = Kept /\ Kept \in [Files -> Nat]
  BY <1>1, KeptIs DEF Kept
<1>3. \A f \in Files : stored'[f] + Kept[f] = stored[f] + Kept'[f]
  BY <1>2
<1> QED BY <1>1, <1>2, <1>3, GoesOn DEF PastingInv

\* A flow that begins counts for nothing yet, also when it asks at once.
LEMMA BegunStores ==
  ASSUME MaxBatch \in Nat, NoFlow \notin Nat, PastingInv, StoredInv, NEW w \in Pastings, Uncounted(w),
         w.left # <<>>,
         w.step \notin {"asking", "done"}, UNCHANGED <<stored, body, missed>>,
         \/ pasteFlows' = Append(pasteFlows, w)
         \/ \E q : Paste!Ask(Len(Append(pasteFlows, w)), Append(pasteFlows, w), q)
  PROVE  StoredInv'
<1> DEFINE fl == Append(pasteFlows, w)
           n == Len(pasteFlows)
<1>1. pasteFlows \in Seq(Pastings) /\ n \in Nat /\ DOMAIN pasteFlows = 1 .. n
  BY AsFunction DEF PastingInv, Flowing
<1>2. fl \in Seq(Pastings) /\ Len(fl) = n + 1 /\ fl[n + 1] = w /\ \A i \in 1 .. n : fl[i] = pasteFlows[i]
  BY <1>1, Appends
<1>3. Flowing(fl) /\ Asked(fl, pending, open)
  BY StartedOK
<1> HIDE DEF fl
<1>4. DOMAIN fl = 1 .. n + 1
  BY <1>2, AsFunction
<1>5. DOMAIN pasteFlows' = DOMAIN fl /\ \A i \in DOMAIN fl : Alike(pasteFlows'[i], fl[i])
  <2>1. CASE pasteFlows' = fl
    BY <2>1, SameAlike
  <2>2. ASSUME NEW q, Paste!Ask(Len(fl), fl, q)
        PROVE  DOMAIN pasteFlows' = DOMAIN fl /\ \A i \in DOMAIN fl : Alike(pasteFlows'[i], fl[i])
    <3>1. Len(fl) \in DOMAIN fl /\ fl[Len(fl)] = w
      BY <1>1, <1>2, <1>4
    <3> QED BY <1>3, <2>2, <3>1, AskAlike
  <2> QED BY <2>1, <2>2 DEF fl
<1> HIDE DEF n
<1>6. 1 .. n \subseteq 1 .. n + 1 /\ \A i \in 1 .. n + 1 : i \in 1 .. n \/ i = n + 1
  BY <1>1
<1>7. \A i \in DOMAIN pasteFlows : Alike(pasteFlows'[i], pasteFlows[i])
  BY <1>1, <1>2, <1>4, <1>5, <1>6
<1>8. \A i \in DOMAIN pasteFlows' \ DOMAIN pasteFlows : Uncounted(pasteFlows'[i])
  <2> SUFFICES ASSUME NEW i \in DOMAIN pasteFlows' \ DOMAIN pasteFlows PROVE Uncounted(pasteFlows'[i])
    OBVIOUS
  <2>1. i = n + 1 /\ i \in DOMAIN fl /\ fl[i] = w
    BY <1>1, <1>2, <1>4, <1>5, <1>6
  <2>2. Alike(pasteFlows'[i], w)
    BY <1>5, <2>1
  <2> QED BY <2>2 DEF Alike, Uncounted
<1>9. stored \in [Files -> Nat] /\ body \in [Files -> Nat] /\ missed \in [Files -> Nat] /\ Flowing(pasteFlows)
  BY DEF StoredInv, PastingInv
<1>10. Kept' = Kept /\ Kept \in [Files -> Nat]
  BY <1>9, KeptIs DEF Kept
<1>11. \A f \in Files : stored'[f] + Kept[f] = stored[f] + Kept'[f]
  BY <1>10
<1> QED BY <1>1, <1>4, <1>5, <1>6, <1>7, <1>8, <1>9, <1>10, <1>11, GoesOn

LEMMA FlowIsUncounted ==
  ASSUME MaxBatch \in Nat \ {0}, NEW k \in {"pasted", "dropped", "picked", "web"}, NEW fs \in Seq(Files),
         NEW st \in {"answered", "uploading"}, NEW p \in Paste!Plains, Len(fs) <= MaxBatch,
         k = "web" => st = "answered" /\ Len(fs) = 1
  PROVE  LET w == Paste!Flow(k, fs, st, p)
         IN  w \in Pastings /\ w.left = fs /\ w.step = st /\ Uncounted(w)
<1> DEFINE w == Paste!Flow(k, fs, st, p)
<1>1. st \in Steps
  BY DEF Steps
<1>2. w \in Pastings /\ w.left = fs /\ w.step = st
  BY <1>1, FlowIs
<1>3. w.kind = k /\ w.sent = <<>>
  BY DEF Paste!Flow
<1>4. Len(w.sent) = 0 /\ Len(fs) \in Nat
  BY <1>3
<1> HIDE DEF w
<1> QED BY <1>2, <1>3, <1>4 DEF w, Uncounted, Sized

LEMMA BatchIsSized ==
  ASSUME NEW fs \in Paste!Batches, MaxBatch \in Nat
  PROVE  fs \in Seq(Files) /\ fs # <<>> /\ Len(fs) <= MaxBatch
<1>1. PICK n \in 1 .. MaxBatch : fs \in [1 .. n -> Files]
  BY DEF Paste!Batches
<1> QED BY <1>1

LEMMA StartsStore ==
  ASSUME Paste!PastingAssumption, PastingInv, StoredInv,
         \/ \E c \in Paste!Clipboards : Paste!PastePictures(c) \/ \E f \in Files : Paste!PasteWebPage(c, f)
         \/ \E fs \in Paste!Batches : Paste!DropPictures(fs) \/ Paste!PickFiles(fs)
  PROVE  StoredInv'
<1>0. NoFlow \notin Nat /\ MaxBatch \in Nat \ {0} /\ MaxBatch \in Nat /\ "none" \in Paste!Plains
      /\ \A c \in Paste!Clipboards : c.plain \in Paste!Plains
  BY DEF Paste!PastingAssumption, Paste!Plains, Paste!Clipboards
<1>1. ASSUME NEW c \in Paste!Clipboards, Paste!PastePictures(c) PROVE StoredInv'
  <2>1. c.files \in Paste!Batches
    BY <1>1 DEF Paste!PastePictures, Paste!IsPicture, Paste!Clipboards
  <2>2. c.files \in Seq(Files) /\ c.files # <<>> /\ Len(c.files) <= MaxBatch
    BY <1>0, <2>1, BatchIsSized
  <2> DEFINE w == Paste!Flow("pasted", c.files, "answered", "none")
  <2>3. w \in Pastings /\ w.left # <<>> /\ w.step = "answered" /\ Uncounted(w)
    BY <1>0, <2>2, FlowIsUncounted
  <2>4. /\ \/ pasteFlows' = Append(pasteFlows, w)
           \/ Paste!Ask(Len(Append(pasteFlows, w)), Append(pasteFlows, w), ready)
        /\ UNCHANGED <<stored, body, missed>>
    BY <1>1 DEF Paste!PastePictures
  <2> HIDE DEF w
  <2> QED BY <1>0, <2>3, <2>4, BegunStores
<1>2. ASSUME NEW c \in Paste!Clipboards, NEW f \in Files, Paste!PasteWebPage(c, f) PROVE StoredInv'
  <2>1. <<f>> \in Seq(Files) /\ <<f>> # <<>> /\ Len(<<f>>) = 1
    OBVIOUS
  <2> DEFINE w == Paste!Flow("web", <<f>>, "answered", c.plain)
  <2>2. w \in Pastings /\ w.left # <<>> /\ w.step = "answered" /\ Uncounted(w)
    <3>1. 1 <= MaxBatch /\ c.plain \in Paste!Plains
      BY <1>0
    <3> DEFINE one == <<f>>
               p == c.plain
    <3>2. one \in Seq(Files) /\ one # <<>> /\ Len(one) = 1 /\ Len(one) <= MaxBatch /\ p \in Paste!Plains
      BY <2>1, <3>1
    <3> HIDE DEF one, p
    <3>3. LET v == Paste!Flow("web", one, "answered", p)
          IN  v \in Pastings /\ v.left = one /\ v.step = "answered" /\ Uncounted(v)
      BY <1>0, <3>2, FlowIsUncounted
    <3> QED BY <3>2, <3>3 DEF one, p
  <2>3. /\ \/ pasteFlows' = Append(pasteFlows, w)
           \/ Paste!Ask(Len(Append(pasteFlows, w)), Append(pasteFlows, w), ready)
        /\ UNCHANGED <<stored, body, missed>>
    BY <1>2 DEF Paste!PasteWebPage
  <2> HIDE DEF w
  <2> QED BY <1>0, <2>2, <2>3, BegunStores
<1>3. ASSUME NEW fs \in Paste!Batches, NEW k \in {"dropped", "picked"}, UNCHANGED <<stored, body, missed>>,
             pasteFlows' = Append(pasteFlows, Paste!Flow(k, fs, "uploading", "none"))
      PROVE  StoredInv'
  <2> DEFINE w == Paste!Flow(k, fs, "uploading", "none")
  <2>1. w \in Pastings /\ w.left # <<>> /\ w.step = "uploading" /\ Uncounted(w)
    BY <1>0, BatchIsSized, FlowIsUncounted
  <2>2. pasteFlows' = Append(pasteFlows, w)
    BY <1>3
  <2> HIDE DEF w
  <2> QED BY <1>0, <1>3, <2>1, <2>2, BegunStores
<1>4. ASSUME NEW fs \in Paste!Batches, Paste!DropPictures(fs) \/ Paste!PickFiles(fs) PROVE StoredInv'
  BY <1>3, <1>4 DEF Paste!DropPictures, Paste!PickFiles
<1> QED BY <1>1, <1>2, <1>4

LEMMA AnswersStore ==
  ASSUME Paste!PastingAssumption, PastingInv, StoredInv,
         \E d \in Paste!Dialogs :
           Paste!CloseEvent(d) \/ \E a \in {"accept", "cancel"} : Paste!AnswerDialog(d, a)
  PROVE  StoredInv'
<1>0. MaxBatch \in Nat /\ \A a \in {"accept", "cancel"} : a \in Answers
  BY DEF Paste!PastingAssumption, Answers
<1>1. UNCHANGED <<stored, body, missed>>
  BY DEF Paste!CloseEvent, Paste!AnswerDialog
<1>2. PICK d \in Paste!Dialogs :
        Paste!CloseEvent(d) \/ \E a \in {"accept", "cancel"} : Paste!AnswerDialog(d, a)
  OBVIOUS
<1>3. ASSUME NEW a \in Answers, NEW n, pending[d] # NoFlow, Paste!Finished(d, a, n) PROVE StoredInv'
  <2> DEFINE p == pending[d]
             v == [pasteFlows[p] EXCEPT !.step = "answered", !.answer = a]
  <2>1. p \in DOMAIN pasteFlows /\ pasteFlows[p].step = "asking" /\ pasteFlows[p] \in Pastings
        /\ pasteFlows \in Seq(Pastings)
    BY <1>3, AsFunction DEF PastingInv, Flowing, Asked
  <2>2. "answered" \in Steps
    BY DEF Steps
  <2>3. v \in Pastings /\ Alike(v, pasteFlows[p])
    <3>1. v \in Pastings
      BY <2>1, <2>2 DEF Pastings
    <3> QED BY <2>1, <2>2, <3>1, StepAlike
  <2>4. pasteFlows' = [pasteFlows EXCEPT ![p] = v]
    BY <1>3 DEF Paste!Finished
  <2> HIDE DEF v, p
  <2>5. DOMAIN pasteFlows' = DOMAIN pasteFlows /\ pasteFlows'[p] = v
        /\ \A j \in DOMAIN pasteFlows \ {p} : pasteFlows'[j] = pasteFlows[j]
    BY <2>1, <2>3, <2>4, PasteChanged
  <2> QED BY <1>0, <1>1, <2>3, <2>5, SameAlike, UncountedSteps
<1>4. CASE pasteFlows' = pasteFlows
  BY <1>0, <1>1, <1>4, SameAlike, UncountedSteps
<1>5. ASSUME Paste!CloseEvent(d) PROVE StoredInv'
  <2>1. pasteFlows' = pasteFlows \/ (pending[d] # NoFlow /\ Paste!Finished(d, "cancel", closing[d] - 1))
    BY <1>5 DEF Paste!CloseEvent
  <2> QED BY <1>0, <1>3, <1>4, <2>1
<1>6. ASSUME NEW a \in {"accept", "cancel"}, Paste!AnswerDialog(d, a) PROVE StoredInv'
  BY <1>0, <1>3, <1>6 DEF Paste!AnswerDialog
<1> QED BY <1>2, <1>5, <1>6

LEMMA DrawnStores ==
  ASSUME Paste!PastingAssumption, PastingInv, StoredInv, Paste!DocumentDrawn \/ Paste!Disconnected PROVE StoredInv'
<1>0. MaxBatch \in Nat
  BY DEF Paste!PastingAssumption
<1> DEFINE v(i) == [pasteFlows[i] EXCEPT !.alive = @ /\ pasteFlows[i].step # "asking"]
<1>1. pasteFlows' = [i \in DOMAIN pasteFlows |-> v(i)] /\ UNCHANGED <<stored, body, missed>>
  BY DEF Paste!DocumentDrawn, Paste!Disconnected, Paste!Uprooted
<1>2. ASSUME NEW i \in DOMAIN pasteFlows PROVE Alike(v(i), pasteFlows[i])
  <2> DEFINE w == pasteFlows[i]
  <2>1. w \in Pastings /\ w.alive \in BOOLEAN
    <3>1. w \in Pastings
      BY AsFunction DEF PastingInv, Flowing
    <3> QED BY <3>1 DEF Pastings
  <2>2. v(i).kind = w.kind /\ v(i).sent = w.sent /\ v(i).left = w.left /\ v(i).step = w.step
        /\ v(i).alive = (w.alive /\ w.step # "asking") /\ v(i).answer = w.answer /\ v(i).plain = w.plain
    BY <2>1 DEF Pastings
  <2>3. w.step = "done" => v(i).alive = w.alive
    BY <2>1, <2>2
  <2> HIDE DEF v, w
  <2>4. Sized(w) => Sized(v(i))
    BY <2>2 DEF Sized
  <2> QED BY <2>2, <2>3, <2>4 DEF Alike, w
<1> HIDE DEF v
<1> QED BY <1>0, <1>1, <1>2, UncountedSteps

\* The head of the queue goes on: a page is put in, or a picture is uploaded or given up.
LEMMA ContinueStores == ASSUME Paste!PastingAssumption, PastingInv, StoredInv, Paste!Continue PROVE StoredInv'
<1> DEFINE id == Head(ready)
           w == pasteFlows[id]
           puts == w.alive /\ Paste!Resolved(w)
           v == [w EXCEPT !.step = "done"]
           up == [w EXCEPT !.step = "uploading"]
<1>0. NoFlow \notin Nat /\ MaxBatch \in Nat
  BY DEF Paste!PastingAssumption
<1>1. id \in DOMAIN pasteFlows /\ w.step = "answered"
  <2>1. ready \in Seq(DOMAIN pasteFlows) /\ Len(ready) \in Nat \ {0} /\ ready[1] = id
    BY DEF PastingInv, Queued, Paste!Continue
  <2>2. 1 \in 1 .. Len(ready)
    BY <2>1
  <2> QED BY <2>1, <2>2, AsFunction DEF PastingInv, Queued
<1>2. pasteFlows \in Seq(Pastings) /\ w \in Pastings /\ Sized(w)
  BY <1>1, AsFunction DEF PastingInv, Flowing, StoredInv
<1>3. /\ stored' = stored /\ missed' = missed
      /\ \/ /\ w.kind = "web" /\ body' = IF puts THEN Paste!Put(body, w.left) ELSE body
            /\ pasteFlows' = [pasteFlows EXCEPT ![id].step = "done"]
         \/ /\ w.kind = "pasted" /\ body' = body
            /\ pasteFlows' = [pasteFlows EXCEPT ![id].step = "uploading"]
         \/ /\ w.kind = "pasted" /\ body' = body
            /\ Paste!NextPasted(id, pasteFlows, Tail(ready))
  BY DEF Paste!Continue
<1>4. /\ v \in Pastings /\ v.kind = w.kind /\ v.sent = w.sent /\ v.left = w.left /\ v.step = "done"
      /\ v.alive = w.alive /\ v.answer = w.answer /\ v.plain = w.plain
      /\ up \in Pastings /\ up.kind = w.kind /\ up.sent = w.sent /\ up.left = w.left
  BY <1>2 DEF Pastings, Steps, Answers
<1>9. puts <=> w.alive /\ (w.answer # "cancel" \/ w.plain # "none")
  BY DEF Paste!Resolved
<1> HIDE DEF id, v, up, puts
<1>5. CASE /\ w.kind = "web" /\ body' = IF puts THEN Paste!Put(body, w.left) ELSE body
           /\ pasteFlows' = [pasteFlows EXCEPT ![id].step = "done"]
  <2>1. pasteFlows' = [pasteFlows EXCEPT ![id] = v]
    BY <1>5 DEF v
  <2>2. DOMAIN pasteFlows' = DOMAIN pasteFlows /\ pasteFlows'[id] = v
        /\ \A j \in DOMAIN pasteFlows \ {id} : pasteFlows'[j] = pasteFlows[j]
    BY <1>1, <1>2, <1>4, <2>1, PasteChanged
  <2>3. PICK x \in Files : w.left = <<x>>
    <3> DEFINE left == w.left
    <3>1. left \in Seq(Files) /\ Len(left) = 1
      BY <1>2, <1>5 DEF Pastings, Sized
    <3> HIDE DEF left
    <3>2. left[1] \in Files /\ left = <<left[1]>>
      BY <3>1
    <3> QED BY <3>2 DEF left
  <2>4. \A i \in DOMAIN pasteFlows' : Sized(pasteFlows'[i])
    <3>1. Sized(v)
      BY <1>2, <1>4 DEF Sized
    <3> QED BY <2>2, <3>1 DEF StoredInv
  <2>5. \A f : Uploaded(pasteFlows', f) = Uploaded(pasteFlows, f)
    <3>1. \A i \in DOMAIN pasteFlows : pasteFlows'[i].sent = pasteFlows[i].sent
      BY <1>4, <2>2
    <3> QED BY <2>2, <3>1 DEF Uploaded
  <2>6. body' \in [Files -> Nat] /\ \A f \in Files : body'[f] = body[f] + (IF puts /\ x = f THEN 1 ELSE 0)
    <3>1. body \in [Files -> Nat] /\ <<x>> \in Seq(Files)
      BY DEF StoredInv
    <3>2. CASE puts
      <4>1. body' = Paste!Put(body, <<x>>)
        BY <1>5, <2>3, <3>2
      <4>2. body' \in [Files -> Nat] /\ \A f \in Files : body'[f] = body[f] + Count(<<x>>, f)
        BY <3>1, <4>1, PutIs
      <4>3. \A f \in Files : Count(<<x>>, f) = IF x = f THEN 1 ELSE 0
        BY CountOne
      <4> QED BY <3>2, <4>2, <4>3
    <3>3. CASE ~puts
      <4>1. body' = body
        BY <1>5, <3>3
      <4> QED BY <3>1, <3>3, <4>1
    <3> QED BY <3>2, <3>3
  <2>9. missed' \in [Files -> Nat] /\ \A f \in Files : Kept'[f] = Kept[f] + (IF puts /\ x = f THEN 1 ELSE 0)
    <3>1. body \in [Files -> Nat] /\ missed \in [Files -> Nat] /\ missed' = missed
      BY <1>3 DEF StoredInv
    <3>2. ASSUME NEW f \in Files PROVE Kept'[f] = Kept[f] + (IF puts /\ x = f THEN 1 ELSE 0)
      <4> DEFINE c == IF puts /\ x = f THEN 1 ELSE 0
      <4>1. body[f] \in Nat /\ missed[f] \in Nat /\ c \in Nat /\ body'[f] = body[f] + c
        BY <2>6, <3>1
      <4>2. Kept[f] = body[f] + missed[f] /\ Kept'[f] = body'[f] + missed[f]
        BY <3>1 DEF Kept
      <4> HIDE DEF c
      <4>3. Kept'[f] = Kept[f] + c
        BY <4>1, <4>2
      <4> QED BY <4>3 DEF c
    <3> QED BY <3>1, <3>2
  <2>7. ASSUME NEW f \in Files
        PROVE  stored'[f] + Cardinality(PagesIn(pasteFlows',
               f)) = Kept'[f] + Cardinality(Uploaded(pasteFlows', f))
    <3> DEFINE pages == PagesIn(pasteFlows, f)
               u == Cardinality(Uploaded(pasteFlows, f))
    <3>1. PagesIn(pasteFlows', f) = IF puts /\ x = f THEN pages \cup {id} ELSE pages
      <4>1. id \notin pages
        BY <1>1 DEF PagesIn
      <4>2. v.left = <<f>> <=> x = f
        BY <1>4, <2>3
      <4> QED BY <1>1, <1>4, <1>5, <1>9, <2>2, <4>1, <4>2 DEF PagesIn
    <3>2. id \notin pages
      BY <1>1 DEF PagesIn
    <3>3. IsFiniteSet(pages) /\ Cardinality(pages) \in Nat /\ u \in Nat
      BY <1>0, <1>2, SetsAreFinite
    <3> HIDE DEF pages
    <3>4. Cardinality(pages \cup {id}) = Cardinality(pages) + 1
      BY <3>2, <3>3, FS_AddElement
    <3>5. stored[f] + Cardinality(pages) = Kept[f] + u /\ stored[f] \in Nat /\ Kept[f] \in Nat
      BY KeptIs DEF StoredInv, pages
    <3> HIDE DEF u
    <3>6. CASE puts /\ x = f
      <4>1. Cardinality(PagesIn(pasteFlows', f)) = Cardinality(pages) + 1 /\ Kept'[f] = Kept[f] + 1
        BY <2>9, <3>1, <3>4, <3>6
      <4>2. stored[f] + (Cardinality(pages) + 1) = (Kept[f] + 1) + u
        BY <3>3, <3>5
      <4> QED BY <1>3, <2>5, <4>1, <4>2 DEF u
    <3>7. CASE ~(puts /\ x = f)
      <4>1. PagesIn(pasteFlows', f) = pages /\ Kept'[f] = Kept[f] + 0
        BY <2>9, <3>1, <3>7
      <4> QED BY <1>3, <2>5, <3>5, <4>1 DEF u
    <3> QED BY <3>6, <3>7
  <2>8. stored' \in [Files -> Nat]
    BY <1>3 DEF StoredInv
  <2> QED BY <2>4, <2>6, <2>7, <2>8, <2>9 DEF StoredInv
<1>6. CASE /\ w.kind = "pasted" /\ body' = body
           /\ pasteFlows' = [pasteFlows EXCEPT ![id].step = "uploading"]
  <2>1. pasteFlows' = [pasteFlows EXCEPT ![id] = up]
    BY <1>6 DEF up
  <2>2. DOMAIN pasteFlows' = DOMAIN pasteFlows /\ pasteFlows'[id] = up
        /\ \A j \in DOMAIN pasteFlows \ {id} : pasteFlows'[j] = pasteFlows[j]
    BY <1>1, <1>2, <1>4, <2>1, PasteChanged
  <2>3. Alike(up, w)
    BY <1>4, <1>6 DEF Alike, Sized
  <2> QED BY <1>0, <1>3, <1>6, <2>2, <2>3, SameAlike, UncountedSteps
<1>7. CASE w.kind = "pasted" /\ body' = body /\ Paste!NextPasted(id, pasteFlows, Tail(ready))
  <2>1. DOMAIN pasteFlows' = DOMAIN pasteFlows
        /\ \A i \in DOMAIN pasteFlows : Alike(pasteFlows'[i], pasteFlows[i])
    BY <1>0, <1>1, <1>7, NextAlike
  <2> QED BY <1>0, <1>3, <1>7, <2>1, UncountedSteps
<1> QED BY <1>3, <1>5, <1>6, <1>7

\* The pictures of one batch are counted apart from those of the others.
LEMMA UploadedSplit ==
  ASSUME MaxBatch \in Nat, NEW fl \in Seq(Pastings), NEW id \in DOMAIN fl, NEW f, Len(fl[id].sent) <= MaxBatch
  PROVE  LET others == {at \in Uploaded(fl, f) : at[1] # id}
         IN  /\ Cardinality(others) \in Nat /\ Count(fl[id].sent, f) \in Nat
             /\ Cardinality(Uploaded(fl, f)) = Cardinality(others) + Count(fl[id].sent, f)
<1> DEFINE others == {at \in Uploaded(fl, f) : at[1] # id}
           s == fl[id].sent
           n == Len(s)
           ks == {k \in DOMAIN s : s[k] = f}
           own == {<<id, k>> : k \in ks}
           pair == [k \in ks |-> <<id, k>>]
<1>1. s \in Seq(Files)
  <2>1. fl[id] \in Pastings
    BY AsFunction
  <2> QED BY <2>1 DEF Pastings
<1> HIDE DEF s
<1>2. DOMAIN s = 1 .. n /\ n \in Nat /\ n <= MaxBatch
  BY <1>1, AsFunction DEF s
<1> HIDE DEF n
<1>3. ks \subseteq 1 .. MaxBatch
  BY <1>2
<1>4. Uploaded(fl, f) = others \cup own
  <2>1. \A at \in Uploaded(fl, f) : at[1] = id => at \in own
    <3> TAKE at \in Uploaded(fl, f)
    <3>1. at = <<at[1], at[2]>> /\ at[2] \in DOMAIN fl[at[1]].sent /\ fl[at[1]].sent[at[2]] = f
      BY DEF Uploaded
    <3> QED BY <3>1 DEF s
  <2>2. \A k \in ks : <<id, k>> \in Uploaded(fl, f)
    <3> TAKE k \in ks
    <3>1. <<id, k>> \in (DOMAIN fl) \X (1 .. MaxBatch)
      BY <1>3
    <3> QED BY <3>1 DEF Uploaded, s
  <2> QED BY <2>1, <2>2
<1>5. own \cap others = {}
  OBVIOUS
<1>6. IsFiniteSet(others) /\ Cardinality(others) \in Nat
  <2>1. IsFiniteSet(Uploaded(fl, f))
    BY SetsAreFinite
  <2>2. others \in SUBSET Uploaded(fl, f)
    OBVIOUS
  <2> HIDE DEF others
  <2> QED BY <2>1, <2>2, FS_Subset, FS_CardinalityType
<1>7. IsFiniteSet(ks) /\ Cardinality(ks) = Count(s, f) /\ Count(s, f) \in Nat
  BY <1>1, CountIs DEF Count
<1>8. IsFiniteSet(own) /\ Cardinality(own) = Cardinality(ks)
  <2>1. pair \in Bijection(ks, own)
    <3>1. pair \in [ks -> own]
      OBVIOUS
    <3>2. \A j, k \in ks : pair[j] = pair[k] => j = k
      OBVIOUS
    <3>3. \A t \in own : \E k \in ks : pair[k] = t
      OBVIOUS
    <3> HIDE DEF pair, own, ks
    <3> QED BY <3>1, <3>2, <3>3 DEF Bijection, Injection, Surjection, IsInjective
  <2>2. ExistsBijection(ks, own)
    BY <2>1 DEF ExistsBijection
  <2> HIDE DEF ks, own
  <2> QED BY <1>7, <2>2, FS_Bijection
<1> HIDE DEF own, others, ks
<1>9. Cardinality(others \cup own) = Cardinality(others) + Cardinality(own)
  <2>1. Cardinality(others \cup own) = Cardinality(others) + Cardinality(own) - Cardinality(others \cap own)
    BY <1>6, <1>8, FS_Union
  <2>2. others \cap own = {}
    BY <1>5
  <2>3. Cardinality(others \cap own) = 0
    BY <2>2, FS_EmptySet
  <2>4. Cardinality(own) \in Nat
    BY <1>8, FS_CardinalityType
  <2> QED BY <1>6, <2>1, <2>3, <2>4
<1> QED BY <1>4, <1>6, <1>7, <1>8, <1>9 DEF s, others

\* One batch goes on: what it has waiting, and what is stored or put in, make up for each other.
LEMMA BatchStores ==
  ASSUME MaxBatch \in Nat, PastingInv, StoredInv, NEW id \in DOMAIN pasteFlows, NEW w \in Pastings, Sized(w),
         pasteFlows[id].kind # "web", w.kind = pasteFlows[id].kind,
           pasteFlows' = [pasteFlows EXCEPT ![id] = w],
         stored' \in [Files -> Nat], body' \in [Files -> Nat], missed' \in [Files -> Nat],
         Kept' \in [Files -> Nat],
         \A f \in Files : (stored'[f] + Count(pasteFlows[id].sent, f)) + Kept[f]
                            = (stored[f] + Count(w.sent, f)) + Kept'[f]
  PROVE  StoredInv'
<1>1. pasteFlows \in Seq(Pastings) /\ pasteFlows[id] \in Pastings /\ Sized(pasteFlows[id])
  BY AsFunction DEF PastingInv, Flowing, StoredInv
<1>2. pasteFlows' \in Seq(Pastings) /\ DOMAIN pasteFlows' = DOMAIN pasteFlows /\ pasteFlows'[id] = w
      /\ \A j \in DOMAIN pasteFlows \ {id} : pasteFlows'[j] = pasteFlows[j]
  BY <1>1, PasteChanged
<1>3. \A i \in DOMAIN pasteFlows' : Sized(pasteFlows'[i])
  BY <1>2 DEF StoredInv
<1>4. ASSUME NEW f PROVE PagesIn(pasteFlows', f) = PagesIn(pasteFlows, f)
  <2>1. id \notin PagesIn(pasteFlows', f) /\ id \notin PagesIn(pasteFlows, f)
    BY <1>2 DEF PagesIn
  <2>2. \A j \in DOMAIN pasteFlows \ {id} : j \in PagesIn(pasteFlows', f) <=> j \in PagesIn(pasteFlows, f)
    BY <1>2 DEF PagesIn
  <2>3. PagesIn(pasteFlows', f) \subseteq DOMAIN pasteFlows /\ PagesIn(pasteFlows, f) \subseteq DOMAIN pasteFlows
    BY <1>2 DEF PagesIn
  <2>4. \A j : j \in PagesIn(pasteFlows', f) <=> j \in PagesIn(pasteFlows, f)
    BY <2>1, <2>2, <2>3
  <2> QED BY <2>4
<1>5. \A v \in Pastings : Sized(v) => Len(v.sent) <= MaxBatch
  <2> TAKE v \in Pastings
  <2>1. Len(v.sent) \in Nat /\ Len(v.left) \in Nat
    BY DEF Pastings
  <2>2. ASSUME Len(v.sent) + Len(v.left) <= MaxBatch PROVE Len(v.sent) <= MaxBatch
    <3> DEFINE a == Len(v.sent)
               b == Len(v.left)
    <3>1. a \in Nat /\ b \in Nat /\ a + b <= MaxBatch
      BY <2>1, <2>2
    <3> HIDE DEF a, b
    <3>2. a <= MaxBatch
      BY <3>1
    <3> QED BY <3>2 DEF a
  <2> QED BY <2>2 DEF Sized
<1>6. ASSUME NEW f \in Files
      PROVE  stored'[f] + Cardinality(PagesIn(pasteFlows', f)) = Kept'[f] + Cardinality(Uploaded(pasteFlows',
             f))
  <2> DEFINE others == {at \in Uploaded(pasteFlows, f) : at[1] # id}
             next == {at \in Uploaded(pasteFlows', f) : at[1] # id}
             p == Cardinality(PagesIn(pasteFlows, f))
             o == Cardinality(others)
             a == Count(pasteFlows[id].sent, f)
             b == Count(w.sent, f)
  <2>1. o \in Nat /\ a \in Nat /\ Cardinality(Uploaded(pasteFlows, f)) = o + a
    BY <1>1, <1>5, UploadedSplit
  <2>2. b \in Nat /\ Cardinality(Uploaded(pasteFlows', f)) = Cardinality(next) + b
    <3> DEFINE gl == pasteFlows'
    <3>1. gl \in Seq(Pastings) /\ id \in DOMAIN gl /\ gl[id] = w /\ Len(w.sent) <= MaxBatch
      BY <1>2, <1>5
    <3> HIDE DEF gl
    <3>2. LET n == {at \in Uploaded(gl, f) : at[1] # id}
          IN  /\ Cardinality(n) \in Nat /\ Count(gl[id].sent, f) \in Nat
              /\ Cardinality(Uploaded(gl, f)) = Cardinality(n) + Count(gl[id].sent, f)
      BY <3>1, UploadedSplit
    <3> QED BY <3>1, <3>2 DEF gl
  <2>3. next = others
    BY <1>2 DEF Uploaded
  <2>4. p \in Nat
    BY <1>1, SetsAreFinite
  <2>5. stored[f] + p = Kept[f] + (o + a) /\ stored[f] \in Nat /\ Kept[f] \in Nat
    BY <2>1, KeptIs DEF StoredInv
  <2>6. (stored'[f] + a) + Kept[f] = (stored[f] + b) + Kept'[f] /\ stored'[f] \in Nat /\ Kept'[f] \in Nat
    OBVIOUS
  <2>7. Cardinality(Uploaded(pasteFlows', f)) = o + b
    BY <2>2, <2>3
  <2>8. Cardinality(PagesIn(pasteFlows', f)) = p
    BY <1>4
  <2> DEFINE s0 == stored[f]
             s1 == stored'[f]
             b0 == Kept[f]
             b1 == Kept'[f]
  <2>9. /\ p \in Nat /\ o \in Nat /\ a \in Nat /\ b \in Nat /\ s0 \in Nat /\ s1 \in Nat /\ b0 \in Nat
           /\ b1 \in Nat
        /\ s0 + p = b0 + (o + a) /\ (s1 + a) + b0 = (s0 + b) + b1
    BY <2>1, <2>2, <2>4, <2>5, <2>6
  <2> HIDE DEF p, o, a, b, s0, s1, b0, b1
  <2>10. s1 + p = b1 + (o + b)
    BY <2>9
  <2> QED BY <2>7, <2>8, <2>10 DEF s1, b1
<1> QED BY <1>3, <1>6 DEF StoredInv

\* An upload is answered: the picture goes into the body, or waits there for the rest of its batch.
LEMMA UploadStores ==
  ASSUME Paste!PastingAssumption, PastingInv, StoredInv, NEW id \in DOMAIN pasteFlows, NEW ok \in BOOLEAN,
         Paste!UploadAnswered(id, ok)
  PROVE  StoredInv'
<1> DEFINE w == pasteFlows[id]
           h == Head(w.left)
           more == ok /\ w.kind # "pasted" /\ Len(w.left) > 1
<1>0. NoFlow \notin Nat /\ MaxBatch \in Nat
  BY DEF Paste!PastingAssumption
<1>1. w \in Pastings /\ w.step = "uploading" /\ w.left # <<>> /\ Sized(w) /\ w.kind # "web"
  BY AsFunction DEF PastingInv, Flowing, StoredInv, Sized, Paste!UploadAnswered
<1>2. w.left \in Seq(Files) /\ w.sent \in Seq(Files) /\ stored \in [Files -> Nat] /\ body \in [Files -> Nat]
      /\ missed \in [Files -> Nat]
  BY <1>1 DEF Pastings, StoredInv
<1>3. /\ h \in Files /\ Len(w.left) \in Nat /\ Tail(w.left) \in Seq(Files)
         /\ Len(Tail(w.left)) = Len(w.left) - 1
  <2> DEFINE left == w.left
  <2>1. left \in Seq(Files) /\ left # <<>>
    BY <1>1, <1>2
  <2> HIDE DEF left
  <2>2. Head(left) \in Files /\ Len(left) \in Nat /\ Tail(left) \in Seq(Files)
        /\ Len(Tail(left)) = Len(left) - 1
    BY <2>1
  <2> QED BY <2>2 DEF left
<1>4. stored' \in [Files -> Nat] /\ \A f \in Files : stored'[f] = stored[f] + (IF ok /\ h = f THEN 1 ELSE 0)
  <2>1. stored' = IF ok THEN Paste!Put(stored, <<h>>) ELSE stored
    BY DEF Paste!UploadAnswered
  <2>2. CASE ok
    <3>1. <<h>> \in Seq(Files) /\ stored' = Paste!Put(stored, <<h>>)
      BY <1>3, <2>1, <2>2
    <3>2. stored' \in [Files -> Nat] /\ \A f \in Files : stored'[f] = stored[f] + Count(<<h>>, f)
      BY <1>2, <3>1, PutIs
    <3>3. \A f \in Files : Count(<<h>>, f) = IF h = f THEN 1 ELSE 0
      BY <1>3, CountOne
    <3> HIDE DEF h
    <3> QED BY <2>2, <3>2, <3>3
  <2>3. CASE ~ok
    <3>1. stored' = stored
      BY <2>1, <2>3
    <3>2. \A f \in Files : stored[f] \in Nat
      BY <1>2
    <3> QED BY <1>2, <2>3, <3>1, <3>2
  <2> QED BY <2>2, <2>3
<1>5. LET t == Paste!Inserted(w, ok)
      IN  t \in Seq(Files) /\ \A f \in Files : Count(t, f) = Count(w.sent, f) + (IF ok /\ h = f THEN 1 ELSE 0)
  <2> DEFINE sent == w.sent
             t == Paste!Inserted(w, ok)
  <2>1. t = IF ok THEN Append(sent, h) ELSE sent
    BY DEF Paste!Inserted
  <2>2. sent \in Seq(Files) /\ h \in Files
    BY <1>2, <1>3
  <2> HIDE DEF sent, h, t
  <2>3. Append(sent, h) \in Seq(Files)
    BY <2>2
  <2>4. \A f \in Files : Count(sent, f) \in Nat
        /\ Count(Append(sent, h), f) = Count(sent, f) + (IF h = f THEN 1 ELSE 0)
    BY <2>2, CountIs
  <2>5. ASSUME ok
        PROVE  t \in Seq(Files) /\ \A f \in Files : Count(t, f) = Count(sent, f) + (IF h = f THEN 1 ELSE 0)
    <3>1. t = Append(sent, h)
      BY <2>1, <2>5
    <3> QED BY <2>3, <2>4, <3>1
  <2>6. ASSUME ~ok PROVE t \in Seq(Files) /\ \A f \in Files : Count(t, f) = Count(sent, f) + 0
    <3>1. t = sent
      BY <2>1, <2>6
    <3> QED BY <2>2, <2>4, <3>1
  <2>7. t \in Seq(Files) /\ \A f \in Files : Count(t, f) = Count(sent, f) + (IF ok /\ h = f THEN 1 ELSE 0)
    BY <2>5, <2>6
  <2> QED BY <2>7 DEF t, sent
<1> DEFINE t == Paste!Inserted(w, ok)
<1>6. /\ body' = IF more \/ editor # "here" THEN body ELSE Paste!Put(body, t)
      /\ missed' = IF more \/ editor = "here" THEN missed ELSE Paste!Put(missed, t)
  BY DEF Paste!UploadAnswered
<1>7. IF w.kind = "pasted" THEN Paste!NextPasted(id, pasteFlows, ready)
      ELSE pasteFlows' = IF more THEN [pasteFlows EXCEPT ![id].left = Tail(@), ![id].sent = t]
                         ELSE [pasteFlows EXCEPT ![id].left = <<>>, ![id].sent = <<>>, ![id].step = "done"]
  BY DEF Paste!UploadAnswered
<1> HIDE DEF t
<1>8. t \in Seq(Files) /\ \A f \in Files : Count(t, f) = Count(w.sent, f) + (IF ok /\ h = f THEN 1 ELSE 0)
  BY <1>5 DEF t
<1>14. body' \in [Files -> Nat] /\ missed' \in [Files -> Nat]
  BY <1>2, <1>6, <1>8, PutIs
<1>15. Kept \in [Files -> Nat] /\ Kept' \in [Files -> Nat]
       /\ \A f \in Files : Kept[f] = body[f] + missed[f] /\ Kept'[f] = body'[f] + missed'[f]
  <2>1. Kept \in [Files -> Nat] /\ \A f \in Files : Kept[f] = body[f] + missed[f]
    BY <1>2, KeptIs
  <2>2. Kept' = [f \in Files |-> body'[f] + missed'[f]]
    BY DEF Kept
  <2>3. \A f \in Files : body'[f] + missed'[f] \in Nat
    <3>1. \A f \in Files : body'[f] \in Nat /\ missed'[f] \in Nat
      BY <1>14
    <3> QED BY <3>1
  <2> QED BY <2>1, <2>2, <2>3
<1>9. ~more => \A f \in Files : Kept'[f] = Kept[f] + Count(t, f)
  <2> SUFFICES ASSUME ~more, NEW f \in Files PROVE Kept'[f] = Kept[f] + Count(t, f)
    OBVIOUS
  <2> DEFINE c == Count(t, f)
  <2>1. c \in Nat /\ body[f] \in Nat /\ missed[f] \in Nat
    BY <1>2, <1>8, CountIs
  <2>2. \/ body'[f] = body[f] + c /\ missed'[f] = missed[f]
        \/ body'[f] = body[f] /\ missed'[f] = missed[f] + c
    BY <1>2, <1>6, <1>8, PutIs
  <2> HIDE DEF c
  <2>3. body'[f] + missed'[f] = (body[f] + missed[f]) + c
    BY <2>1, <2>2
  <2> QED BY <1>15, <2>3 DEF c
<1>16. more => Kept' = Kept
  BY <1>6 DEF Kept
<1>10. \A f \in Files : Count(w.sent, f) \in Nat /\ Count(<<>>, f) = 0
  BY <1>2, CountIs
<1>11. CASE w.kind = "pasted"
  <2>1. ~more /\ Paste!NextPasted(id, pasteFlows, ready) /\ w.sent = <<>>
    BY <1>1, <1>7, <1>11 DEF Sized
  <2>2. DOMAIN pasteFlows' = DOMAIN pasteFlows
        /\ \A i \in DOMAIN pasteFlows : Alike(pasteFlows'[i], pasteFlows[i])
    BY <1>0, <1>1, <1>11, <2>1, NextAlike
  <2>3. \A f \in Files : stored'[f] + Kept[f] = stored[f] + Kept'[f]
    <3> TAKE f \in Files
    <3> DEFINE c == IF ok /\ h = f THEN 1 ELSE 0
    <3>1. c \in Nat /\ stored[f] \in Nat /\ Kept[f] \in Nat /\ stored'[f] = stored[f] + c
      BY <1>4, <1>2, <1>15
    <3>2. Kept'[f] = Kept[f] + (0 + c)
      BY <1>8, <1>9, <1>10, <2>1
    <3> HIDE DEF c
    <3> QED BY <3>1, <3>2
  <2> QED BY <1>0, <1>4, <1>14, <1>15, <2>2, <2>3, GoesOn DEF PastingInv
<1>12. CASE w.kind # "pasted" /\ more
  <2> DEFINE v == [w EXCEPT !.left = Tail(@), !.sent = t]
  <2>1. v \in Pastings /\ v.kind = w.kind /\ v.left = Tail(w.left) /\ v.sent = t
    BY <1>1, <1>3, <1>8 DEF Pastings
  <2>2. pasteFlows' = [pasteFlows EXCEPT ![id] = v]
    BY <1>7, <1>12
  <2> HIDE DEF v
  <2>3. Sized(v)
    <3>1. Len(t) = Len(w.sent) + 1 /\ Len(w.sent) \in Nat
      BY <1>2, <1>3, <1>12, Appends DEF t, Paste!Inserted
    <3>2. Len(w.sent) + Len(w.left) <= MaxBatch
      BY <1>1 DEF Sized
    <3> DEFINE a == Len(w.sent)
               b == Len(w.left)
    <3>3. Len(v.sent) = a + 1 /\ Len(v.left) = b - 1 /\ a \in Nat /\ b \in Nat /\ a + b <= MaxBatch
      BY <1>3, <2>1, <3>1, <3>2
    <3> HIDE DEF a, b
    <3>4. Len(v.sent) + Len(v.left) <= MaxBatch
      BY <1>0, <3>3
    <3> QED BY <1>1, <1>12, <2>1, <3>4 DEF Sized
  <2>4. Kept' = Kept
    BY <1>12, <1>16
  <2>5. \A f \in Files : (stored'[f] + Count(w.sent, f)) + Kept[f] = (stored[f] + Count(v.sent, f)) + Kept'[f]
    <3> TAKE f \in Files
    <3> DEFINE c == IF ok /\ h = f THEN 1 ELSE 0
               a == Count(w.sent, f)
    <3>1. c \in Nat /\ a \in Nat /\ stored[f] \in Nat /\ Kept[f] \in Nat /\ stored'[f] = stored[f] + c
          /\ Count(v.sent, f) = a + c
      BY <1>2, <1>4, <1>8, <1>10, <1>15, <2>1
    <3> HIDE DEF a, c
    <3>2. (stored'[f] + a) + Kept[f] = (stored[f] + Count(v.sent, f)) + Kept'[f]
      BY <2>4, <3>1
    <3> QED BY <3>2 DEF a
  <2> QED BY <1>0, <1>1, <1>4, <1>14, <1>15, <2>1, <2>2, <2>3, <2>5, BatchStores
<1>13. CASE w.kind # "pasted" /\ ~more
  <2> DEFINE v == [w EXCEPT !.left = <<>>, !.sent = <<>>, !.step = "done"]
  <2>1. v \in Pastings /\ v.kind = w.kind /\ v.left = <<>> /\ v.sent = <<>>
    <3>1. <<>> \in Seq(Files) /\ "done" \in Steps
      BY DEF Steps
    <3> QED BY <1>1, <3>1 DEF Pastings
  <2>2. pasteFlows' = [pasteFlows EXCEPT ![id] = v]
    BY <1>7, <1>13
  <2> HIDE DEF v
  <2>3. Sized(v)
    <3>1. Len(v.sent) = 0 /\ Len(v.left) = 0
      BY <2>1
    <3> QED BY <1>0, <1>1, <2>1, <3>1 DEF Sized
  <2>4. \A f \in Files : Kept'[f] = Kept[f] + Count(t, f)
    BY <1>9, <1>13
  <2>5. \A f \in Files : (stored'[f] + Count(w.sent, f)) + Kept[f] = (stored[f] + Count(v.sent, f)) + Kept'[f]
    <3> TAKE f \in Files
    <3> DEFINE c == IF ok /\ h = f THEN 1 ELSE 0
               a == Count(w.sent, f)
    <3>1. c \in Nat /\ a \in Nat /\ stored[f] \in Nat /\ Kept[f] \in Nat /\ stored'[f] = stored[f] + c
          /\ Count(v.sent, f) = 0 /\ Kept'[f] = Kept[f] + (a + c)
      BY <1>2, <1>4, <1>8, <1>10, <1>15, <2>1, <2>4
    <3> HIDE DEF a, c
    <3>2. (stored'[f] + a) + Kept[f] = (stored[f] + Count(v.sent, f)) + Kept'[f]
      BY <3>1
    <3> QED BY <3>2 DEF a
  <2> QED BY <1>0, <1>1, <1>4, <1>14, <1>15, <2>1, <2>2, <2>3, <2>5, BatchStores
<1> QED BY <1>11, <1>12, <1>13

LEMMA StoredStarts == ASSUME Paste!PastingAssumption, Paste!Init PROVE StoredInv
<1>1. /\ DOMAIN pasteFlows = {} /\ stored = [f \in Files |-> 0] /\ body = stored /\ missed = stored
  BY DEF Paste!Init
<1>3. \A f \in Files : Kept[f] = 0
  BY <1>1 DEF Kept
<1>2. \A f : PagesIn(pasteFlows, f) = {} /\ Uploaded(pasteFlows, f) = {}
  BY <1>1 DEF PagesIn, Uploaded
<1> QED BY <1>1, <1>2, <1>3, FS_EmptySet DEF StoredInv

LEMMA StoredKept ==
  ASSUME Paste!PastingAssumption, PastingInv, StoredInv, Paste!Next \/ UNCHANGED Paste!vars
  PROVE  StoredInv'
<1>1. CASE Paste!MemoPromoted \/ Paste!Mounted \/ UNCHANGED Paste!vars
  <2>1. pasteFlows' = pasteFlows /\ UNCHANGED <<stored, body, missed>> /\ MaxBatch \in Nat
    BY <1>1 DEF Paste!MemoPromoted, Paste!Mounted, Paste!vars, Paste!PastingAssumption
  <2> QED BY <2>1, SameAlike, UncountedSteps
<1>3. ASSUME NEW id \in DOMAIN pasteFlows, NEW ok \in BOOLEAN, Paste!UploadAnswered(id, ok) PROVE StoredInv'
  BY <1>3, UploadStores
<1> QED BY <1>1, <1>3, StartsStore, AnswersStore, ContinueStores, DrawnStores DEF Paste!Next

LEMMA StoredIs == ASSUME StoredInv PROVE Paste!StoredIsInserted
<1>1. \A f : Paste!Cardinality({id \in DOMAIN pasteFlows :
                 /\ pasteFlows[id].kind = "web" /\ pasteFlows[id].step = "done"
                 /\ pasteFlows[id].left = <<f>> /\ pasteFlows[id].alive
                 /\ (pasteFlows[id].answer # "cancel" \/ pasteFlows[id].plain # "none")})
               = Cardinality(PagesIn(pasteFlows, f))
  BY PasteCards DEF PagesIn
<1>2. \A f : Paste!Cardinality({at \in (DOMAIN pasteFlows) \X (1 .. MaxBatch) :
                                  at[2] \in DOMAIN pasteFlows[at[1]].sent
                                    /\ pasteFlows[at[1]].sent[at[2]] = f})
               = Cardinality(Uploaded(pasteFlows, f))
  BY PasteCards DEF Uploaded
<1>3. \A f \in Files : Kept[f] = body[f] + missed[f]
  BY KeptIs DEF StoredInv
<1> QED BY <1>1, <1>2, <1>3 DEF StoredInv, Paste!StoredIsInserted

\* However questions about pictures and web pages take over from each other, and however late their
\* close events come (adoc-wysiwyg's paste and the dialogs of images): who waits for a dialog is the
\* one whose question it shows, and an answered one is about to go on.  Every picture the server has
\* stored is put into the body as often as it was stored, or is in a batch that is still being
\* uploaded, or its answer came when no editor was mounted; and a page is put once, unless its unit is
\* gone, or it was refused or taken over and is not there as plain text.
THEOREM PastingHolds ==
  ASSUME Paste!PastingAssumption
  PROVE  Paste!Spec => [](Paste!OnePromptWaits /\ Paste!StoredIsInserted)
<1>1. Paste!Init => PastingInv /\ StoredInv
  BY PastingStarts, StoredStarts
<1>2. PastingInv /\ StoredInv /\ [Paste!Next]_(Paste!vars) => PastingInv' /\ StoredInv'
  BY PastingKept, StoredKept
<1>3. PastingInv /\ StoredInv => Paste!OnePromptWaits /\ Paste!StoredIsInserted
  BY PromptIsOne, StoredIs
<1> QED BY <1>1, <1>2, <1>3, PTL DEF Paste!Spec

-----------------------------------------------------------------------------
\* Previews of links and pictures

AllNames == UNION {Previews!Wanted(k, t) : k \in Previews!Kinds, t \in Previews!Captured}
Waiting == [kind : {"render", "close", "refresh", "again", "lost"}, unit : 0 .. Size, of : Previews!Captured,
            drawing : Nat, wait : [Previews!Kinds -> Nat], wanted : [Previews!Kinds -> SUBSET AllNames]]

\* What flow f asks of kind k is what the document lacks of it.
Lacks(k) == Previews!Wanted(k, Previews!Whole(text)) \ cache[k]
Covers(f, k) == f.wait[k] = seq[k] /\ f.wait[k] > 0 /\ Lacks(k) \subseteq f.wanted[k]

TypedOK ==
  /\ text \in Previews!Documents /\ cache \in [Previews!Kinds -> SUBSET AllNames]
     /\ seq \in [Previews!Kinds -> Nat] /\ previewFlows \subseteq Waiting
  /\ faults \in Nat /\ drawing \in Nat /\ active \in 0 .. Size /\ rendering \in BOOLEAN
     /\ DOMAIN units = Previews!Units
  /\ Size \in Nat

\* A document is drawn by one flow, and nobody writes meanwhile.
DrawnAlone ==
  /\ rendering => active = 0
  /\ \A f \in previewFlows : f.kind = "render" => rendering
  /\ \A f, g \in previewFlows : f.kind = "render" /\ g.kind = "render" => f = g

\* What is missing is on its way, as long as nothing failed: what draws the document
\* waits for all of it, and behind it nothing is missing.
OnTheWay ==
  faults = 0 =>
    /\ Lacks("pictures") = {} \/ \E f \in previewFlows : Covers(f, "pictures")
    /\ \A f \in previewFlows : f.kind = "render" => \A k \in Previews!Kinds : Lacks(k) = {} \/ Covers(f, k)
    /\ \A f \in previewFlows : f.kind \in {"refresh", "again"} =>
         ~Previews!Waits(f) /\ (f.kind = "refresh" => f.of = Previews!Whole(text))
           /\ \A k \in Previews!Kinds : Lacks(k) = {}

PreviewsInv == TypedOK /\ Previews!EditorStays /\ DrawnAlone /\ OnTheWay

LEMMA KindsAre == Previews!Kinds = {"links", "pictures"} /\ Previews!Both(0, 0) = [k \in Previews!Kinds |-> 0]
BY DEF Previews!Kinds, Previews!Both

LEMMA BothIs ==
  ASSUME NEW a, NEW b
  PROVE  DOMAIN Previews!Both(a, b) = Previews!Kinds /\ Previews!Both(a, b)["links"] = a
         /\ Previews!Both(a, b)["pictures"] = b
BY DEF Previews!Both, Previews!Kinds

LEMMA WantedIs ==
  ASSUME NEW k \in Previews!Kinds
  PROVE  /\ \A t \in Previews!Captured : Previews!Wanted(k, t) \in SUBSET AllNames
         /\ \A d \in Previews!Documents : Previews!Whole(d) \in Previews!Captured
         /\ \A t \in Texts : t \in Previews!Captured /\ <<>> \in Previews!Captured
<1>1. \A t \in Previews!Captured : Previews!Wanted(k, t) \in SUBSET AllNames
  BY DEF AllNames
<1>2. \A d \in Previews!Documents : Previews!Whole(d) \in Previews!Captured
  BY DEF Previews!Captured, Previews!Whole
<1> QED BY <1>1, <1>2 DEF Previews!Captured

\* Flow h has begun beside the others.
Begun(h, others, kind, t, want, c) ==
  /\ previewFlows' = others \cup {h} /\ seq' \in [Previews!Kinds -> Nat] /\ h.kind = kind /\ h.of = t
  /\ \A k \in Previews!Kinds :
       /\ h.wanted[k] = want[k] \ c[k]
       /\ want[k] \ c[k] = {} => h.wait[k] = 0 /\ seq'[k] = seq[k]
       /\ want[k] \ c[k] # {} => h.wait[k] = seq'[k] /\ h.wait[k] > 0

\* A flow that begins asks for what it misses, under the next number.
LEMMA BeginIs ==
  ASSUME NEW others, others \subseteq Waiting, NEW kind \in {"render", "close", "refresh", "again"},
         NEW u \in 0 .. Size,
         NEW t \in Previews!Captured, NEW at \in Nat, NEW want, NEW c,
           \A k \in Previews!Kinds : want[k] \in SUBSET AllNames,
         seq \in [Previews!Kinds -> Nat], Previews!Begin(others, kind, u, t, at, want, c)
  PROVE  \E h \in Waiting : Begun(h, others, kind, t, want, c)
<1> DEFINE m == Previews!Missing(want, c)
           f == [kind |-> kind, unit |-> u, of |-> t, drawing |-> at, wait |-> Previews!Numbers(m),
             wanted |-> m]
<1>1. m \in [Previews!Kinds -> SUBSET AllNames] /\ \A k \in Previews!Kinds : m[k] = want[k] \ c[k]
  BY DEF Previews!Missing
<1> HIDE DEF m
<1>2. Previews!Numbers(m) \in [Previews!Kinds -> Nat]
      /\ \A k \in Previews!Kinds : Previews!Numbers(m)[k] = IF m[k] = {} THEN 0 ELSE seq[k] + 1
  BY DEF Previews!Numbers
<1>3. previewFlows' = others \cup {f} /\ seq' = [k \in Previews!Kinds |-> IF m[k] = {} THEN seq[k]
      ELSE seq[k] + 1]
  BY DEF Previews!Begin, m
<1>4. seq' \in [Previews!Kinds -> Nat] /\ \A k \in Previews!Kinds : seq'[k] = IF m[k] = {} THEN seq[k]
      ELSE seq[k] + 1
  BY <1>3
<1>5. /\ f \in Waiting /\ f.kind = kind /\ f.of = t /\ f.unit = u /\ f.wait = Previews!Numbers(m)
         /\ f.wanted = m
  BY <1>1, <1>2 DEF Waiting
<1> HIDE DEF f
<1>6. \A k \in Previews!Kinds : /\ f.wanted[k] = want[k] \ c[k]
                                /\ want[k] \ c[k] = {} => f.wait[k] = 0 /\ seq'[k] = seq[k]
                                /\ want[k] \ c[k] # {} => f.wait[k] = seq'[k] /\ f.wait[k] > 0
  BY <1>1, <1>2, <1>4, <1>5
<1>7. Begun(f, others, kind, t, want, c)
  BY <1>3, <1>4, <1>5, <1>6 DEF Begun
<1> QED BY <1>5, <1>7

LEMMA PreviewsStart == ASSUME Previews!PreviewsAssumption, Previews!Init PROVE PreviewsInv
<1> DEFINE w == [k \in Previews!Kinds |-> Previews!Wanted(k, Previews!Whole(text))]
           first == [k \in Previews!Kinds |-> IF w[k] = {} THEN 0 ELSE 1]
           f == [kind |-> "render", unit |-> 0, of |-> <<>>, drawing |-> 0, wait |-> first, wanted |-> w]
<1>1. /\ text \in Previews!Documents /\ units = [u \in Previews!Units |-> Previews!Gone] /\ active = 0
         /\ rendering = TRUE /\ drawing = 0
      /\ cache = Previews!Empty /\ faults = 0 /\ seq = first /\ previewFlows = {f}
  BY DEF Previews!Init
<1>2. w \in [Previews!Kinds -> SUBSET AllNames]
      /\ \A k \in Previews!Kinds : w[k] = Previews!Wanted(k, Previews!Whole(text))
  <2>1. \A k \in Previews!Kinds : Previews!Wanted(k, Previews!Whole(text)) \in SUBSET AllNames
    BY <1>1, WantedIs
  <2> QED BY <2>1
<1>3. Size \in Nat
  BY DEF Previews!PreviewsAssumption
<1>4. cache \in [Previews!Kinds -> SUBSET AllNames] /\ \A k \in Previews!Kinds : cache[k] = {}
  BY <1>1, KindsAre, BothIs DEF Previews!Empty, Previews!Both
<1> HIDE DEF w
<1>5. first \in [Previews!Kinds -> Nat] /\ \A k \in Previews!Kinds : first[k] = IF w[k] = {} THEN 0 ELSE 1
  OBVIOUS
<1> HIDE DEF first
<1>6. f \in Waiting /\ f.kind = "render" /\ f.wait = first /\ f.wanted = w
  BY <1>2, <1>3, <1>5 DEF Waiting, Previews!Captured
<1> HIDE DEF f
<1>7. TypedOK
  BY <1>1, <1>3, <1>4, <1>5, <1>6 DEF TypedOK
<1>8. Previews!EditorStays
  <2>1. \A u \in Previews!Units : units[u].shown = "gone" /\ u # 0
    BY <1>1, <1>3 DEF Previews!Gone, Previews!Units
  <2> QED BY <1>1, <2>1 DEF Previews!EditorStays
<1>9. DrawnAlone
  BY <1>1, <1>6 DEF DrawnAlone
<1>10. \A k \in Previews!Kinds : Lacks(k) = {} \/ Covers(f, k)
  <2> TAKE k \in Previews!Kinds
  <2>1. Lacks(k) = w[k]
    BY <1>2, <1>4 DEF Lacks
  <2>2. w[k] # {} => f.wait[k] = 1 /\ seq[k] = 1
    BY <1>1, <1>5, <1>6
  <2> QED BY <1>6, <2>1, <2>2 DEF Covers
<1>11. OnTheWay
  <2>1. Lacks("pictures") = {} \/ Covers(f, "pictures")
    BY <1>10, KindsAre
  <2> QED BY <1>1, <1>6, <1>10, <2>1 DEF OnTheWay
<1> QED BY <1>7, <1>8, <1>9, <1>11 DEF PreviewsInv

-----------------------------------------------------------------------------
\* Flow f, of whose requests one is over
Settled(f, k, kind) == [f EXCEPT !.kind = kind, !.wait[k] = 0, !.wanted[k] = {}]

LEMMA SettledIs ==
  ASSUME NEW f \in Waiting, NEW k \in Previews!Kinds, NEW kind \in {f.kind, "lost"}
  PROVE  LET g == Settled(f, k, kind)
         IN  /\ g \in Waiting /\ g.kind = kind /\ g.of = f.of /\ g.wait[k] = 0
             /\ \A j \in Previews!Kinds \ {k} : g.wait[j] = f.wait[j] /\ g.wanted[j] = f.wanted[j]
<1> DEFINE wait == [f.wait EXCEPT ![k] = 0]
           wanted == [f.wanted EXCEPT ![k] = {}]
           g == [f EXCEPT !.kind = kind, !.wait = wait, !.wanted = wanted]
<1>1. f.wait \in [Previews!Kinds -> Nat] /\ f.wanted \in [Previews!Kinds -> SUBSET AllNames]
      /\ kind \in {"render", "close", "refresh", "again", "lost"}
  BY DEF Waiting
<1>2. wait \in [Previews!Kinds -> Nat] /\ wait[k] = 0 /\ \A j \in Previews!Kinds \ {k} : wait[j] = f.wait[j]
  BY <1>1
<1>3. wanted \in [Previews!Kinds -> SUBSET AllNames]
      /\ \A j \in Previews!Kinds \ {k} : wanted[j] = f.wanted[j]
  BY <1>1
<1>4. Settled(f, k, kind) = g
  BY DEF Settled
<1> HIDE DEF wait, wanted
<1>5. g \in Waiting /\ g.kind = kind /\ g.of = f.of /\ g.wait = wait /\ g.wanted = wanted
  BY <1>1, <1>2, <1>3 DEF Waiting
<1> QED BY <1>2, <1>3, <1>4, <1>5

LEMMA NoWait ==
  ASSUME NEW f \in Waiting
  PROVE  /\ ~Previews!Waits(f) => \A k \in Previews!Kinds : f.wait[k] = 0
         /\ (\A k \in Previews!Kinds : f.wait[k] = 0) => ~Previews!Waits(f)
<1>1. f.wait \in [Previews!Kinds -> Nat] /\ f.wait = [k \in Previews!Kinds |-> f.wait[k]]
  BY DEF Waiting
<1>2. Previews!Both(0, 0) = [k \in Previews!Kinds |-> 0]
  BY KindsAre
<1> QED BY <1>1, <1>2 DEF Previews!Waits

LEMMA AnsweredOK ==
  ASSUME PreviewsInv, NEW f \in previewFlows, NEW k \in Previews!Kinds, Previews!Answered(f, k)
  PROVE  PreviewsInv'
<1> DEFINE g == Settled(f, k, f.kind)
<1>1. /\ f.wait[k] > 0 /\ previewFlows' = (previewFlows \ {f}) \cup {[f EXCEPT !.wait[k] = 0,
         !.wanted[k] = {}]}
      /\ cache' = IF f.wait[k] = seq[k] THEN [cache EXCEPT ![k] = @ \cup f.wanted[k]] ELSE cache
      /\ text' = text /\ seq' = seq /\ faults' = faults /\ units' = units /\ active' = active
         /\ rendering' = rendering
      /\ drawing' = drawing
  BY DEF Previews!Answered
<1>2. f \in Waiting /\ f.wanted \in [Previews!Kinds -> SUBSET AllNames] /\ f.wait \in [Previews!Kinds -> Nat]
      /\ f.kind \in {"render", "close", "refresh", "again", "lost"}
         /\ cache \in [Previews!Kinds -> SUBSET AllNames]
  BY DEF PreviewsInv, TypedOK, Waiting
<1>3. /\ g \in Waiting /\ g.kind = f.kind /\ g.of = f.of /\ g.wait[k] = 0
      /\ \A j \in Previews!Kinds \ {k} : g.wait[j] = f.wait[j] /\ g.wanted[j] = f.wanted[j]
  BY <1>2, SettledIs
<1>4. previewFlows' = (previewFlows \ {f}) \cup {g}
  <2>1. [f EXCEPT !.wait[k] = 0, !.wanted[k] = {}] = g
    BY <1>2 DEF Settled, Waiting
  <2> QED BY <1>1, <2>1
<1> HIDE DEF g
<1>5. /\ cache' \in [Previews!Kinds -> SUBSET AllNames]
         /\ \A j \in Previews!Kinds : cache[j] \subseteq cache'[j]
      /\ f.wait[k] = seq[k] => f.wanted[k] \subseteq cache'[k]
      /\ \A j \in Previews!Kinds \ {k} : cache'[j] = cache[j]
      /\ f.wait[k] # seq[k] => cache' = cache
  <2>1. CASE f.wait[k] = seq[k]
    <3>1. cache' = [cache EXCEPT ![k] = cache[k] \cup f.wanted[k]]
      BY <1>1, <2>1
    <3>2. f.wanted[k] \in SUBSET AllNames /\ cache[k] \cup f.wanted[k] \in SUBSET AllNames
      BY <1>2
    <3>3. cache' \in [Previews!Kinds -> SUBSET AllNames]
      BY <1>2, <3>1, <3>2
    <3>4. cache'[k] = cache[k] \cup f.wanted[k] /\ \A j \in Previews!Kinds \ {k} : cache'[j] = cache[j]
      BY <1>2, <3>1
    <3> QED BY <2>1, <3>3, <3>4
  <2>2. CASE f.wait[k] # seq[k]
    BY <1>1, <1>2, <2>2
  <2> QED BY <2>1, <2>2
<1>6. TypedOK'
  BY <1>1, <1>3, <1>4, <1>5 DEF PreviewsInv, TypedOK
<1>7. Previews!EditorStays' /\ DrawnAlone'
  <2>1. \A h \in previewFlows' : h.kind = "render" => rendering
    BY <1>3, <1>4 DEF PreviewsInv, DrawnAlone
  <2>2. \A h, i \in previewFlows' : h.kind = "render" /\ i.kind = "render" => h = i
    BY <1>3, <1>4 DEF PreviewsInv, DrawnAlone
  <2> QED BY <1>1, <2>1, <2>2 DEF PreviewsInv, Previews!EditorStays, DrawnAlone
<1>8. \A j \in Previews!Kinds : Lacks(j)' \subseteq Lacks(j)
  BY <1>1, <1>5 DEF Lacks
<1>9. \A j \in Previews!Kinds, h \in previewFlows : Covers(h, j) =>
        Lacks(j)' = {} \/ IF h = f THEN Covers(g, j)' ELSE Covers(h, j)'
  <2> TAKE j \in Previews!Kinds, h \in previewFlows
  <2>1. CASE h # f
    BY <1>1, <1>8, <2>1 DEF Covers
  <2>2. CASE h = f /\ j # k
    <3>1. g.wait[j] = f.wait[j] /\ g.wanted[j] = f.wanted[j]
      BY <1>3, <2>2
    <3> QED BY <1>1, <1>8, <2>2, <3>1 DEF Covers
  <2>3. CASE h = f /\ j = k
    BY <1>1, <1>5, <1>8, <2>3 DEF Covers, Lacks
  <2> QED BY <2>1, <2>2, <2>3
<1>10. ASSUME faults = 0 PROVE OnTheWay'
  <2>1. f.kind \notin {"refresh", "again"}
    <3>1. Previews!Waits(f)
      BY <1>1, <1>2, NoWait
    <3> QED BY <1>10, <3>1 DEF PreviewsInv, OnTheWay
  <2>2. Lacks("pictures")' = {} \/ \E h \in previewFlows' : Covers(h, "pictures")'
    <3>1. CASE Lacks("pictures") = {}
      BY <1>8, <3>1, KindsAre
    <3>2. ASSUME NEW h \in previewFlows, Covers(h, "pictures")
          PROVE  Lacks("pictures")' = {} \/ \E i \in previewFlows' : Covers(i, "pictures")'
      BY <1>4, <1>9, <3>2, KindsAre
    <3> QED BY <1>10, <3>1, <3>2 DEF PreviewsInv, OnTheWay
  <2>3. ASSUME NEW h \in previewFlows', h.kind = "render", NEW j \in Previews!Kinds
        PROVE  Lacks(j)' = {} \/ Covers(h, j)'
    <3>1. CASE h = g
      <4>1. Lacks(j) = {} \/ Covers(f, j)
        BY <1>3, <1>10, <2>3, <3>1 DEF PreviewsInv, OnTheWay
      <4> QED BY <1>8, <1>9, <3>1, <4>1
    <3>2. CASE h # g
      <4>1. h \in previewFlows /\ h # f
        BY <1>4, <3>2
      <4>2. Lacks(j) = {} \/ Covers(h, j)
        BY <1>10, <2>3, <4>1 DEF PreviewsInv, OnTheWay
      <4> QED BY <1>8, <1>9, <4>1, <4>2
    <3> QED BY <3>1, <3>2
  <2>4. ASSUME NEW h \in previewFlows', h.kind \in {"refresh", "again"}
        PROVE  ~Previews!Waits(h) /\ (h.kind = "refresh" => h.of = Previews!Whole(text))
               /\ \A j \in Previews!Kinds : Lacks(j)' = {}
    <3>1. h \in previewFlows
      BY <1>3, <1>4, <2>1, <2>4
    <3> QED BY <1>8, <1>10, <2>4, <3>1 DEF PreviewsInv, OnTheWay
  <2> QED BY <1>1, <2>2, <2>3, <2>4 DEF OnTheWay, Previews!Waits
<1> QED BY <1>1, <1>6, <1>7, <1>10 DEF PreviewsInv, OnTheWay

\* After a fault nothing is promised.
LEMMA FaultOK == ASSUME PreviewsInv, faults' = faults + 1 PROVE OnTheWay'
<1>1. faults' # 0
  BY DEF PreviewsInv, TypedOK
<1> QED BY <1>1 DEF OnTheWay

LEMMA FailsOK ==
  ASSUME PreviewsInv, (\E f \in previewFlows, k \in Previews!Kinds : Previews!Refused(f, k)
         \/ Previews!Lost(f, k)) \/ Previews!PickerAsks
  PROVE  PreviewsInv'
<1>1. ASSUME NEW f \in previewFlows, NEW k \in Previews!Kinds, NEW kind \in {f.kind, "lost"},
             previewFlows' = (previewFlows \ {f}) \cup {[f EXCEPT !.kind = kind, !.wait[k] = 0,
               !.wanted[k] = {}]},
             rendering' = (rendering /\ ~(kind = "lost" /\ f.kind = "render")), faults' = faults + 1,
             UNCHANGED <<text, units, active, drawing, cache, seq>>
      PROVE  PreviewsInv'
  <2> DEFINE g == Settled(f, k, kind)
  <2>1. f \in Waiting
    BY DEF PreviewsInv, TypedOK
  <2>2. g \in Waiting /\ g.kind = kind
    BY <2>1, SettledIs
  <2>3. previewFlows' = (previewFlows \ {f}) \cup {g}
    BY <1>1 DEF Settled
  <2> HIDE DEF g
  <2>4. faults' \in Nat /\ rendering' \in BOOLEAN
    BY <1>1 DEF PreviewsInv, TypedOK
  <2>5. TypedOK'
    BY <1>1, <2>2, <2>3, <2>4 DEF PreviewsInv, TypedOK
  <2>6. /\ rendering' => rendering
        /\ \A h \in previewFlows' : h.kind = "render" => rendering'
        /\ \A h, i \in previewFlows' : h.kind = "render" /\ i.kind = "render" => h = i
    BY <1>1, <2>2, <2>3 DEF PreviewsInv, DrawnAlone
  <2>7. Previews!EditorStays' /\ DrawnAlone'
    BY <1>1, <2>6 DEF PreviewsInv, Previews!EditorStays, DrawnAlone
  <2> QED BY <1>1, <2>5, <2>7, FaultOK DEF PreviewsInv
<1>2. ASSUME NEW f \in previewFlows, NEW k \in Previews!Kinds, Previews!Refused(f, k) PROVE PreviewsInv'
  <2>1. f \in Waiting
    BY DEF PreviewsInv, TypedOK
  <2>2. [f EXCEPT !.wait[k] = 0, !.wanted[k] = {}] = [f EXCEPT !.kind = f.kind, !.wait[k] = 0,
        !.wanted[k] = {}]
    BY <2>1 DEF Waiting
  <2>3. f.kind = "lost" => f.kind # "render"
    OBVIOUS
  <2>4. rendering' = (rendering /\ ~(f.kind = "lost" /\ f.kind = "render"))
    BY <1>2, <2>3 DEF Previews!Refused, PreviewsInv, TypedOK
  <2> QED BY <1>1, <1>2, <2>2, <2>4 DEF Previews!Refused
<1>3. ASSUME NEW f \in previewFlows, NEW k \in Previews!Kinds, Previews!Lost(f, k) PROVE PreviewsInv'
  <2>1. rendering' = (rendering /\ ~("lost" = "lost" /\ f.kind = "render"))
    BY <1>3 DEF Previews!Lost
  <2> QED BY <1>1, <1>3, <2>1 DEF Previews!Lost
<1>4. CASE Previews!PickerAsks
  <2>1. /\ UNCHANGED <<text, source, units, active, rendering, drawing, cache, previewFlows>>
           /\ faults' = faults + 1
        /\ seq' = [seq EXCEPT !["pictures"] = @ + 1]
    BY <1>4 DEF Previews!PickerAsks
  <2>2. seq' \in [Previews!Kinds -> Nat] /\ faults' \in Nat
    BY <2>1, KindsAre DEF PreviewsInv, TypedOK
  <2>3. TypedOK' /\ Previews!EditorStays' /\ DrawnAlone'
    BY <2>1, <2>2 DEF PreviewsInv, TypedOK, Previews!EditorStays, DrawnAlone
  <2> QED BY <2>1, <2>3, FaultOK DEF PreviewsInv
<1> QED BY <1>2, <1>3, <1>4

LEMMA DrawDocumentOK ==
  ASSUME PreviewsInv, NEW f \in previewFlows, Previews!DrawDocument(f) PROVE PreviewsInv'
<1> DEFINE want == Previews!Both(Previews!Wanted("links", Previews!Whole(text)), {})
<1>1. /\ f.kind = "render" /\ ~Previews!Waits(f)
         /\ units' = [u \in Previews!Units |-> Previews!Preview(text[u], cache)] /\ rendering' = FALSE
      /\ Previews!Begin(previewFlows \ {f}, "refresh", 0, Previews!Whole(text), drawing, want, cache)
      /\ text' = text /\ active' = active /\ drawing' = drawing /\ cache' = cache /\ faults' = faults
  BY DEF Previews!DrawDocument
<1>2. active = 0 /\ f \in Waiting /\ text \in Previews!Documents /\ drawing \in Nat
      /\ seq \in [Previews!Kinds -> Nat] /\ previewFlows \ {f} \subseteq Waiting
      /\ cache \in [Previews!Kinds -> SUBSET AllNames] /\ active \in 0 .. Size /\ Size \in Nat
  BY <1>1 DEF PreviewsInv, TypedOK, DrawnAlone
<1>3. \A k \in Previews!Kinds : want[k] \in SUBSET AllNames
      /\ want[k] \subseteq Previews!Wanted(k, Previews!Whole(text))
  BY <1>2, KindsAre, BothIs, WantedIs
<1> HIDE DEF want
<1>4. Previews!Whole(text) \in Previews!Captured /\ 0 \in 0 .. Size
  BY <1>2, WantedIs, KindsAre
<1>11. PICK h \in Waiting : Begun(h, previewFlows \ {f}, "refresh", Previews!Whole(text), want, cache)
  BY <1>1, <1>2, <1>3, <1>4, BeginIs
<1>5. /\ previewFlows' = (previewFlows \ {f}) \cup {h} /\ seq' \in [Previews!Kinds -> Nat]
         /\ h.kind = "refresh" /\ h.of = Previews!Whole(text)
      /\ \A k \in Previews!Kinds : want[k] \ cache[k] = {} => h.wait[k] = 0 /\ seq'[k] = seq[k]
  BY <1>11 DEF Begun
<1>6. TypedOK'
  <2>1. DOMAIN units' = Previews!Units
    BY <1>1
  <2> QED BY <1>1, <1>2, <1>5, <2>1 DEF PreviewsInv, TypedOK
<1>7. Previews!EditorStays' /\ DrawnAlone'
  <2>1. \A u \in Previews!Units : units'[u].shown = "preview" /\ u # 0
    BY <1>1 DEF Previews!Preview, Previews!Units
  <2>2. \A i \in previewFlows' : i.kind # "render"
    BY <1>1, <1>5 DEF PreviewsInv, DrawnAlone
  <2> QED BY <1>1, <1>2, <2>1, <2>2 DEF Previews!EditorStays, DrawnAlone
<1>8. ASSUME faults = 0 PROVE OnTheWay'
  <2>1. \A k \in Previews!Kinds : Lacks(k) = {}
    <3>1. \A k \in Previews!Kinds : ~Covers(f, k)
      BY <1>1, <1>2, NoWait DEF Covers
    <3> QED BY <1>1, <1>8, <3>1 DEF PreviewsInv, OnTheWay
  <2>2. \A k \in Previews!Kinds : Lacks(k)' = {} /\ want[k] \ cache[k] = {}
    BY <1>1, <1>3, <2>1 DEF Lacks
  <2>3. ~Previews!Waits(h)
    BY <1>5, <2>2, NoWait
  <2>4. \A i \in previewFlows' : i.kind \in {"refresh", "again"} => ~Previews!Waits(i)
        /\ (i.kind = "refresh" => i.of = Previews!Whole(text))
    BY <1>5, <1>8, <2>3 DEF PreviewsInv, OnTheWay
  <2> QED BY <1>1, <2>2, <2>4, KindsAre DEF OnTheWay, Previews!Waits
<1> QED BY <1>1, <1>6, <1>7, <1>8 DEF PreviewsInv, OnTheWay

LEMMA RefreshPicturesOK ==
  ASSUME PreviewsInv, NEW f \in previewFlows, Previews!RefreshPictures(f) PROVE PreviewsInv'
<1> DEFINE want == Previews!Both({}, Previews!Wanted("pictures", f.of))
<1>1. /\ f.kind = "refresh" /\ ~Previews!Waits(f)
         /\ Previews!Begin(previewFlows \ {f}, "again", 0, <<>>, f.drawing, want, cache)
      /\ UNCHANGED <<text, units, active, rendering, drawing, cache, faults>>
  BY DEF Previews!RefreshPictures
<1>2. f \in Waiting /\ text \in Previews!Documents /\ seq \in [Previews!Kinds -> Nat]
      /\ previewFlows \ {f} \subseteq Waiting
      /\ cache \in [Previews!Kinds -> SUBSET AllNames] /\ f.of \in Previews!Captured /\ f.drawing \in Nat
         /\ active \in 0 .. Size /\ Size \in Nat
  BY DEF PreviewsInv, TypedOK, Waiting
<1>3. \A k \in Previews!Kinds : want[k] \in SUBSET AllNames /\ want[k] \subseteq Previews!Wanted(k, f.of)
  BY <1>2, KindsAre, BothIs, WantedIs
<1> HIDE DEF want
<1>4. <<>> \in Previews!Captured /\ 0 \in 0 .. Size
  BY <1>2 DEF Previews!Captured
<1>11. PICK h \in Waiting : Begun(h, previewFlows \ {f}, "again", <<>>, want, cache)
  BY <1>1, <1>2, <1>3, <1>4, BeginIs
<1>5. /\ previewFlows' = (previewFlows \ {f}) \cup {h} /\ seq' \in [Previews!Kinds -> Nat] /\ h.kind = "again"
      /\ \A k \in Previews!Kinds : want[k] \ cache[k] = {} => h.wait[k] = 0 /\ seq'[k] = seq[k]
  BY <1>11 DEF Begun
<1>6. TypedOK'
  BY <1>1, <1>5 DEF PreviewsInv, TypedOK
<1>7. Previews!EditorStays' /\ DrawnAlone'
  <2>1. /\ \A i \in previewFlows' : i.kind = "render" => rendering
        /\ \A i, j \in previewFlows' : i.kind = "render" /\ j.kind = "render" => i = j
    BY <1>5 DEF PreviewsInv, DrawnAlone
  <2> QED BY <1>1, <2>1 DEF PreviewsInv, Previews!EditorStays, DrawnAlone
<1>8. ASSUME faults = 0 PROVE OnTheWay'
  <2>1. f.of = Previews!Whole(text) /\ \A k \in Previews!Kinds : Lacks(k) = {}
    BY <1>1, <1>8 DEF PreviewsInv, OnTheWay
  <2>2. \A k \in Previews!Kinds : Lacks(k)' = {} /\ want[k] \ cache[k] = {}
    BY <1>1, <1>3, <2>1 DEF Lacks
  <2>3. ~Previews!Waits(h)
    BY <1>5, <2>2, NoWait
  <2>4. \A i \in previewFlows' : i.kind \in {"refresh", "again"} => ~Previews!Waits(i)
        /\ (i.kind = "refresh" => i.of = Previews!Whole(text))
    BY <1>5, <1>8, <2>3 DEF PreviewsInv, OnTheWay
  <2> QED BY <1>1, <2>2, <2>4, KindsAre DEF OnTheWay, Previews!Waits
<1> QED BY <1>1, <1>6, <1>7, <1>8 DEF PreviewsInv, OnTheWay

\* A flow that asks for nothing more is at its end.
LEMMA EndedOK ==
  ASSUME PreviewsInv, NEW f \in previewFlows, previewFlows' = previewFlows \ {f},
         ~Previews!Waits(f), UNCHANGED <<text, active, rendering, drawing, cache, seq, faults>>,
           DOMAIN units' = Previews!Units,
         \A u \in Previews!Units : units'[u].shown = "editor" <=> units[u].shown = "editor"
  PROVE  PreviewsInv'
<1>1. TypedOK'
  BY DEF PreviewsInv, TypedOK
<1>2. Previews!EditorStays' /\ DrawnAlone'
  BY DEF PreviewsInv, Previews!EditorStays, DrawnAlone
<1>3. f \in Waiting
  BY DEF PreviewsInv, TypedOK
<1>4. \A k \in Previews!Kinds : Lacks(k)' = Lacks(k) /\ ~Covers(f, k)
      /\ \A h \in previewFlows : Covers(h, k) => Covers(h, k)'
  BY <1>3, NoWait DEF Lacks, Covers
<1>5. ASSUME faults = 0 PROVE OnTheWay'
  <2>1. Lacks("pictures")' = {} \/ \E h \in previewFlows' : Covers(h, "pictures")'
    BY <1>4, <1>5, KindsAre DEF PreviewsInv, OnTheWay
  <2>2. \A h \in previewFlows' : h.kind = "render" => \A k \in Previews!Kinds : Lacks(k)' = {}
        \/ Covers(h, k)'
    BY <1>4, <1>5 DEF PreviewsInv, OnTheWay
  <2>3. \A h \in previewFlows' : h.kind \in {"refresh", "again"} =>
          ~Previews!Waits(h) /\ (h.kind = "refresh" => h.of = Previews!Whole(text))
            /\ \A k \in Previews!Kinds : Lacks(k)' = {}
    BY <1>4, <1>5 DEF PreviewsInv, OnTheWay
  <2> QED BY <2>1, <2>2, <2>3 DEF OnTheWay, Previews!Waits
<1> QED BY <1>1, <1>2, <1>5 DEF PreviewsInv, OnTheWay

LEMMA EndsOK ==
  ASSUME PreviewsInv, NEW f \in previewFlows, Previews!RefreshUnits(f) \/ Previews!DrawUnit(f)
         \/ Previews!Forgotten(f)
  PROVE  PreviewsInv'
<1>0. DOMAIN units = Previews!Units
  BY DEF PreviewsInv, TypedOK
<1>1. CASE Previews!RefreshUnits(f)
  <2>1. /\ ~Previews!Waits(f) /\ previewFlows' = previewFlows \ {f}
           /\ UNCHANGED <<text, active, rendering, drawing, cache, seq, faults>>
        /\ units' = [u \in Previews!Units |-> IF units[u].shown = "preview"
           /\ Previews!Known(text[u], cache) # {}
                                              THEN Previews!Preview(text[u], cache) ELSE units[u]]
    BY <1>1 DEF Previews!RefreshUnits
  <2>2. \A u \in Previews!Units : Previews!Preview(text[u], cache).shown = "preview"
    BY DEF Previews!Preview
  <2>3. \A u \in Previews!Units : units'[u].shown = "editor" <=> units[u].shown = "editor"
    BY <2>1, <2>2
  <2> QED BY <2>1, <2>3, EndedOK
<1>2. CASE Previews!DrawUnit(f)
  <2>1. /\ ~Previews!Waits(f) /\ previewFlows' = previewFlows \ {f}
           /\ UNCHANGED <<text, active, rendering, drawing, cache, seq, faults>>
        /\ units' = IF Previews!DrawsLater(f) THEN [units EXCEPT ![f.unit] = Previews!Preview(f.of, cache)]
           ELSE units
    BY <1>2 DEF Previews!DrawUnit
  <2>2. Previews!Preview(f.of, cache).shown = "preview"
    BY DEF Previews!Preview
  <2>3. \A u \in Previews!Units : units'[u].shown = "editor" <=> units[u].shown = "editor"
    BY <1>0, <2>1, <2>2 DEF Previews!DrawsLater
  <2>4. DOMAIN units' = Previews!Units
    BY <1>0, <2>1
  <2> QED BY <2>1, <2>3, <2>4, EndedOK
<1>3. CASE Previews!Forgotten(f)
  BY <1>0, <1>3, EndedOK DEF Previews!Forgotten
<1> QED BY <1>1, <1>2, <1>3

LEMMA OpenUnitOK == ASSUME PreviewsInv, NEW u \in Previews!Units, Previews!OpenUnit(u) PROVE PreviewsInv'
<1>1. /\ ~rendering /\ active = 0 /\ units[u].shown = "preview" /\ active' = u
      /\ units' = [units EXCEPT ![u] = [shown |-> "editor", of |-> text[u], known |-> {}]]
      /\ UNCHANGED <<text, rendering, drawing, cache, seq, previewFlows, faults>>
  BY DEF Previews!OpenUnit
<1>2. DOMAIN units = Previews!Units /\ u \in 1 .. Size
  BY DEF PreviewsInv, TypedOK, Previews!Units
<1>3. TypedOK'
  BY <1>1, <1>2 DEF PreviewsInv, TypedOK
<1>4. Previews!EditorStays'
  <2>1. \A v \in Previews!Units : v # 0
    BY DEF Previews!Units
  <2>2. units'[u].shown = "editor" /\ \A v \in Previews!Units \ {u} : units'[v] = units[v]
    BY <1>1, <1>2
  <2> QED BY <1>1, <2>1, <2>2 DEF PreviewsInv, Previews!EditorStays
<1>5. DrawnAlone'
  BY <1>1 DEF PreviewsInv, DrawnAlone
<1>6. OnTheWay'
  BY <1>1 DEF PreviewsInv, OnTheWay, Lacks, Covers, Previews!Waits
<1> QED BY <1>3, <1>4, <1>5, <1>6 DEF PreviewsInv

\* Between events, and while nothing failed, no refresh is under way.
LEMMA QuietIs ==
  ASSUME PreviewsInv, Previews!Quiet, faults = 0
  PROVE  \A f \in previewFlows : f.kind \notin {"refresh", "again"}
BY DEF PreviewsInv, OnTheWay, Previews!Quiet

LEMMA CloseUnitOK == ASSUME PreviewsInv, NEW t \in Texts, Previews!CloseUnit(t) PROVE PreviewsInv'
<1> DEFINE d == [text EXCEPT ![active] = t]
           want == Previews!Both(Previews!Wanted("links", t), Previews!Wanted("pictures", Previews!Whole(d)))
<1>1. /\ Previews!Quiet /\ active # 0 /\ text' = d
         /\ units' = [units EXCEPT ![active] = Previews!Preview(t, cache)]
      /\ Previews!Begin(previewFlows, "close", active, t, drawing, want, cache)
      /\ active' = 0 /\ UNCHANGED <<rendering, drawing, cache, faults>>
  BY DEF Previews!CloseUnit, Previews!ClosePictures
<1>2. /\ text \in Previews!Documents /\ drawing \in Nat /\ seq \in [Previews!Kinds -> Nat]
         /\ previewFlows \subseteq Waiting /\ DOMAIN units = Previews!Units
      /\ cache \in [Previews!Kinds -> SUBSET AllNames] /\ active \in 0 .. Size /\ rendering = FALSE
         /\ t \in Previews!Captured
      /\ Size \in Nat
  BY <1>1, WantedIs, KindsAre DEF PreviewsInv, TypedOK, DrawnAlone
<1>3. d \in Previews!Documents
  BY <1>2 DEF Previews!Documents
<1> HIDE DEF d
<1>4. /\ \A k \in Previews!Kinds : want[k] \in SUBSET AllNames
      /\ want["pictures"] = Previews!Wanted("pictures", Previews!Whole(d))
  BY <1>2, <1>3, KindsAre, BothIs, WantedIs
<1> HIDE DEF want
<1>11. PICK h \in Waiting : Begun(h, previewFlows, "close", t, want, cache)
  BY <1>1, <1>2, <1>4, BeginIs
<1>5. /\ previewFlows' = previewFlows \cup {h} /\ seq' \in [Previews!Kinds -> Nat] /\ h.kind = "close"
      /\ \A k \in Previews!Kinds : h.wanted[k] = want[k] \ cache[k]
         /\ (want[k] \ cache[k] # {} => h.wait[k] = seq'[k] /\ h.wait[k] > 0)
  BY <1>11 DEF Begun
<1>6. TypedOK'
  <2>1. DOMAIN units' = Previews!Units /\ 0 \in 0 .. Size
    BY <1>1, <1>2
  <2> QED BY <1>1, <1>2, <1>3, <1>5, <2>1 DEF PreviewsInv, TypedOK
<1>7. Previews!EditorStays'
  <2>1. Previews!Preview(t, cache).shown = "preview"
    BY DEF Previews!Preview
  <2>2. \A v \in Previews!Units : v # 0 /\ units'[v].shown # "editor"
    BY <1>1, <1>2, <2>1 DEF PreviewsInv, Previews!EditorStays, Previews!Units
  <2> QED BY <1>1, <2>2 DEF Previews!EditorStays
<1>8. \A f \in previewFlows' : f.kind # "render"
  BY <1>2, <1>5 DEF PreviewsInv, DrawnAlone
<1>9. DrawnAlone'
  BY <1>1, <1>2, <1>8 DEF DrawnAlone
<1>10. ASSUME faults = 0 PROVE OnTheWay'
  <2>1. \A f \in previewFlows' : f.kind \notin {"refresh", "again"}
    BY <1>1, <1>5, <1>10, QuietIs
  <2>2. Lacks("pictures")' = want["pictures"] \ cache["pictures"]
    BY <1>1, <1>4 DEF Lacks
  <2>3. Lacks("pictures")' = {} \/ Covers(h, "pictures")'
    BY <1>5, <2>2, KindsAre DEF Covers
  <2> QED BY <1>5, <1>8, <2>1, <2>3 DEF OnTheWay
<1> QED BY <1>1, <1>6, <1>7, <1>9, <1>10 DEF PreviewsInv, OnTheWay

LEMMA RenderOK == ASSUME PreviewsInv, NEW d \in Previews!Documents, Previews!Render(d) PROVE PreviewsInv'
<1> DEFINE want == Previews!WholeWants(d)
<1>1. /\ Previews!Quiet /\ ~rendering /\ text' = d /\ units' = [u \in Previews!Units |-> Previews!Gone]
         /\ active' = 0 /\ rendering' = TRUE
      /\ drawing' = drawing + 1 /\ cache' = Previews!Empty /\ faults' = faults
      /\ Previews!Begin(previewFlows, "render", 0, <<>>, drawing + 1, want, Previews!Empty)
  BY DEF Previews!Render, Previews!RenderBegun
<1>2. /\ drawing + 1 \in Nat /\ seq \in [Previews!Kinds -> Nat] /\ previewFlows \subseteq Waiting
         /\ <<>> \in Previews!Captured /\ active \in 0 .. Size
      /\ Size \in Nat
  BY DEF PreviewsInv, TypedOK, Previews!Captured
<1>3. \A k \in Previews!Kinds : want[k] \in SUBSET AllNames /\ want[k] = Previews!Wanted(k, Previews!Whole(d))
  BY WantedIs DEF Previews!WholeWants
<1>4. Previews!Empty \in [Previews!Kinds -> SUBSET AllNames]
      /\ \A k \in Previews!Kinds : Previews!Empty[k] = {}
  BY KindsAre, BothIs DEF Previews!Empty, Previews!Both
<1> HIDE DEF want
<1>11. PICK h \in Waiting : Begun(h, previewFlows, "render", <<>>, want, Previews!Empty)
  <2>1. 0 \in 0 .. Size
    BY <1>2
  <2> QED BY <1>1, <1>2, <1>3, <2>1, BeginIs
<1>5. /\ previewFlows' = previewFlows \cup {h} /\ seq' \in [Previews!Kinds -> Nat] /\ h.kind = "render"
      /\ \A k \in Previews!Kinds : h.wanted[k] = want[k] \ Previews!Empty[k]
         /\ (want[k] \ Previews!Empty[k] # {} => h.wait[k] = seq'[k] /\ h.wait[k] > 0)
  BY <1>11 DEF Begun
<1>6. TypedOK'
  <2>1. DOMAIN units' = Previews!Units /\ 0 \in 0 .. Size
    BY <1>1, <1>2
  <2> QED BY <1>1, <1>2, <1>4, <1>5, <2>1 DEF PreviewsInv, TypedOK
<1>7. Previews!EditorStays'
  <2>1. \A v \in Previews!Units : v # 0 /\ units'[v].shown = "gone"
    BY <1>1 DEF Previews!Gone, Previews!Units
  <2> QED BY <1>1, <2>1 DEF Previews!EditorStays
<1>8. \A f \in previewFlows : f.kind # "render"
  BY <1>1 DEF PreviewsInv, DrawnAlone
<1>9. DrawnAlone'
  BY <1>1, <1>5, <1>8 DEF DrawnAlone
<1>10. ASSUME faults = 0 PROVE OnTheWay'
  <2>1. \A f \in previewFlows' : f.kind \notin {"refresh", "again"}
    BY <1>1, <1>5, <1>10, QuietIs
  <2>2. \A k \in Previews!Kinds : Lacks(k)' = want[k] \ Previews!Empty[k]
    BY <1>1, <1>3 DEF Lacks
  <2>3. \A k \in Previews!Kinds : Lacks(k)' = {} \/ Covers(h, k)'
    BY <1>5, <2>2 DEF Covers
  <2> QED BY <1>5, <1>8, <2>1, <2>3, KindsAre DEF OnTheWay
<1> QED BY <1>1, <1>6, <1>7, <1>9, <1>10 DEF PreviewsInv, OnTheWay

LEMMA PreviewsKept == ASSUME PreviewsInv, Previews!Next \/ UNCHANGED Previews!vars PROVE PreviewsInv'
<1>1. CASE Previews!Flush \/ UNCHANGED Previews!vars
  <2>1. UNCHANGED <<text, units, active, rendering, drawing, cache, seq, previewFlows, faults>>
    BY <1>1 DEF Previews!Flush, Previews!vars
  <2> QED BY <2>1 DEF PreviewsInv, TypedOK, Previews!EditorStays, DrawnAlone, OnTheWay, Lacks, Covers,
      Previews!Waits
<1>2. ASSUME NEW d \in Previews!Documents, Previews!Render(d) PROVE PreviewsInv'
  BY <1>2, RenderOK
<1>3. ASSUME NEW f \in previewFlows, NEW k \in Previews!Kinds, Previews!Answered(f, k)
             \/ Previews!Refused(f, k) \/ Previews!Lost(f, k)
      PROVE  PreviewsInv'
  BY <1>3, AnsweredOK, FailsOK
<1>4. ASSUME NEW f \in previewFlows, Previews!DrawDocument(f) \/ Previews!RefreshPictures(f)
      PROVE  PreviewsInv'
  BY <1>4, DrawDocumentOK, RefreshPicturesOK
<1>5. ASSUME NEW f \in previewFlows, Previews!RefreshUnits(f) \/ Previews!DrawUnit(f) \/ Previews!Forgotten(f)
      PROVE  PreviewsInv'
  BY <1>5, EndsOK
<1>6. ASSUME NEW u \in Previews!Units, Previews!OpenUnit(u) PROVE PreviewsInv'
  BY <1>6, OpenUnitOK
<1>7. ASSUME NEW t \in Texts, Previews!CloseUnit(t) PROVE PreviewsInv'
  BY <1>7, CloseUnitOK
<1> QED BY <1>1, <1>2, <1>3, <1>4, <1>5, <1>6, <1>7, FailsOK DEF Previews!Next

\* However late and in whatever order the labels of links and the addresses of pictures come: a
\* preview is never drawn over the unit that is edited, and once everything is answered, and neither
\* a fault nor the picker came between, every picture of the document has its address.
THEOREM PreviewsHold ==
  ASSUME Previews!PreviewsAssumption
  PROVE  Previews!Spec => [](Previews!EditorStays /\ Previews!PicturesAreKnown)
<1>1. Previews!Init => PreviewsInv
  BY PreviewsStart
<1>2. PreviewsInv /\ [Previews!Next]_(Previews!vars) => PreviewsInv'
  BY PreviewsKept
<1>3. PreviewsInv => Previews!EditorStays /\ Previews!PicturesAreKnown
  <2> SUFFICES ASSUME PreviewsInv PROVE Previews!EditorStays /\ Previews!PicturesAreKnown
    OBVIOUS
  <2>1. faults = 0 /\ previewFlows = {} => Lacks("pictures") = {}
    BY DEF PreviewsInv, OnTheWay
  <2> QED BY <2>1 DEF PreviewsInv, Previews!PicturesAreKnown, Lacks
<1> QED BY <1>1, <1>2, <1>3, PTL DEF Previews!Spec
==============================================================================
