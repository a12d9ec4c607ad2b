----------------------------- MODULE Renderings -----------------------------
(***************************************************************************)
(* Four places where what a text looks like is drawn beside it: a block of *)
(* code that turns into its figure (code_block_tools_controller), the      *)
(* editor of a diagram (memo_diagram_editor_controller), the preview next  *)
(* to the body editor (live_preview, memo_body_editor_controller), and the *)
(* viewer of one picture (diagram_svg_viewer_controller).                  *)
(***************************************************************************)
EXTENDS Integers, FiniteSets

CONSTANTS
  Texts,
  None,             \* no text
  MaxOpens, MaxRenders, MaxFaults,  \* bounds on live previews, their renders and lost answers
  Picture,          \* how wide the picture is at the scale 1, in half steps of the stage
  Stages,           \* how wide the stage may be
  One, MaxScale,    \* the scale of 100 %, and the largest; the smallest is 1
  Pointers, Places  \* pointers, and where on the stage one may be

RenderingsAssumption ==
  /\ None \notin Texts /\ {MaxOpens, MaxRenders, MaxFaults, Picture} \subseteq Nat
  /\ Stages \subseteq Nat \ {0} /\ Places \subseteq Int
  /\ One \in 1 .. MaxScale /\ MaxScale \in Nat /\ 0 \notin Pointers

VARIABLES block, diagram, live, flows, view

vars == <<block, diagram, live, flows, view>>

Shown == Texts \cup {None}
Steps == {"labels", "addresses", "diagrams"}
Opened == 1 .. MaxOpens
Flows == [of : Texts, inst : Opened, seq : 1 .. MaxRenders, step : Steps]

TypeOK ==
  /\ block \in [lang : {"svg", "mermaid"}, mode : {"source", "diagram"}, pre : BOOLEAN,
                figure : {"hidden", "loading", "error", "drawn"}, rendered : BOOLEAN,
                first : BOOLEAN, loading : BOOLEAN]
  /\ diagram \in [stage : {"loading", "open", "left", "gone"}, doc : Texts, field : Texts,
                  timer : Shown, asks : SUBSET Texts, shown : Shown, error : BOOLEAN,
                  busy : BOOLEAN]
  /\ live \in [text : Texts, enabled : BOOLEAN, imports : Nat, inst : 0 .. MaxOpens,
               opened : 0 .. MaxOpens, timers : SUBSET Opened,
               seq : [Opened -> 0 .. MaxRenders], lost : [Opened -> 0 .. MaxRenders],
               drawn : [inst : 0 .. MaxOpens, of : Shown], faults : 0 .. MaxFaults]
  /\ flows \subseteq Flows
  /\ view \in [width : {0, Picture}, stage : Stages, scale : 1 .. MaxScale, pan : Int, fit : BOOLEAN,
               drag : [by : Pointers \cup {0}, at : Places \cup {0}, pan : Int],
               applied : Int, resized : BOOLEAN]

-----------------------------------------------------------------------------
\* A block of code.  Its button is disabled while the figure is asked for.

\* decorate, buildToggleButton, and for SVG the microtask in which
\* showDiagramInitially hides the source and asks.
BlockInit ==
  \E lang \in {"svg", "mermaid"} :
    LET svg == lang = "svg"
    IN  block = [lang |-> lang, mode |-> "source", pre |-> ~svg,
                 figure |-> IF svg THEN "loading" ELSE "hidden",
                 rendered |-> FALSE, first |-> svg, loading |-> svg]

AsDiagram(b) == [b EXCEPT !.pre = FALSE, !.figure = "drawn", !.mode = "diagram"]
AsSource(b) == [b EXCEPT !.pre = TRUE, !.figure = "hidden", !.mode = "source"]

\* toggleDiagram, up to the request of renderInto.
Toggle ==
  /\ ~block.loading
  /\ block' = IF block.mode = "diagram" THEN AsSource(block)
              ELSE IF block.rendered THEN AsDiagram(block)
              ELSE [block EXCEPT !.loading = TRUE, !.figure = "loading"]
  /\ UNCHANGED <<diagram, live, flows, view>>

\* Mutated: the source that was hidden for the first drawing stays so.
StaysHidden(b) == [b EXCEPT !.figure = "error", !.mode = "source"]
\* No picture came, or none the server has cleaned: the source and the error are shown.
ShowsError(b) == [b EXCEPT !.figure = "error", !.mode = "source", !.pre = TRUE]

\* The rest of renderInto, and of showDiagramInitially or toggleDiagram.
BlockAnswer(ok) ==
  LET done == [block EXCEPT !.loading = FALSE, !.first = FALSE, !.rendered = ok]
  IN  /\ block.loading
      /\ block' = IF ok THEN AsDiagram(done) ELSE ShowsError(done)
      /\ UNCHANGED <<diagram, live, flows, view>>

FigureNext == Toggle \/ \E ok \in BOOLEAN : BlockAnswer(ok)

\* The reader of a block of code always has the source or the figure before them,
\* and only the figure that has been drawn takes the place of the source.
BlockIsReadable ==
  /\ block.pre \/ block.figure = "drawn" \/ (block.first /\ block.loading)
  /\ ~block.loading => (block.mode = "diagram") = (block.figure = "drawn" /\ ~block.pre)

-----------------------------------------------------------------------------
\* The editor of a diagram

DiagramInit ==
  \E t \in Texts :
    diagram = [stage |-> "loading", doc |-> t, field |-> t, timer |-> None, asks |-> {},
               shown |-> None, error |-> FALSE, busy |-> FALSE]

\* connect once CodeMirror is there: nothing asks whether the page has been left.
EditorOpens ==
  /\ diagram.stage \in {"loading", "left"}
  /\ diagram' = [diagram EXCEPT !.stage = IF @ = "loading" THEN "open" ELSE "gone",
                                !.doc = diagram.field, !.timer = diagram.field]
  /\ UNCHANGED <<block, live, flows, view>>

\* updateListener, and _onTextareaExternalChange, which ends in it.
Written(t) ==
  /\ diagram.stage = "open" /\ t # diagram.doc
  /\ diagram' = [diagram EXCEPT !.doc = t, !.field = t, !.timer = t]
  /\ UNCHANGED <<block, live, flows, view>>

\* Mutated: a request goes on beside the next.
StillAsked(asks) == asks
\* _abortPreview
Aborted(asks) == {}

\* fetchPreview, up to its request.
FetchPreview ==
  /\ diagram.timer # None
  /\ diagram' = [diagram EXCEPT !.timer = None, !.asks = Aborted(@) \cup {diagram.timer},
                                !.busy = TRUE, !.error = FALSE]
  /\ UNCHANGED <<block, live, flows, view>>

\* The rest of fetchPreview: the picture is drawn, or the error shown without one.
PreviewAnswer(t, ok) ==
  /\ t \in diagram.asks
  /\ diagram' = [diagram EXCEPT !.asks = @ \ {t}, !.busy = FALSE,
                                !.shown = IF ok THEN t ELSE None, !.error = ~ok]
  /\ UNCHANGED <<block, live, flows, view>>

\* disconnect
LeaveDiagram ==
  /\ diagram.stage \in {"loading", "open"}
  /\ diagram' = [diagram EXCEPT !.stage = IF @ = "loading" THEN "left" ELSE "gone",
                                !.timer = None, !.asks = Aborted(@)]
  /\ UNCHANGED <<block, live, flows, view>>

DiagramNext ==
  \/ EditorOpens \/ FetchPreview \/ LeaveDiagram
  \/ \E t \in Texts : Written(t) \/ \E ok \in BOOLEAN : PreviewAnswer(t, ok)

\* Once nothing is on its way, the diagram drawn is that of the source that will be
\* saved, or the error is shown alone, however fast the source changed.
DiagramIsOfSource ==
  diagram.stage = "open" /\ diagram.timer = None /\ diagram.asks = {} =>
    /\ diagram.field = diagram.doc /\ ~diagram.busy
    /\ IF diagram.error THEN diagram.shown = None ELSE diagram.shown = diagram.field

-----------------------------------------------------------------------------
\* The preview next to the body editor.  Its pane draws what comes from whichever
\* createLivePreview; refreshPreview waits for nothing but the parser.

LiveInit ==
  /\ flows = {}
  /\ \E t \in Texts, on \in BOOLEAN :
       live = [text |-> t, enabled |-> on, imports |-> IF on THEN 1 ELSE 0, inst |-> 0, opened |-> 0,
               timers |-> {}, seq |-> [i \in Opened |-> 0], lost |-> [i \in Opened |-> 0],
               drawn |-> [inst |-> 0, of |-> None], faults |-> 0]

\* scheduleRender, of the preview there is.
Scheduled(t) == [live EXCEPT !.text = t, !.timers = @ \cup ({live.inst} \ {0})]

EditBody(t) ==
  /\ t # live.text /\ live' = Scheduled(t) /\ UNCHANGED <<block, diagram, flows, view>>

\* What a render may wait for behind a step: what is in the caches is not asked for.
Behind(step) == CASE step = "start" -> Steps
                  [] step = "labels" -> {"addresses", "diagrams"}
                  [] step = "addresses" -> {"diagrams"}
                  [] step = "diagrams" -> {}

\* A render that has got over a step waits at one behind it, or draws.
GoesOn(l, others, i, n, t, step) ==
  \/ \E next \in Behind(step) :
       flows' = others \cup {[of |-> t, inst |-> i, seq |-> n, step |-> next]} /\ live' = l
  \/ flows' = others /\ live' = [l EXCEPT !.drawn = [inst |-> i, of |-> t]]

\* renderPreview of preview i, at once or as its debounce runs out.
Renders(l, i) ==
  /\ l.seq[i] < MaxRenders
  /\ GoesOn([l EXCEPT !.seq[i] = @ + 1, !.timers = @ \ {i}], flows, i, l.seq[i] + 1, l.text, "start")

TimerFires(i) == i \in live.timers /\ Renders(live, i) /\ UNCHANGED <<block, diagram, view>>

\* setupLivePreview behind its import; the preference may have changed by then.
Imported ==
  /\ live.imports > 0 /\ live.opened < MaxOpens
  /\ Renders([live EXCEPT !.imports = @ - 1, !.opened = @ + 1, !.inst = live.opened + 1], live.opened + 1)
  /\ UNCHANGED <<block, diagram, view>>

\* toggleLivePreview: destroy stops the timer, and no render that waits.
ToggleLive ==
  /\ live.imports < MaxOpens
  /\ live' = IF live.enabled THEN [live EXCEPT !.enabled = FALSE, !.inst = 0, !.timers = @ \ {live.inst}]
             ELSE [live EXCEPT !.enabled = TRUE, !.imports = IF live.inst = 0 THEN @ + 1 ELSE @]
  /\ UNCHANGED <<block, diagram, flows, view>>

\* Mutated: a render goes on although a later one has begun.
NeverStale(f) == FALSE
\* seq !== renderSeq
Stale(f) == f.seq # live.seq[f.inst]

LiveAnswer(f) ==
  /\ f \in flows
  /\ IF Stale(f) THEN flows' = flows \ {f} /\ UNCHANGED live
     ELSE GoesOn(live, flows \ {f}, f.inst, f.seq, f.of, f.step)
  /\ UNCHANGED <<block, diagram, view>>

\* The request for titles or addresses is lost, and the render with it.
LiveLost(f) ==
  /\ f \in flows /\ f.step # "diagrams" /\ live.faults < MaxFaults
  /\ flows' = flows \ {f}
  /\ live' = [live EXCEPT !.faults = @ + 1, !.lost[f.inst] = IF f.seq > @ THEN f.seq ELSE @]
  /\ UNCHANGED <<block, diagram, view>>

LiveNext ==
  \/ Imported \/ ToggleLive
  \/ \E t \in Texts : EditBody(t)
  \/ \E i \in Opened : TimerFires(i)
  \/ \E f \in flows : LiveAnswer(f) \/ LiveLost(f)

\* Once a preview has nothing on its way, what it has drawn is the body as it stands,
\* unless its last render was lost; another preview may have drawn over it.
LiveShowsBody ==
  LET i == live.inst
  IN  i # 0 /\ i \notin live.timers /\ (\A f \in flows : f.inst # i) /\ live.lost[i] # live.seq[i] =>
        /\ live.drawn.inst = i => live.drawn.of = live.text
        /\ live.opened = 1 => live.drawn.inst = i

-----------------------------------------------------------------------------
\* The viewer of a picture, along one axis: the other is treated alike.

Most(a, b) == IF a > b THEN a ELSE b
Between(n, low, high) == IF n < low THEN low ELSE IF n > high THEN high ELSE n
MaxPan(v) == Most(0, (v.width * v.scale - v.stage) \div 2)

\* Mutated: the picture stays where it was dragged.
Unclamped(v) == v
\* _clampPan
ClampedPan(v) == [v EXCEPT !.pan = Between(@, 0 - MaxPan(v), MaxPan(v))]

Applied(v) == [v EXCEPT !.applied = v.pan, !.resized = FALSE]
SetScale(v, s) == Applied(ClampedPan([v EXCEPT !.scale = Between(s, 1, MaxScale)]))

FitScale(v) ==
  LET fits == {s \in 1 .. MaxScale : v.width * s <= v.stage}
  IN  IF fits = {} THEN 1 ELSE CHOOSE s \in fits : \A r \in fits : r <= s

FitToWindow(v) ==
  LET centred == [v EXCEPT !.fit = TRUE, !.pan = 0]
  IN  IF v.width = 0 THEN centred ELSE SetScale(centred, FitScale(v))

ViewInit ==
  \E stage \in Stages :
    view = [width |-> 0, stage |-> stage, scale |-> One, pan |-> 0, fit |-> FALSE,
            drag |-> [by |-> 0, at |-> 0, pan |-> 0], applied |-> 0, resized |-> FALSE]

Views(v) == view' = v /\ UNCHANGED <<block, diagram, live, flows>>

\* The load event, or connect where the picture is there already.
PictureLoads == view.width = 0 /\ Views(FitToWindow([view EXCEPT !.width = Picture]))

Fit == Views(FitToWindow(view))

\* zoomIn, zoomOut, wheel
Zoom(by) == Views(SetScale([view EXCEPT !.fit = FALSE], view.scale + by))

ResetZoom == Views(SetScale([view EXCEPT !.fit = FALSE, !.pan = 0], One))

CanPan == view.width * view.scale > view.stage

PointerDown(p, x) ==
  CanPan /\ Views([view EXCEPT !.drag = [by |-> p, at |-> x, pan |-> view.pan]])

PointerMove(p, x) ==
  /\ view.drag.by = p
  /\ Views(Applied(ClampedPan([view EXCEPT !.pan = view.drag.pan + x - view.drag.at])))

PointerUp(p) ==
  view.drag.by = p /\ Views([view EXCEPT !.drag = [by |-> 0, at |-> 0, pan |-> 0]])

\* The window's resize event: where the picture is not fitted, what is shown
\* waits for the next step to follow.
Resize(stage) ==
  LET v == [view EXCEPT !.stage = stage]
  IN  /\ stage # view.stage
      /\ Views(IF v.fit THEN FitToWindow(v) ELSE [ClampedPan(v) EXCEPT !.resized = TRUE])

ViewNext ==
  \/ PictureLoads \/ Fit \/ ResetZoom \/ Zoom(1) \/ Zoom(0 - 1)
  \/ \E p \in Pointers : PointerUp(p) \/ \E x \in Places : PointerDown(p, x) \/ PointerMove(p, x)
  \/ \E stage \in Stages : Resize(stage)

\* However a picture is dragged, zoomed and its window resized, no edge of it comes
\* further in than the edge of the stage, and a fitted one keeps filling the stage.
PictureStaysInReach ==
  /\ view.pan \in (0 - MaxPan(view)) .. MaxPan(view)
  /\ view.applied = view.pan \/ view.resized
  /\ view.fit /\ view.width # 0 => view.scale = FitScale(view)

-----------------------------------------------------------------------------
Init == BlockInit /\ DiagramInit /\ LiveInit /\ ViewInit
Next == FigureNext \/ DiagramNext \/ LiveNext \/ ViewNext
Spec == Init /\ [][Next]_vars
=============================================================================
