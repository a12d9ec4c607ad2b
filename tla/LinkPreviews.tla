---------------------------- MODULE LinkPreviews ----------------------------
(***************************************************************************)
(* What the previews of a WYSIWYG document show in the place of links and  *)
(* pictures (wysiwyg.js with wiki_link_substitute, tsuzura_substitute):    *)
(* the titles of linked memos and the signed addresses of pictures are     *)
(* asked of the server, kept in a cache, and the units are drawn again     *)
(* when they come.  Of several requests of a kind only the latest counts,  *)
(* wherever on the page it was made.                                       *)
(***************************************************************************)
EXTENDS Naturals, Sequences, FiniteSets, SequencesExt

CONSTANTS
  Texts,       \* the texts of a unit: sequences of lines (a unit that is emptied is in EditorSession)
  Size,        \* the units of a document
  MaxAsked,    \* bound on the requests of a kind
  MaxRenders,  \* bound on the documents drawn
  MaxFaults    \* bound on requests refused, lost or made by the picture picker

PreviewsAssumption ==
  /\ {Size, MaxAsked, MaxRenders, MaxFaults} \subseteq Nat /\ Size > 0
  /\ \A t \in Texts : \A i \in DOMAIN t : t[i].is \in {"fence", "links", "pictures", "words"}

VARIABLES
  text,       \* the text of every unit
  source,     \* the text of every unit in the field that is saved; Nothing for no unit
  units,      \* how each unit is shown
  active,     \* activeSourceUnit, or 0
  rendering,  \* isRendering
  drawing,    \* which document is drawn: the units of one before are gone
  cache,      \* wikiLabelCache and tsuzuraCache
  seq,        \* fetchSeq of each kind
  flows,      \* what waits for answers
  faults

vars == <<text, source, units, active, rendering, drawing, cache, seq, flows, faults>>

Kinds == {"links", "pictures"}
Units == 1 .. Size
Documents == [Units -> Texts]
Nothing == <<[is |-> "nothing", name |-> ""]>>
Names == UNION {{t[i].name : i \in DOMAIN t} : t \in Texts}
Gone == [shown |-> "gone", of |-> <<>>, known |-> {}]
\* The text a flow was begun with: of a unit, or of the document.
Captured == Texts \cup {<<>>} \cup {FlattenSeq(d) : d \in Documents}
Requests == [Kinds -> 0 .. MaxAsked]
Flows == [kind : {"render", "close", "refresh", "again", "lost"}, unit : 0 .. Size, of : Captured,
          drawing : 0 .. MaxRenders, wait : Requests, wanted : [Kinds -> SUBSET Names]]

TypeOK ==
  /\ text \in Documents /\ source \in [Units -> Texts \cup {Nothing}]
  /\ units \in [Units -> [shown : {"gone", "preview", "editor"}, of : Texts \cup {<<>>}, known : SUBSET Names]]
  /\ active \in 0 .. Size /\ rendering \in BOOLEAN /\ drawing \in 0 .. MaxRenders
  /\ cache \in [Kinds -> SUBSET Names] /\ seq \in Requests /\ flows \subseteq Flows
  /\ faults \in 0 .. MaxFaults

-----------------------------------------------------------------------------
\* Texts

\* extractWikiLinkTargets, extractTsuzuraMediaIds: what stands between two
\* fences is code.
Outside(t) == {i \in DOMAIN t : Cardinality({j \in 1 .. i : t[j].is = "fence"}) % 2 = 0}
Wanted(k, t) == {t[i].name : i \in {j \in Outside(t) : t[j].is = k}}

Whole(d) == FlattenSeq(d)

\* A name that is not in the cache is shown as broken or missing.
KnownLinks(t, c) == Wanted("links", t) \cap c["links"]           \* substituteWikiLinksForPreview
KnownPictures(t, c) == Wanted("pictures", t) \cap c["pictures"]  \* substituteTsuzuraForPreview
Known(t, c) == KnownLinks(t, c) \cup KnownPictures(t, c)

\* renderUnitPreview
Preview(t, c) == [shown |-> "preview", of |-> t, known |-> Known(t, c)]

-----------------------------------------------------------------------------
\* Requests

\* ensureWikiLinkLabelsInCache, ensureTsuzuraUrlsInCache: only what is missing is
\* asked for, and nothing is asked when nothing is missing.
Missing(want, c) == [k \in Kinds |-> want[k] \ c[k]]
Numbers(missing) == [k \in Kinds |-> IF missing[k] = {} THEN 0 ELSE seq[k] + 1]

\* A flow that wants names begins with cache c.
Begin(others, kind, u, t, at, want, c) ==
  LET missing == Missing(want, c)
  IN  /\ \A k \in Kinds : Numbers(missing)[k] <= MaxAsked
      /\ flows' = others \cup {[kind |-> kind, unit |-> u, of |-> t, drawing |-> at,
                                wait |-> Numbers(missing), wanted |-> missing]}
      /\ seq' = [k \in Kinds |-> IF missing[k] = {} THEN seq[k] ELSE seq[k] + 1]

Both(links, pictures) == [k \in Kinds |-> IF k = "links" THEN links ELSE pictures]
WholeWants(d) == [k \in Kinds |-> Wanted(k, Whole(d))]
Waits(f) == f.wait # Both(0, 0)
\* Promises that are settled go on before the next event.
Quiet == \A f \in flows : Waits(f)
Empty == Both({}, {})

-----------------------------------------------------------------------------
\* renderFromSourceInternal: the caches and the editor are emptied, and the
\* units are drawn when both answers are here.
RenderBegun(d) ==
  /\ text' = d /\ units' = [u \in Units |-> Gone] /\ active' = 0 /\ rendering' = TRUE
  /\ drawing' = drawing + 1 /\ cache' = Empty
  /\ Begin(flows, "render", 0, <<>>, drawing + 1, WholeWants(d), Empty)

Init ==
  /\ text \in Documents /\ source = text /\ units = [u \in Units |-> Gone] /\ active = 0
  /\ rendering = TRUE /\ drawing = 0 /\ cache = Empty /\ faults = 0
  /\ LET wanted == [k \in Kinds |-> Wanted(k, Whole(text))]
         first == [k \in Kinds |-> IF wanted[k] = {} THEN 0 ELSE 1]
     IN  /\ seq = first
         /\ flows = {[kind |-> "render", unit |-> 0, of |-> <<>>, drawing |-> 0,
                      wait |-> first, wanted |-> wanted]}

\* Another document: undo, the draft of another tab, an answer of the AI; one
\* document is drawn at a time.
Render(d) ==
  /\ Quiet /\ ~rendering /\ active = 0 /\ drawing < MaxRenders /\ d # text
  /\ source' = d /\ RenderBegun(d) /\ UNCHANGED faults

\* fetchWikiLinkLabelsMap, fetchTsuzuraPreviewCache: the answer to a request that
\* is not the latest is dropped, and the flow goes on without it.
Answered(f, k) ==
  /\ Quiet /\ f.wait[k] > 0
  /\ cache' = IF f.wait[k] = seq[k] THEN [cache EXCEPT ![k] = @ \cup f.wanted[k]] ELSE cache
  /\ flows' = (flows \ {f}) \cup {[f EXCEPT !.wait[k] = 0, !.wanted[k] = {}]}
  /\ UNCHANGED <<text, source, units, active, rendering, drawing, seq, faults>>

Refused(f, k) ==
  /\ Quiet /\ f.wait[k] > 0 /\ faults < MaxFaults /\ faults' = faults + 1
  /\ flows' = (flows \ {f}) \cup {[f EXCEPT !.wait[k] = 0, !.wanted[k] = {}]}
  /\ UNCHANGED <<text, source, units, active, rendering, drawing, cache, seq>>

\* A request that does not reach the server ends the flow; what draws the
\* document ends with an editor that has no unit.
Lost(f, k) ==
  /\ Quiet /\ f.wait[k] > 0 /\ faults < MaxFaults /\ faults' = faults + 1
  /\ flows' = (flows \ {f}) \cup {[f EXCEPT !.kind = "lost", !.wait[k] = 0, !.wanted[k] = {}]}
  /\ rendering' = (rendering /\ f.kind # "render")
  /\ UNCHANGED <<text, source, units, active, drawing, cache, seq>>

\* Album details of the picture picker use the same number (tsuzura_picker).
PickerAsks ==
  /\ Quiet /\ faults < MaxFaults /\ seq["pictures"] < MaxAsked
  /\ faults' = faults + 1 /\ seq' = [seq EXCEPT !["pictures"] = @ + 1]
  /\ UNCHANGED <<text, source, units, active, rendering, drawing, cache, flows>>

-----------------------------------------------------------------------------
\* Flows that go on

\* The units are drawn; refreshWikiLabelPreviews asks again for what is missing:
\* links first, then pictures.
DrawDocument(f) ==
  /\ f.kind = "render" /\ ~Waits(f)
  /\ units' = [u \in Units |-> Preview(text[u], cache)] /\ rendering' = FALSE
  /\ Begin(flows \ {f}, "refresh", 0, Whole(text), drawing, Both(Wanted("links", Whole(text)), {}), cache)
  /\ UNCHANGED <<text, source, active, drawing, cache, faults>>

RefreshPictures(f) ==
  /\ f.kind = "refresh" /\ ~Waits(f)
  /\ Begin(flows \ {f}, "again", 0, <<>>, f.drawing, Both({}, Wanted("pictures", f.of)), cache)
  /\ UNCHANGED <<text, source, units, active, rendering, drawing, cache, faults>>

\* Units with a name that is known are drawn again, but for the one being edited.
RefreshUnits(f) ==
  /\ f.kind = "again" /\ ~Waits(f) /\ flows' = flows \ {f}
  /\ units' = [u \in Units |-> IF units[u].shown = "preview" /\ Known(text[u], cache) # {}
                               THEN Preview(text[u], cache) ELSE units[u]]
  /\ UNCHANGED <<text, source, active, rendering, drawing, cache, seq, faults>>

\* Mutated: the unit is drawn even when it was opened again.
DrawsAlways(f) == f.drawing = drawing
\* The unit is still in the page and is not being edited.
DrawsLater(f) == f.drawing = drawing /\ units[f.unit].shown # "editor"

\* The late drawing of a unit that was closed, with the text it had then.
DrawUnit(f) ==
  /\ f.kind = "close" /\ ~Waits(f) /\ flows' = flows \ {f}
  /\ units' = IF DrawsLater(f) THEN [units EXCEPT ![f.unit] = Preview(f.of, cache)] ELSE units
  /\ UNCHANGED <<text, source, active, rendering, drawing, cache, seq, faults>>

Forgotten(f) ==
  /\ f.kind = "lost" /\ ~Waits(f) /\ flows' = flows \ {f}
  /\ UNCHANGED <<text, source, units, active, rendering, drawing, cache, seq, faults>>

-----------------------------------------------------------------------------
\* The user

OpenUnit(u) ==
  /\ Quiet /\ ~rendering /\ active = 0 /\ units[u].shown = "preview"
  /\ active' = u /\ units' = [units EXCEPT ![u] = [shown |-> "editor", of |-> text[u], known |-> {}]]
  /\ UNCHANGED <<text, source, rendering, drawing, cache, seq, flows, faults>>

\* Mutated: the pictures of the unit alone are asked for.
UnitPictures(d, u) == Wanted("pictures", d[u])
\* The pictures of the whole document are asked for, and the links of the unit.
ClosePictures(d, u) == Wanted("pictures", Whole(d))

\* deactivateSourceUnit: the unit is drawn with what is known, and once more when
\* both answers are here.
CloseUnit(t) ==
  /\ Quiet /\ active # 0
  /\ LET d == [text EXCEPT ![active] = t]
     IN  /\ text' = d /\ source' = d
         /\ units' = [units EXCEPT ![active] = Preview(t, cache)]
         /\ Begin(flows, "close", active, t, drawing, Both(Wanted("links", t), ClosePictures(d, active)), cache)
  /\ active' = 0 /\ UNCHANGED <<rendering, drawing, cache, faults>>

\* flush: the document is put together from the units there are.
Flush ==
  /\ Quiet /\ ~rendering /\ active = 0
  /\ source' = [u \in Units |-> IF units[u].shown = "gone" THEN Nothing ELSE text[u]]
  /\ UNCHANGED <<text, units, active, rendering, drawing, cache, seq, flows, faults>>

Next ==
  \/ \E d \in Documents : Render(d)
  \/ \E f \in flows : \/ \E k \in Kinds : Answered(f, k) \/ Refused(f, k) \/ Lost(f, k)
                      \/ DrawDocument(f) \/ RefreshPictures(f) \/ RefreshUnits(f) \/ DrawUnit(f) \/ Forgotten(f)
  \/ PickerAsks \/ Flush
  \/ \E u \in Units : OpenUnit(u)
  \/ \E t \in Texts : CloseUnit(t)

Spec == Init /\ [][Next]_vars

-----------------------------------------------------------------------------
\* However late its answers come, a preview is never drawn over the unit in
\* which the user writes.
EditorStays == \A u \in Units : units[u].shown = "editor" <=> active = u

\* However many units are closed one after another, each overtaking the request
\* of the one before: when everything is answered, and neither a fault nor the
\* picker came between, every picture of the document has its address.
PicturesAreKnown ==
  faults = 0 /\ flows = {} /\ ~rendering => Wanted("pictures", Whole(text)) \subseteq cache["pictures"]

\* Showing links never changes what is saved.
TextIsKept == source = text
=============================================================================
