------------------------------ MODULE EditUnits ------------------------------
(***************************************************************************)
(* parseEditUnits.js: how the WYSIWYG editor cuts a memo into the units it *)
(* shows.  Lines are told apart by what the code's patterns tell of them.  *)
(* Blocks found line by line come first, then those Asciidoctor names; what*)
(* is contained in another goes, footnotes and attributions are attached,  *)
(* and the lines nobody claimed fill the gaps.  A unit's text is the       *)
(* sequence of its source lines' numbers, negative where the code writes   *)
(* the line anew instead of copying it.                                    *)
(***************************************************************************)
EXTENDS Integers, Sequences, FiniteSets, FiniteSetsExt, SequencesExt

CONSTANTS
  Sources,       \* the texts of this instance
  MaxStemBody    \* MAX_STEM_BLOCK_BODY_LINES

Attrs == {"[attr]", "[source]", "[quote]", "[stem]", "[NOTE]"}
Delims == {"----", "....", "++++", "____"}
Kinds == Attrs \cup Delims \cup
  {"", "text", "* item", "term::", "= title", "== head", "== *head*", ".title", "|===",
   "<1> note", "-- by", "NOTE:", "\"said\"", "image::"}

SourcesAssumption == Sources \subseteq Seq(Kinds) /\ MaxStemBody \in Nat

VARIABLES
  src,     \* the text
  units,   \* the units so far
  stage    \* what has been done

vars == <<src, units, stage>>
Stages == <<"read", "scanned", "visited", "deduped", "attached", "filled", "whole", "done">>

TypeOK ==
  /\ src \in Seq(Kinds)
  /\ units \subseteq [from : 1 .. Len(src) + 1, to : 0 .. Len(src) + 1,
                     text : Seq((0 - Len(src)) .. Len(src))]
  /\ stage \in ToSet(Stages)

-----------------------------------------------------------------------------
\* Blocks found line by line

Blank(s, i) == s[i] = ""

\* The first of the lines of these kinds that stand right above line i, or i.
Above(s, i, kinds) == Min({j \in 1 .. i : \A k \in j .. i - 1 : s[k] \in kinds})

\* The line that closes what line i opens with the same delimiter, or the last.
Close(s, i) ==
  LET same == {j \in i + 1 .. Len(s) : s[j] = s[i]}
  IN  IF same = {} THEN Len(s) ELSE Min(same)

DelimitedStart(s, i) == Above(s, i, Attrs \cup {".title"})

DelimitedRanges(s) ==
  LET Scan[i \in 1 .. Len(s) + 1] ==
        IF i > Len(s) THEN {}
        ELSE IF s[i] \in Delims THEN {<<DelimitedStart(s, i), Close(s, i)>>} \cup Scan[Close(s, i) + 1]
        ELSE Scan[i + 1]
  IN  Scan[1]

TableStart(s, i) == Above(s, i, (Attrs \ {"[source]"}) \cup {".title"})

TableRanges(s) ==
  LET Scan[i \in 1 .. Len(s) + 1] ==
        IF i > Len(s) THEN {}
        ELSE IF s[i] = "|===" THEN {<<TableStart(s, i), Close(s, i)>>} \cup Scan[Close(s, i) + 1]
        ELSE Scan[i + 1]
  IN  Scan[1]

\* A [stem] line at i, then ++++, a body and ++++: the range, or none.
StemAt(s, i) ==
  LET ends == {j \in i + 2 .. Len(s) : s[j] \in {"++++", "[stem]", ".title"}}
      close == Min(ends)
      start == IF i > 1 /\ s[i - 1] = ".title" THEN i - 1 ELSE i
  IN  IF /\ s[i] = "[stem]" /\ i < Len(s) /\ s[i + 1] = "++++"
         /\ ends # {} /\ s[close] = "++++" /\ close - i - 2 <= MaxStemBody
         /\ \E j \in i + 2 .. close - 1 : ~Blank(s, j)
      THEN {<<start, close>>} ELSE {}

StemRanges(s) ==
  LET Scan[i \in 1 .. Len(s) + 1] ==
        IF i > Len(s) THEN {}
        ELSE StemAt(s, i) \cup Scan[IF StemAt(s, i) = {} THEN i + 1
                                    ELSE Max({r[2] : r \in StemAt(s, i)}) + 1]
  IN  Scan[1]

Inside(i, ranges) == \E r \in ranges : r[1] <= i /\ i <= r[2]

HardStops == {"= title", "== head", "== *head*", "|===", "NOTE:", "image::", ".title"}
             \cup Delims \cup Attrs

\* A [source] line and the text below it, without delimiters.
SourceParagraphAt(s, i) ==
  LET start == IF i > 1 /\ s[i - 1] = ".title" THEN i - 1 ELSE i
      below == {j \in i + 1 .. Len(s) : ~Blank(s, j)}
      first == Min(below)
      stops == {j \in first + 1 .. Len(s) :
                  Blank(s, j) \/ Inside(j, DelimitedRanges(s)) \/ s[j] \in HardStops}
  IN  IF s[i] = "[source]" /\ ~Inside(i, DelimitedRanges(s)) /\ below # {}
         /\ s[first] \notin Delims
      THEN {<<start, IF stops = {} THEN Len(s) ELSE Min(stops) - 1>>} ELSE {}

SourceParagraphRanges(s) ==
  LET Scan[i \in 1 .. Len(s) + 1] ==
        IF i > Len(s) THEN {}
        ELSE LET here == SourceParagraphAt(s, i)
             IN  here \cup Scan[IF here = {} THEN i + 1 ELSE Max({r[2] : r \in here}) + 1]
  IN  Scan[1]

Protected(s) == DelimitedRanges(s) \cup TableRanges(s) \cup StemRanges(s) \cup SourceParagraphRanges(s)
InsideProtected(s, a, b) == \E r \in Protected(s) : r[1] <= a /\ b <= r[2]

\* Mutated: the slice takes the line behind its end too.
LinesPastEnd(a, b) == [k \in 1 .. (IF b < a THEN 0 ELSE b - a + 2) |-> a + k - 1]
Lines(a, b) == [k \in 1 .. (IF b < a THEN 0 ELSE b - a + 1) |-> a + k - 1]
Slice(s, a, b) == [from |-> a, to |-> b, text |-> Lines(a, IF b > Len(s) THEN Len(s) ELSE b)]

-----------------------------------------------------------------------------
\* The blocks Asciidoctor finds: what kind, from which line, how many lines.

Breaks == {""} \cup Attrs \cup Delims \cup {"|==="}
Markers == {"* item", "term::"}

\* The last line of the text that begins at line i.
TextEnd(s, i, stops) ==
  LET ends == {j \in i + 1 .. Len(s) : s[j] \in Breaks \cup stops}
  IN  IF ends = {} THEN Len(s) ELSE Min(ends) - 1

\* The last item of the list that begins at line i; items may be set apart.
LastItem(s, i) ==
  LET Next(j) == {k \in TextEnd(s, j, Markers) + 1 .. Len(s) :
                    /\ s[k] = s[i]
                    /\ \A l \in TextEnd(s, j, Markers) + 1 .. k - 1 : Blank(s, l)}
      Last_[j \in 1 .. Len(s)] == IF Next(j) = {} THEN j ELSE Last_[Min(Next(j))]
  IN  Last_[i]

\* The attribute line that is in force at line i.
Style(s, i) ==
  LET over == {j \in 1 .. i - 1 : s[j] \in Attrs
                 /\ \A k \in j + 1 .. i - 1 : s[k] \in Attrs \cup {"", ".title"}}
  IN  IF over = {} THEN "none" ELSE s[Max(over)]

\* The block that begins at line i, which is not blank and no attribute.
BlockAt(s, i) ==
  LET end == TextEnd(s, i, {})
      To(ctx, last) == [ctx |-> ctx, line |-> i, last |-> last, style |-> Style(s, i)]
  IN  CASE s[i] = "____" -> To("quote", Close(s, i))
        [] s[i] \in (Delims \ {"____"}) \cup {"|==="} -> To("delimited", Close(s, i))
        [] s[i] \in {"== head", "== *head*"} -> To("section", i)
        [] s[i] = "* item" -> To("list", LastItem(s, i))
        [] s[i] = "term::" -> To("dlist", LastItem(s, i))
        [] s[i] = "<1> note" -> To("colist", TextEnd(s, i, Kinds \ {"<1> note"}))
        [] s[i] = "image::" -> To("image", i)
        [] s[i] = "NOTE:" \/ Style(s, i) = "[NOTE]" -> To("admonition", end)
        [] Style(s, i) = "[source]" -> To("listing", end)
        [] Style(s, i) = "[quote]" \/ (s[i] = "\"said\"" /\ end = i + 1 /\ s[end] = "-- by")
             -> To("quote", end)
        [] OTHER -> To("paragraph", end)

\* What a list leaves for the next block begins behind its last item's text.
After(s, b) ==
  IF b.ctx \in {"list", "dlist"} THEN TextEnd(s, b.last, Markers) + 1 ELSE b.last + 1

\* The document header is no block.
BodyStart(s) ==
  IF s = <<>> \/ s[1] # "= title" THEN 1
  ELSE LET ends == {i \in 1 .. Len(s) : Blank(s, i)}
       IN  IF ends = {} THEN Len(s) + 1 ELSE Min(ends)

Blocks(s) ==
  LET Scan[i \in 1 .. Len(s) + 1] ==
        IF i > Len(s) THEN <<>>
        ELSE IF s[i] \in {"", ".title"} \cup Attrs THEN Scan[i + 1]
        ELSE <<BlockAt(s, i)>> \o Scan[After(s, BlockAt(s, i))]
  IN  Scan[BodyStart(s)]

-----------------------------------------------------------------------------
\* Their units

\* A heading's unit holds the converted title.
SectionUnit(s, b) ==
  {[from |-> b.line, to |-> b.line,
    text |-> <<IF s[b.line] = "== *head*" THEN 0 - b.line ELSE b.line>>]}

ListStart(s, i) == Above(s, i, Attrs \cup {".title"})

ParagraphUnit(s, b) == {Slice(s, ListStart(s, b.line), b.last)}
ListingUnit(s, b) == {Slice(s, ListStart(s, b.line), b.last)}
\* listBlockEndLine: up to the line of the last item.
ListUnit(s, b) == {Slice(s, ListStart(s, b.line), b.last)}

DlistContent == {"term::", "image::", "* item", ".title", "...."} \cup Attrs

\* dlistEndLine: on to the first line that stops a list and is not of one.
DlistEnd(s, start) ==
  LET Runs(j) == \/ Blank(s, j) \/ s[j] \in DlistContent
                 \/ s[j] \notin HardStops
                      /\ \E k \in start .. j - 1 : s[k] \in DlistContent
      stops == {j \in start .. Len(s) : ~Runs(j)}
  IN  IF stops = {} THEN Len(s) ELSE IF Min(stops) = start THEN start ELSE Min(stops) - 1

DlistUnit(s, b) ==
  LET start == Above(s, b.line, Attrs) IN {Slice(s, start, DlistEnd(s, start))}

\* quoteAttributionEndLine.
WithAttribution(s, end) == IF end < Len(s) /\ s[end + 1] = "-- by" THEN end + 1 ELSE end

\* quoteUnitFromNode: delimited, in quotation marks, or marked [quote].
QuoteUnit(s, b) ==
  LET start == IF b.line > 1 /\ s[b.line - 1] = "[quote]" THEN b.line - 1 ELSE b.line
      said == {i \in start .. Len(s) : s[i] = "\"said\""}
      end == IF s[start] = "\"said\"" THEN Min(said) ELSE b.last
  IN  {Slice(s, start, WithAttribution(s, end))}

AfterQuote(bs, k) == k > 1 /\ bs[k - 1].ctx = "quote"

\* admonitionUnitFromNode: [NOTE] above, or NOTE: before the text, which takes a
\* line of its own when there are more.
AdmonitionUnit(s, b) ==
  IF b.style = "[NOTE]" /\ b.line > 1 /\ s[b.line - 1] = "[NOTE]"
  THEN {Slice(s, b.line - 1, b.last)}
  ELSE IF b.last > b.line
  THEN {[from |-> b.line, to |-> b.last + 1, text |-> Lines(b.line, b.last)]}
  ELSE {Slice(s, b.line, b.line)}

\* visitBlocks.  A block of its own kind that has no source of its own, like an
\* image, is left to the gaps.
VisitedUnit(s, bs, k) ==
  LET b == bs[k]
      us == CASE b.ctx = "section" -> SectionUnit(s, b)
              [] b.ctx = "list" -> ListUnit(s, b)
              [] b.ctx = "dlist" -> DlistUnit(s, b)
              [] b.ctx = "quote" -> QuoteUnit(s, b)
              [] b.ctx = "admonition" -> AdmonitionUnit(s, b)
              [] b.ctx = "listing" -> ListingUnit(s, b)
              [] b.ctx = "paragraph" -> IF s[b.line] = "-- by" /\ AfterQuote(bs, k) THEN {}
                                        ELSE ParagraphUnit(s, b)
              [] OTHER -> {}
  IN  {u \in us : ~InsideProtected(s, u.from, u.to)}

-----------------------------------------------------------------------------
\* Cutting a text

Init == src \in Sources /\ units = {} /\ stage = "read"

\* An empty text is one empty unit.
Empty ==
  /\ stage = "read" /\ \A i \in DOMAIN src : Blank(src, i)
  /\ units' = {[from |-> 1, to |-> Len(src), text |-> <<>>]}
  /\ stage' = "done" /\ UNCHANGED src

\* Mutated: tables are not looked for.
ScannedNoTables(s) == DelimitedRanges(s) \cup StemRanges(s) \cup SourceParagraphRanges(s)
Scanned(s) == Protected(s)

Scan ==
  /\ stage = "read" /\ \E i \in DOMAIN src : ~Blank(src, i)
  /\ units' = {Slice(src, r[1], r[2]) : r \in Scanned(src)}
  /\ stage' = "scanned" /\ UNCHANGED src

Visit ==
  /\ stage = "scanned"
  /\ units' = units
       \cup (IF src[1] = "= title" /\ ~InsideProtected(src, 1, 1) THEN {Slice(src, 1, 1)} ELSE {})
       \cup UNION {VisitedUnit(src, Blocks(src), k) : k \in DOMAIN Blocks(src)}
  /\ stage' = IF units' = {} THEN "whole" ELSE "visited"
  /\ UNCHANGED src

\* dedupeContainedUnits: sorted by start, then end, what an earlier unit contains goes.
WithoutContained(us) ==
  {u \in us : ~\E e \in us : e.from < u.from /\ u.to <= e.to}

Dedupe ==
  /\ stage = "visited"
  /\ units' = WithoutContained(units) /\ stage' = "deduped" /\ UNCHANGED src

\* attachSourceCalloutsToListingUnits.
WithCallouts(s, u) ==
  LET stops == {j \in u.to + 1 .. Len(s) : s[j] # "<1> note"}
      end == IF stops = {} THEN Len(s) ELSE Min(stops) - 1
  IN  IF u.text # <<>> /\ Last(u.text) > 0 /\ s[Last(u.text)] = "----" /\ end > u.to
      THEN Slice(s, u.from, end) ELSE u

\* attachQuoteAttributionsToQuoteUnits.
WithBy(s, u) ==
  IF s[u.from] \in {"\"said\"", "____", "[quote]"} /\ WithAttribution(s, u.to) # u.to
  THEN Slice(s, u.from, u.to + 1) ELSE u

Attach ==
  /\ stage = "deduped"
  /\ LET called == WithoutContained({WithCallouts(src, u) : u \in units})
     IN  units' = WithoutContained({WithBy(src, u) : u \in called})
  /\ stage' = "attached" /\ UNCHANGED src

\* appendLineRangeUnits: the runs of lines between a and b that no block claims.
GapUnits(s, a, b) ==
  LET Free(i) == i \in a .. b /\ ~Blank(s, i) /\ ~Inside(i, Protected(s))
  IN  {Slice(s, r[1], r[2]) : r \in
        {q \in (a .. b) \X (a .. b) : q[1] <= q[2] /\ ~Free(q[1] - 1) /\ ~Free(q[2] + 1)
                                      /\ \A i \in q[1] .. q[2] : Free(i)}}

\* Where the gap before unit u begins.
Cursor(us, u) == Max({e.to + 1 : e \in {e \in us : e.from < u.from}} \cup {1})

\* Mutated: the lines behind the last unit are left out.
GapsBetween(s, us) == UNION {GapUnits(s, Cursor(us, u), u.from - 1) : u \in us}
\* fillGapUnits.
Gaps(s, us) ==
  UNION {GapUnits(s, Cursor(us, u), u.from - 1) : u \in us}
    \cup GapUnits(s, Max({u.to + 1 : u \in us}), Len(s))

Fill ==
  /\ stage = "attached"
  /\ units' = units \cup Gaps(src, units) /\ stage' = "filled" /\ UNCHANGED src

\* appendTrailingUnits: blank lines at the end, but for one, are an empty unit.
Trail ==
  LET end == Max({u.to : u \in units}) IN
  /\ stage = "filled"
  /\ units' = units \cup
       IF end + 1 < Len(src)
       THEN {[from |-> end + 1, to |-> Len(src) - 1, text |-> <<>>]} ELSE {}
  /\ stage' = "done" /\ UNCHANGED src

\* Nothing was found: the text is one unit.
Whole ==
  /\ stage = "whole" /\ units' = {Slice(src, 1, Len(src))}
  /\ stage' = "done" /\ UNCHANGED src

Next == Empty \/ Scan \/ Visit \/ Whole \/ Dedupe \/ Attach \/ Fill \/ Trail
Spec == Init /\ [][Next]_vars

-----------------------------------------------------------------------------
Cut == stage = "done"
Of(u) == ToSet(u.text) \cup {0 - i : i \in ToSet(u.text)}

\* No line gets lost: whatever Asciidoctor makes of a text, every line that is
\* not blank is in some unit, and so in what the editor saves (fillGapUnits).
EveryLineKept ==
  Cut => \A i \in DOMAIN src : Blank(src, i) \/ \E u \in units : i \in Of(u)

\* Line i stands right behind a note of several lines.
BehindNote(i) ==
  \E k \in DOMAIN Blocks(src) :
    LET b == Blocks(src)[k] IN b.ctx = "admonition" /\ b.last > b.line /\ i = b.last + 1

\* The same but for the line right behind a note of several lines.
OtherLinesKept ==
  Cut => \A i \in DOMAIN src : Blank(src, i) \/ BehindNote(i) \/ \E u \in units : i \in Of(u)

\* What is between delimiters, and what Asciidoctor sees as one text, is edited as
\* one, whatever attributes, footnotes and other blocks stand around it.  A
\* block of the one line right behind a note of several lines is its victim.
BlocksStayWhole ==
  Cut => /\ \A r \in DelimitedRanges(src) \cup TableRanges(src) :
              BehindNote(r[2]) \/ \E u \in units : r[1] .. r[2] \subseteq Of(u)
         /\ \A k \in DOMAIN Blocks(src) :
              LET b == Blocks(src)[k] IN
              b.ctx \in {"paragraph", "listing", "admonition", "section"}
                   /\ src[b.line] # "-- by"
                => BehindNote(b.line) \/ \E u \in units : b.line .. b.last \subseteq Of(u)
=============================================================================
