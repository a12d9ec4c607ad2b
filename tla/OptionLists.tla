---------------------------- MODULE OptionLists ----------------------------
(***************************************************************************)
(* Three fields with a list of options below them that the keyboard walks  *)
(* through: the tags of the sidebar's search (memo_tag_search), its        *)
(* directories (memo_directory_path_search) and the snippets of the source *)
(* pane (memo_body_editor).  A list that closes keeps its options.         *)
(***************************************************************************)
EXTENDS Integers, Sequences, SequencesExt

CONSTANTS
  Texts,       \* what a user types, normalised; "" is among them
  TagOptions,  \* the tags, in order
  Named,       \* Named[o]: the name of a tag, a text
  PathOptions, \* the directories, in order
  Display,     \* Display[p]: the path that is shown of a directory, a text
  Snippets,    \* the snippets, in order
  Finds,       \* Finds[t]: the options whose words contain t
  MaxVisible   \* MAX_VISIBLE_OPTIONS

ListsAssumption ==
  /\ "" \in Texts /\ MaxVisible \in Nat \ {0}
  /\ \A o \in ToSet(TagOptions) : Named[o] \in Texts
  /\ \A p \in ToSet(PathOptions) : Display[p] \in Texts

VARIABLES
  tags,      \* the tag field: its text, its list and the tags chosen
  sentTags,  \* the last search for tags: the text left in the field, and its tags
  paths,     \* the directory field: its text, its list and the hidden field
  sentPath,  \* the last search for a directory: the text shown, and the directory sent
  snips,     \* the snippet dialog: its text and its list
  inserted,  \* the last snippet inserted, with the text it was found by
  leaving    \* the fields that were left a moment ago and will close their list

vars == <<tags, sentTags, paths, sentPath, snips, inserted, leaving>>

Ids(s) == ToSet(s)
Lists(os) == [shown : SeqOf(Ids(os), Len(os)), active : 0 .. Len(os), open : BOOLEAN]
Targets == Ids(PathOptions) \cup Texts

TypeOK ==
  /\ tags.text \in Texts /\ tags.list \in Lists(TagOptions) /\ tags.chosen \in Seq(Ids(TagOptions))
  /\ paths.text \in Texts /\ paths.list \in Lists(PathOptions) /\ paths.hidden \in Targets
  /\ snips.text \in Texts /\ snips.list \in Lists(Snippets)
  /\ sentTags \in [text : Texts, tags : Seq(Ids(TagOptions))]
  /\ sentPath \in [text : Texts, path : Targets]
  /\ inserted \in {<<>>} \cup (Ids(Snippets) \X Texts) /\ leaving \subseteq {"tags", "paths"}

-----------------------------------------------------------------------------
\* A list

NoList == [shown |-> <<>>, active |-> 0, open |-> FALSE]
AtMost(s, n) == IF Len(s) > n THEN SubSeq(s, 1, n) ELSE s

\* filterOptions: an empty field lists nothing.
Listed(os, t, n) ==
  LET found == IF t = "" THEN <<>> ELSE AtMost(SelectSeq(os, LAMBDA o : o \in Finds[t]), n)
  IN  [shown |-> found, active |-> 0, open |-> found # <<>>]

\* close, Escape: what was listed stays behind.
Closed(l) == [l EXCEPT !.active = 0, !.open = FALSE]

\* ArrowDown and ArrowUp: around the end, also in a list that is closed.  With
\* nothing active ArrowUp starts one above the last.
Walked(l, step) ==
  IF l.shown = <<>> THEN l
  ELSE [l EXCEPT !.active = ((l.active - 1 + step + Len(l.shown)) % Len(l.shown)) + 1]

Steps == {-1, 1}

Init ==
  /\ tags = [text |-> "", list |-> NoList, chosen |-> <<>>]
  /\ paths = [text |-> "", list |-> NoList, hidden |-> ""]
  /\ snips = [text |-> "", list |-> NoList]
  /\ sentTags = [text |-> "", tags |-> <<>>] /\ sentPath = [text |-> "", path |-> ""]
  /\ inserted = <<>> /\ leaving = {}

-----------------------------------------------------------------------------
\* Tags

Unchosen == SelectSeq(TagOptions, LAMBDA o : o \notin Ids(tags.chosen))

TypeTag(t) ==
  /\ tags' = [tags EXCEPT !.text = t, !.list = Listed(Unchosen, t, Len(TagOptions))]
  /\ UNCHANGED <<sentTags, paths, sentPath, snips, inserted, leaving>>

WalkTags(step) ==
  /\ tags' = [tags EXCEPT !.list = Walked(@, step)]
  /\ UNCHANGED <<sentTags, paths, sentPath, snips, inserted, leaving>>

EscapeTags ==
  /\ tags' = [tags EXCEPT !.list = Closed(@)]
  /\ UNCHANGED <<sentTags, paths, sentPath, snips, inserted, leaving>>

\* Mutated: a tag that is chosen is added again.
AddedTwice(w, o) == [w EXCEPT !.chosen = Append(@, o), !.text = ""]
\* addTag
WithTag(w, o) ==
  IF o \in Ids(w.chosen) THEN w ELSE [w EXCEPT !.chosen = Append(@, o), !.text = ""]

\* submit: a text that is left must be the name of one tag, which is added.
Submitted(w) ==
  LET exact == {o \in Ids(Unchosen) : Named[o] = w.text}
      whole == IF w.text = "" THEN w ELSE WithTag(w, CHOOSE o \in exact : TRUE)
  IN  IF w.text # "" /\ ~(\E o \in exact : exact = {o}) THEN tags' = w /\ UNCHANGED sentTags
      ELSE tags' = whole /\ sentTags' = [text |-> whole.text, tags |-> whole.chosen]

\* choose: a click on an option, or Enter on the one that is active.
ChooseTag ==
  /\ \E o \in Ids(tags.list.shown) :
       /\ tags.list.open \/ (tags.list.active > 0 /\ o = tags.list.shown[tags.list.active])
       /\ Submitted([WithTag(tags, o) EXCEPT !.list = Closed(@)])
  /\ UNCHANGED <<paths, sentPath, snips, inserted, leaving>>

\* Enter with no option active.
SubmitTags ==
  /\ tags.list.active = 0 /\ Submitted(tags)
  /\ UNCHANGED <<paths, sentPath, snips, inserted, leaving>>

ClearTags ==
  /\ Submitted([text |-> "", list |-> Closed(tags.list), chosen |-> <<>>])
  /\ UNCHANGED <<paths, sentPath, snips, inserted, leaving>>

-----------------------------------------------------------------------------
\* Directories

\* Mutated: the directory of any option that is found.
AnyFound(t) ==
  LET same == SelectSeq(PathOptions, LAMBDA p : p \in Finds[t])
  IN  IF same = <<>> THEN t ELSE Head(same)
\* syncHiddenInput: the first directory that is shown like the text, or the text.
Hidden(t) ==
  LET same == SelectSeq(PathOptions, LAMBDA p : Display[p] = t)
  IN  IF same = <<>> THEN t ELSE Head(same)

TypePath(t) ==
  /\ paths' = [text |-> t, hidden |-> Hidden(t), list |-> Listed(PathOptions, t, MaxVisible)]
  /\ UNCHANGED <<tags, sentTags, sentPath, snips, inserted, leaving>>

FocusPath ==
  /\ paths' = [paths EXCEPT !.list = Listed(PathOptions, paths.text, MaxVisible)]
  /\ UNCHANGED <<tags, sentTags, sentPath, snips, inserted, leaving>>

WalkPaths(step) ==
  /\ paths' = [paths EXCEPT !.list = Walked(@, step)]
  /\ UNCHANGED <<tags, sentTags, sentPath, snips, inserted, leaving>>

EscapePaths ==
  /\ paths' = [paths EXCEPT !.list = Closed(@)]
  /\ UNCHANGED <<tags, sentTags, sentPath, snips, inserted, leaving>>

\* prepareSubmit: the hidden field is looked up once more.
Prepared(w) ==
  /\ paths' = [w EXCEPT !.hidden = Hidden(w.text)]
  /\ sentPath' = [text |-> w.text, path |-> Hidden(w.text)]

ChoosePath ==
  /\ \E p \in Ids(paths.list.shown) :
       /\ paths.list.open \/ (paths.list.active > 0 /\ p = paths.list.shown[paths.list.active])
       /\ Prepared([text |-> Display[p], hidden |-> p, list |-> Closed(paths.list)])
  /\ UNCHANGED <<tags, sentTags, snips, inserted, leaving>>

SubmitPath ==
  /\ paths.list.active = 0 /\ Prepared(paths)
  /\ UNCHANGED <<tags, sentTags, snips, inserted, leaving>>

-----------------------------------------------------------------------------
\* closeLater: the list closes 150 ms after its field was left, also one that
\* was entered again.

LeaveField(f) ==
  /\ leaving' = leaving \cup {f}
  /\ UNCHANGED <<tags, sentTags, paths, sentPath, snips, inserted>>

CloseLater(f) ==
  /\ f \in leaving /\ leaving' = leaving \ {f}
  /\ tags' = IF f = "tags" THEN [tags EXCEPT !.list = Closed(@)] ELSE tags
  /\ paths' = IF f = "paths" THEN [paths EXCEPT !.list = Closed(@)] ELSE paths
  /\ UNCHANGED <<sentTags, sentPath, snips, inserted>>

-----------------------------------------------------------------------------
\* Snippets

\* An empty field lists them all, and the first one is active.
ListedSnippets(t) ==
  LET found == SelectSeq(Snippets, LAMBDA s : t = "" \/ s \in Finds[t])
  IN  [shown |-> found, active |-> IF found = <<>> THEN 0 ELSE 1, open |-> TRUE]

OpenSnippets ==
  /\ ~snips.list.open /\ snips' = [text |-> "", list |-> ListedSnippets("")]
  /\ UNCHANGED <<tags, sentTags, paths, sentPath, inserted, leaving>>

\* Mutated: the option that was active stays so.
KeptActive(t) == [ListedSnippets(t) EXCEPT !.active = snips.list.active]
Refiltered(t) == ListedSnippets(t)

TypeSnippet(t) ==
  /\ snips.list.open /\ t # snips.text /\ snips' = [text |-> t, list |-> Refiltered(t)]
  /\ UNCHANGED <<tags, sentTags, paths, sentPath, inserted, leaving>>

\* The arrows, Home, End, and the pointer; the ends hold.
ActivateSnippet(i) ==
  /\ snips.list.open /\ i \in DOMAIN snips.list.shown
  /\ snips' = [snips EXCEPT !.list.active = i]
  /\ UNCHANGED <<tags, sentTags, paths, sentPath, inserted, leaving>>

ChooseSnippet ==
  /\ snips.list.open /\ snips.list.active \in DOMAIN snips.list.shown
  /\ snips' = [snips EXCEPT !.list.open = FALSE]
  /\ inserted' = <<snips.list.shown[snips.list.active], snips.text>>
  /\ UNCHANGED <<tags, sentTags, paths, sentPath, leaving>>

CloseSnippets ==
  /\ snips.list.open /\ snips' = [snips EXCEPT !.list.open = FALSE]
  /\ UNCHANGED <<tags, sentTags, paths, sentPath, inserted, leaving>>

TagNext ==
  \/ \E t \in Texts : TypeTag(t)
  \/ \E s \in Steps : WalkTags(s)
  \/ EscapeTags \/ ChooseTag \/ SubmitTags \/ ClearTags \/ LeaveField("tags") \/ CloseLater("tags")

PathNext ==
  \/ \E t \in Texts : TypePath(t)
  \/ \E s \in Steps : WalkPaths(s)
  \/ FocusPath \/ EscapePaths \/ ChoosePath \/ SubmitPath \/ LeaveField("paths") \/ CloseLater("paths")

SnippetNext ==
  \/ \E t \in Texts : TypeSnippet(t)
  \/ \E i \in DOMAIN Snippets : ActivateSnippet(i)
  \/ OpenSnippets \/ ChooseSnippet \/ CloseSnippets

\* The three share nothing.
Next == TagNext \/ PathNext \/ SnippetNext

Spec == Init /\ [][Next]_vars

-----------------------------------------------------------------------------
\* However typing, walking, choosing and late closing meet, a search is sent for
\* tags that are chosen once each, with no text left in the field that names
\* none; and for the directory that is shown as the text, when there is one.
SentIsShown ==
  /\ sentTags.text = "" /\ IsInjective(sentTags.tags)
  /\ \/ sentPath.path \in Ids(PathOptions) /\ Display[sentPath.path] = sentPath.text
     \/ sentPath.path = sentPath.text /\ \A p \in Ids(PathOptions) : Display[p] # sentPath.text

\* What is active is an option of its list, and found by the text in the field
\* unless the list is closed; in an open dialog of snippets one is active.
ActiveIsListed ==
  /\ \A l \in {tags.list, paths.list, snips.list} : l.active = 0 \/ l.active \in DOMAIN l.shown
  /\ tags.list.open /\ tags.text # "" => Ids(tags.list.shown) \subseteq Finds[tags.text] \ Ids(tags.chosen)
  /\ paths.list.open => Ids(paths.list.shown) \subseteq Finds[paths.text]
  /\ snips.list.open /\ snips.list.shown # <<>> => snips.list.active > 0
  /\ inserted # <<>> /\ inserted[2] # "" => inserted[1] \in Finds[inserted[2]]
=============================================================================
