------------------------------ MODULE MCPages ------------------------------
(***************************************************************************)
(* The widgets of the pages, and the import of a calendar, on small        *)
(* instances, for TLC.  They share no state, so that whatever happens is   *)
(* seen in the steps of each one alone: a behaviour is of the one "part"   *)
(* names, and w1, w2, ... are its variables, in the order of its INSTANCE. *)
(***************************************************************************)
EXTENDS Integers, Sequences, FiniteSets, SequencesExt

CONSTANT Widgets     \* the widgets of this run

VARIABLES part, w1, w2, w3, w4, w5, w6, w7, w8, w9, w10, w11, w12, w13, w14, w15, w16, w17

PickerFound == [q \in {"", "a"} |-> IF q = "" THEN <<"m1", "m2">> ELSE <<"m2">>]
PickerTitles == [m \in {"m1", "m2"} |-> IF m = "m1" THEN "one" ELSE "two"]

\* A memo is edited and comes first, and one is deleted.
ListResults ==
  [q \in {"", "a"} |-> IF q = "" THEN {<<1, 2, 3, 4, 5>>, <<4, 1, 2, 3>>} ELSE {<<>>, <<1, 3, 5>>}]

ReferenceChars == [m \in {"m1", "m2"} |-> IF m = "m1" THEN 4 ELSE 2]

AttachedImages == [q \in {"", "a"} |-> IF q = "" THEN <<"i1", "i2", "i3">> ELSE <<"i3">>]
AttachedMedia == [i \in {"i1", "i2", "i3"} |-> IF i = "i3" THEN "p1" ELSE "m" \o i]
AttachedAlbums == [a \in {"A", "B"} |-> IF a = "A" THEN {"p1"} ELSE {"p2"}]

Answers == UNION {[1 .. n -> {"a", "b", "!"}] : n \in 0 .. 4}

OptionNames == [o \in {"t_a", "t_ab"} |-> IF o = "t_a" THEN "a" ELSE "ab"]
OptionPaths == [p \in {"d_ab", "d_ab2", "d_a"} |-> IF p = "d_a" THEN "a" ELSE "ab"]
OptionFinds ==
  [t \in {"", "a", "ab"} |->
     IF t = "a" THEN {"t_a", "t_ab", "d_a", "d_ab", "d_ab2", "s_ab", "s_a"}
     ELSE IF t = "ab" THEN {"t_ab", "d_ab", "d_ab2", "s_ab"} ELSE {}]

AlbumPhotos == [a \in {"a", "b"} |-> IF a = "a" THEN {"p", "q"} ELSE {"r"}]

Line(k, n) == [is |-> k, name |-> n]
UnitTexts ==
  {<<Line("pictures", "p"), Line("fence", ""), Line("links", "n"), Line("fence", "")>>,
   <<Line("links", "m")>>, <<Line("pictures", "q"), Line("links", "m")>>}

Few == {"", "text", "== head", "[attr]", "[source]", ".title", "----", "|===", "term::", "* item",
        "<1> note", "NOTE:", "-- by", "\"said\"", "[quote]", "____"}
Longer == {"", "text", "----", "[stem]", "++++"}
Sources == UNION {[1 .. n -> Few] : n \in 1 .. 3} \cup [1 .. 5 -> Longer]

\* The tree of a notebook: one move of three entries, and two moves that may overlap
Tree == INSTANCE NotebookTree WITH
  Ids <- {1, 2, 3}, Tabs <- {1}, Calls <- {1}, MaxPosition <- 2,
  row <- w1, view <- w2, drag <- w3, call <- w4, wrote <- w5, add <- w6, crossed <- w7

Trees == INSTANCE NotebookTree WITH
  Ids <- {1, 2}, Tabs <- {1}, Calls <- {1, 2}, MaxPosition <- 2,
  row <- w1, view <- w2, drag <- w3, call <- w4, wrote <- w5, add <- w6, crossed <- w7

\* Pickers of memos
Pickers == INSTANCE MemoPickers WITH
  Queries <- {"", "a"}, Found <- PickerFound, Titles <- PickerTitles, NoMemo <- "none",
  MaxCalls <- 2,
  kind <- w1, field <- w2, timer <- w3, calls <- w4, asked <- w5, failed <- w6, shown <- w7,
  active <- w8, open <- w9, closing <- w10, down <- w11, memo <- w12, posts <- w13

\* The list of memos in the sidebar
List == INSTANCE SidebarList WITH
  Queries <- {"", "a"}, Results <- ListResults, Page <- 2,
  found <- w1, text <- w2, waiting <- w3, heading <- w4, search <- w5, list <- w6, gone <- w7,
  count <- w8, failed <- w9

\* The widths of the sidebars, in units of 110 px
Bars == INSTANCE Sidebars WITH
  Windows <- {5, 7, 9, 12}, Kept <- {3, 5}, Steps <- {1}, Least <- 2, Narrow <- 7,
  MemoTop <- 5, AiTop <- 4,
  window <- w1, width <- w2, folded <- w3, dragging <- w4, shown <- w5, stored <- w6, cap <- w7

\* Themes and skins
Looks == INSTANCE Themes WITH
  Themes <- {"default", "dark"}, OwnThemes <- {"t1", "t2"}, Skins <- {"auto", "github"},
  OwnSkins <- {"s1"}, Contents <- {"c1", "c2"}, Default <- "default", Auto <- "auto",
  None <- "none", MaxEdits <- 3, MaxFaults <- 1,
  local <- w1, server <- w2, worn <- w3, draft <- w4, editing <- w5, timer <- w6, queue <- w7,
  patch <- w8, late <- w9, asked <- w10, pull <- w11, told <- w12, edits <- w13, faults <- w14

\* The page of a memo
Memo == INSTANCE MemoPage WITH
  Tags <- {"a", "A"}, Lower <- [t \in {"a", "A"} |-> "a"], Boxes <- {1}, Directories <- {"d", "e"},
  MaxCalls <- 3, MaxFaults <- 1,
  server <- w1, page <- w2, calls <- w3, sent <- w4, faults <- w5, doubt <- w6

\* The AI panel
Panel == INSTANCE AiPanel WITH
  Docs <- {<<"=", "a", "==", "a">>}, Answer <- "new", Roles <- {"main", "small"}, Role <- "main",
  None <- "none", MaxTurns <- 2, MaxEdits <- 2,
  editing <- w1, doc <- w2, caret <- w3, selected <- w4, include <- w5, history <- w6,
  sending <- w7, asked <- w8, inserting <- w9, message <- w10, timer <- w11, role <- w12,
  saved <- w13, options <- w14, refresh <- w15, turns <- w16, edits <- w17

\* Memos a chat refers to
References == INSTANCE ChatReferences WITH
  Memos <- {"m1", "m2"}, Queries <- {""}, Found <- [q \in {""} |-> <<"m1", "m2">>],
  Chars <- ReferenceChars, MaxRefs <- 2, MaxBody <- 3, MaxTotal <- 4, MaxEdits <- 2, MaxCalls <- 1,
  MaxFaults <- 1,
  refs <- w1, dialog <- w2, searches <- w3, known <- w4, version <- w5, saves <- w6, sync <- w7,
  turn <- w8, stored <- w9, alive <- w10, doubt <- w11, edits <- w12, faults <- w13

\* Pictures a chat shows
Attachments == INSTANCE ChatAttachments WITH
  Files <- {"f", "g"}, Images <- AttachedImages, Media <- AttachedMedia, Albums <- AttachedAlbums,
  Page <- 2, MaxEdits <- 4, MaxFaults <- 1,
  pending <- w1, chips <- w2, uploads <- w3, images <- w4, load <- w5, adding <- w6, photos <- w7,
  opening <- w8, edits <- w9, faults <- w10

\* Tools a chat may use
Tools == INSTANCE ChatTools WITH
  Tools <- {"t1", "t2"}, None <- {"no choice yet"}, MaxPages <- 2, MaxFaults <- 2,
  stored <- w1, enabled <- w2, offered <- w3, boxes <- w4, fetching <- w5, pages <- w6, faults <- w7

\* The voice of a chat
Voice == INSTANCE ChatVoice WITH
  Answers <- Answers, Marks <- {"!"}, MaxChars <- 2, MaxTakes <- 3, MaxWords <- 2,
  takes <- w1, current <- w2, pressed <- w3, field <- w4, typed <- w5, answer <- w6, reading <- w7

\* Search and replace; J stands for U+0130, whose small letter is an i with a dot above
Find == INSTANCE Search WITH
  Documents <- {<<"i", "I", "i">>, <<"J", "i">>}, Letters <- {"i", "I", "J", "."},
  Lower <- [c \in {"i", "I", "J", "."} |-> IF c = "J" THEN <<"i", ".">> ELSE IF c = "I" THEN <<"i">> ELSE <<c>>],
  Queries <- {<<>>, <<"I">>, <<"i", "i">>}, Replacements <- {<<"i", "i">>}, MaxText <- 3,
  text <- w1, cursor <- w2, shown <- w3, target <- w4, fields <- w5, index <- w6, counted <- w7,
  status <- w8, paneQuery <- w9

\* What is pasted, dropped and picked
Paste == INSTANCE Pasting WITH
  Files <- {"f"}, MaxFlows <- 2, MaxBatch <- 2, None <- 0 - 1,
  flows <- w1, pending <- w2, open <- w3, closing <- w4, ready <- w5, may <- w6, editor <- w7,
  handling <- w8, stored <- w9, body <- w10, missed <- w11

\* Lists of options
Lists == INSTANCE OptionLists WITH
  Texts <- {"", "a", "ab"}, TagOptions <- <<"t_a", "t_ab">>, Named <- OptionNames,
  PathOptions <- <<"d_ab", "d_ab2", "d_a">>, Display <- OptionPaths, Snippets <- <<"s_ab", "s_a">>,
  Finds <- OptionFinds, MaxVisible <- 2,
  tags <- w1, sentTags <- w2, paths <- w3, sentPath <- w4, snips <- w5, inserted <- w6,
  leaving <- w7

\* Menus
Popups == INSTANCE Menus WITH
  UserMenus <- {1, 2}, Options <- {1, 2, 3, 4}, Below <- <<0, 1, 2, 0>>, Unfolded <- {1},
  menus <- w1, picker <- w2, context <- w3, editor <- w4, connected <- w5

\* Dialogs
Dialogs == INSTANCE PageDialogs WITH
  Albums <- {"a", "b"}, Photos <- AlbumPhotos, MaxAsked <- 2,
  None <- "none",
  album <- w1, taken <- w2, asks <- w3, sug <- w4, running <- w5

\* Previews of links and pictures
Previews == INSTANCE LinkPreviews WITH
  Texts <- UnitTexts, Size <- 2, MaxAsked <- 2, MaxRenders <- 1, MaxFaults <- 1,
  text <- w1, source <- w2, units <- w3, active <- w4, rendering <- w5, drawing <- w6, cache <- w7,
  seq <- w8, flows <- w9, faults <- w10

\* What a text looks like, drawn beside it
Draw == INSTANCE Renderings WITH
  Texts <- {"a", "b"}, None <- "none", MaxOpens <- 2, MaxRenders <- 2, MaxFaults <- 1,
  Picture <- 2, Stages <- {3, 8}, One <- 2, MaxScale <- 5, Pointers <- {1, 2}, Places <- {0, 2},
  block <- w1, diagram <- w2, live <- w3, flows <- w4, view <- w5

\* The import of a calendar, and one beside another or beside a clearing
Calendar == INSTANCE CalendarSync WITH
  Events <- {"e", "f"}, Runs <- {1}, MaxVersion <- 3, MaxStarts <- 3, MaxFaults <- 1,
  google <- w1, account <- w2, memos <- w3, run <- w4, doubt <- w5, starts <- w6, faults <- w7

Calendars == INSTANCE CalendarSync WITH
  Events <- {"e"}, Runs <- {1, 2}, MaxVersion <- 2, MaxStarts <- 4, MaxFaults <- 0,
  google <- w1, account <- w2, memos <- w3, run <- w4, doubt <- w5, starts <- w6, faults <- w7

\* The cutting of a text into units
Cut == INSTANCE EditUnits WITH
  Sources <- Sources, MaxStemBody <- 3,
  src <- w1, units <- w2, stage <- w3

ASSUME PagesAssumption ==
  /\ Tree!NotebookAssumption /\ Trees!NotebookAssumption
  /\ Pickers!PickersAssumption
  /\ List!SidebarAssumption
  /\ Bars!SidebarsAssumption
  /\ Looks!ThemesAssumption
  /\ Memo!PageAssumption
  /\ Panel!PanelAssumption
  /\ References!ReferencesAssumption
  /\ Attachments!AttachmentsAssumption
  /\ Tools!ToolsAssumption
  /\ Voice!VoiceAssumption
  /\ Find!SearchAssumption
  /\ Paste!PastingAssumption
  /\ Lists!ListsAssumption
  /\ Popups!MenusAssumption
  /\ Dialogs!DialogsAssumption
  /\ Previews!PreviewsAssumption
  /\ Draw!RenderingsAssumption
  /\ Calendar!CalendarAssumption
  /\ Cut!SourcesAssumption

-----------------------------------------------------------------------------
\* The variables a widget has no use for: those from the n-th on.
From15 == <<w15, w16, w17>>
From14 == <<w14, From15>>
From12 == <<w12, w13, From14>>
From11 == <<w11, From12>>
From10 == <<w10, From11>>
From9 == <<w9, From10>>
From8 == <<w8, From9>>
From7 == <<w7, From8>>
From6 == <<w6, From7>>
From4 == <<w4, w5, From6>>
Unused15 == w15 = 0 /\ w16 = 0 /\ w17 = 0
Unused14 == w14 = 0 /\ Unused15
Unused12 == w12 = 0 /\ w13 = 0 /\ Unused14
Unused11 == w11 = 0 /\ Unused12
Unused10 == w10 = 0 /\ Unused11
Unused9 == w9 = 0 /\ Unused10
Unused8 == w8 = 0 /\ Unused9
Unused7 == w7 = 0 /\ Unused8
Unused6 == w6 = 0 /\ Unused7
Unused4 == w4 = 0 /\ w5 = 0 /\ Unused6

Init ==
  /\ part \in Widgets
  /\ \/ part = "tree" /\ Tree!Init /\ Unused8
     \/ part = "trees" /\ Trees!Init /\ Unused8
     \/ part = "pickers" /\ Pickers!Init /\ Unused14
     \/ part = "list" /\ List!Init /\ Unused10
     \/ part = "bars" /\ Bars!Init /\ Unused8
     \/ part = "looks" /\ Looks!Init /\ Unused15
     \/ part = "memo" /\ Memo!Init /\ Unused7
     \/ part = "panel" /\ Panel!Init
     \/ part = "references" /\ References!Init /\ Unused14
     \/ part = "attachments" /\ Attachments!Init /\ Unused11
     \/ part = "tools" /\ Tools!Init /\ Unused8
     \/ part \in {"recording", "reading"} /\ Voice!Init /\ (part = "recording" => w6 = <<>>) /\ Unused8
     \/ part = "find" /\ Find!Init /\ Unused10
     \/ part = "paste" /\ Paste!Init /\ Unused12
     \/ part \in {"tags", "paths", "snippets"} /\ Lists!Init /\ Unused8
     \/ part = "popups" /\ Popups!Init /\ Unused6
     \/ part \in {"albums", "suggestions"} /\ Dialogs!Init /\ Unused6
     \/ part = "previews" /\ Previews!Init /\ Unused11
     \/ /\ part \in {"figures", "diagrams", "live", "viewer"} /\ Draw!Init /\ Unused6
        /\ part # "figures" => w1.lang = "svg"
        /\ part # "diagrams" => w2.doc = "a"
        /\ part # "live" => w3.text = "a" /\ ~w3.enabled
        /\ part # "viewer" => w5.stage = 3
     \/ part = "calendar" /\ Calendar!Init /\ Unused8
     \/ part = "calendars" /\ Calendars!Init /\ Unused8
     \/ part = "cut" /\ Cut!Init /\ Unused4

TreeStep == part = "tree" /\ Tree!Next /\ UNCHANGED <<part, From8>>
TreesStep == part = "trees" /\ Trees!Next /\ UNCHANGED <<part, From8>>
PickersStep == part = "pickers" /\ Pickers!Next /\ UNCHANGED <<part, From14>>
ListStep == part = "list" /\ List!Next /\ UNCHANGED <<part, From10>>
BarsStep == part = "bars" /\ Bars!Next /\ UNCHANGED <<part, From8>>
LooksStep == part = "looks" /\ Looks!Next /\ UNCHANGED <<part, From15>>
MemoStep == part = "memo" /\ Memo!Next /\ UNCHANGED <<part, From7>>
PanelStep == part = "panel" /\ Panel!Next /\ UNCHANGED part
ReferencesStep == part = "references" /\ References!Next /\ UNCHANGED <<part, From14>>
AttachmentsStep == part = "attachments" /\ Attachments!Next /\ UNCHANGED <<part, From11>>
ToolsStep == part = "tools" /\ Tools!Next /\ UNCHANGED <<part, From8>>
RecordingStep == part = "recording" /\ Voice!RecordNext /\ UNCHANGED <<part, From8>>
ReadingStep == part = "reading" /\ Voice!ReadNext /\ UNCHANGED <<part, From8>>
FindStep == part = "find" /\ Find!Next /\ UNCHANGED <<part, From10>>
PasteStep == part = "paste" /\ Paste!Next /\ UNCHANGED <<part, From12>>
TagsStep == part = "tags" /\ Lists!TagNext /\ UNCHANGED <<part, From8>>
PathsStep == part = "paths" /\ Lists!PathNext /\ UNCHANGED <<part, From8>>
SnippetsStep == part = "snippets" /\ Lists!SnippetNext /\ UNCHANGED <<part, From8>>
PopupsStep == part = "popups" /\ Popups!Next /\ UNCHANGED <<part, From6>>
AlbumsStep == part = "albums" /\ Dialogs!AlbumNext /\ UNCHANGED <<part, From6>>
SuggestionsStep == part = "suggestions" /\ Dialogs!SuggestionNext /\ UNCHANGED <<part, From6>>
PreviewsStep == part = "previews" /\ Previews!Next /\ UNCHANGED <<part, From11>>
FiguresStep == part = "figures" /\ Draw!FigureNext /\ UNCHANGED <<part, From6>>
DiagramsStep == part = "diagrams" /\ Draw!DiagramNext /\ UNCHANGED <<part, From6>>
LiveStep == part = "live" /\ Draw!LiveNext /\ UNCHANGED <<part, From6>>
ViewerStep == part = "viewer" /\ Draw!ViewNext /\ UNCHANGED <<part, From6>>
CalendarStep == part = "calendar" /\ Calendar!Next /\ UNCHANGED <<part, From8>>
CalendarsStep == part = "calendars" /\ Calendars!Next /\ UNCHANGED <<part, From8>>
CutStep == part = "cut" /\ Cut!Next /\ UNCHANGED <<part, From4>>

Next ==
  \/ TreeStep \/ TreesStep \/ PickersStep \/ ListStep \/ BarsStep \/ LooksStep
  \/ MemoStep \/ PanelStep \/ ReferencesStep \/ AttachmentsStep \/ ToolsStep
  \/ RecordingStep \/ ReadingStep \/ FindStep \/ PasteStep \/ TagsStep
  \/ PathsStep \/ SnippetsStep \/ PopupsStep \/ AlbumsStep
  \/ SuggestionsStep \/ PreviewsStep \/ FiguresStep \/ DiagramsStep \/ LiveStep
  \/ ViewerStep \/ CalendarStep \/ CalendarsStep \/ CutStep

vars == <<part, w1, w2, w3, w4, w5, w6, w7, w8, w9, w10, w11, w12, w13, w14, w15, w16, w17>>
Spec == Init /\ [][Next]_vars

-----------------------------------------------------------------------------
\* Every widget's variables have their types.
PagesTypeOK ==
  /\ part \in Widgets
  /\ part = "tree" => Tree!TypeOK
  /\ part = "trees" => Trees!TypeOK
  /\ part = "pickers" => Pickers!TypeOK
  /\ part = "list" => List!TypeOK
  /\ part = "bars" => Bars!TypeOK
  /\ part = "looks" => Looks!TypeOK
  /\ part = "memo" => Memo!TypeOK
  /\ part = "panel" => Panel!TypeOK
  /\ part = "references" => References!TypeOK
  /\ part = "attachments" => Attachments!TypeOK
  /\ part = "tools" => Tools!TypeOK
  /\ part \in {"recording", "reading"} => Voice!TypeOK
  /\ part = "find" => Find!TypeOK
  /\ part = "paste" => Paste!TypeOK
  /\ part \in {"tags", "paths", "snippets"} => Lists!TypeOK
  /\ part = "popups" => Popups!TypeOK
  /\ part \in {"albums", "suggestions"} => Dialogs!TypeOK
  /\ part = "previews" => Previews!TypeOK
  /\ part \in {"figures", "diagrams", "live", "viewer"} => Draw!TypeOK
  /\ part = "calendar" => Calendar!TypeOK
  /\ part = "calendars" => Calendars!TypeOK
  /\ part = "cut" => Cut!TypeOK

\* What a step may never do: leave siblings of a notebook with gaps in their
\* numbers after a move nobody came between, take from a body another heading of the level of the
\* section the AI edits, replace other text than the match that is shown, take
\* words out of a question without sending it, or forget while a series of the
\* calendar is written anew that one of its occurrences is cancelled.
StepsKeepTheRest ==
  [][/\ part = "tree" => Tree!MoveNumbersSiblings
     /\ part = "trees" => Trees!MoveNumbersSiblings
     /\ part = "panel" => Panel!EditKeepsSections
     /\ part = "find" => Find!ReplacesShown
     /\ part = "recording" => Voice!KeepsWords
     /\ part = "calendar" => Calendar!OccurrencesStayOut
     /\ part = "calendars" => Calendars!OccurrencesStayOut]_vars

\* No entry of a notebook hangs below one that is gone, and a circle of entries is
\* closed only by moves that overlap (MoveMemo, NotebookMemo#descendant_of?).
EntriesAreForest ==
  /\ part = "tree" => Tree!EntriesAreForest
  /\ part = "trees" => Trees!EntriesAreForest

\* What a form or a search sends, and what a picker inserts, is what its field
\* shows or the user ticked, however late the lists come it was chosen from.
ChoicesAreShown ==
  /\ part = "pickers" => Pickers!ChosenIsShown
  /\ part \in {"tags", "paths", "snippets"} => Lists!SentIsShown
  /\ part = "albums" => Dialogs!OnlyTickedIsTaken

\* Where an answer may be overtaken, what is shown belongs to the last question:
\* the notebook's list of memos, the sidebar's list, the panel of suggestions,
\* the match a search has selected, and the pictures of a diagram and of a body.
AnswersAreLatest ==
  /\ part = "pickers" => Pickers!LastAskedIsListed
  /\ part = "list" => List!ListIsOneSearch
  /\ part = "suggestions" => Dialogs!SuggestionIsLatest
  /\ part = "find" => Find!SearchShowsMatch
  /\ part = "diagrams" => Draw!DiagramIsOfSource
  /\ part = "live" => Draw!LiveShowsBody

\* When nothing is on its way the page of a memo shows what is stored, through
\* refusals, lost answers and other pages (memo_show_metadata, memo_checklist); and
\* the memos of a calendar are its events as of the token that is stored, through
\* failures, refused tokens and changes in the middle of a run (Sync, Clear).
PageShowsServer ==
  /\ part = "memo" => Memo!PageShowsServer
  /\ part = "calendar" => Calendar!TokenCoversImport
  /\ part = "calendars" => Calendars!TokenCoversImport

\* What is stored is shown: the sidebars have the stored widths as far as the
\* windows since then allowed, and together no more than the window; and the page
\* wears the theme and skin in the storage and sends on what it has announced.
StorageIsShown ==
  /\ part = "bars" => Bars!RoomIsShared
  /\ part = "looks" => Looks!WornIsStored /\ Looks!AnnouncedIsSent

\* What the chat shows is what it sends and was sent: the saved references, the
\* part of each memo the chips promise, the pictures, the tools that are ticked,
\* the answer that is read aloud, and an answer behind its question.
ChatShowsWhatIsSent ==
  /\ part = "references" => References!SavedListIsServers /\ References!ChipsSayWhatIsSent
  /\ part = "attachments" => Attachments!ChipsShowAttachments /\ Attachments!NothingTwice
  /\ part = "tools" => Tools!BoxesShowChoice
  /\ part = "reading" => Voice!SpeechSaysAll
  /\ part = "panel" => Panel!AnswersFollowQuestions

\* What is late never harms what is written: only one question about a paste
\* waits, a stored file comes into the body, a preview is never drawn over the
\* unit that is being edited, and every picture gets its address.
EditorKeepsUp ==
  /\ part = "paste" => Paste!OnePromptWaits /\ Paste!StoredIsInserted
  /\ part = "previews" => Previews!EditorStays /\ Previews!PicturesAreKnown

\* What is highlighted is an option of its list, and while the list is open one
\* that the text finds (the arrows walk a closed list too).  Menus listen exactly
\* while they are open, but for one that came open out of Turbo's cache; and the
\* tab stop of the tree of directories is an option that is shown, but when the
\* selected one is in a folded branch.  A block of code shows its source or its
\* figure, and a viewer its picture.
MenusAreReachable ==
  /\ part \in {"tags", "paths", "snippets"} => Lists!ActiveIsListed
  /\ part = "popups" => Popups!ListenersFollowMenus /\ Popups!TabStopIsThere
  /\ part = "figures" => Draw!BlockIsReadable
  /\ part = "viewer" => Draw!PictureStaysInReach

\* Every line of a text that is not blank comes into some unit, but for one
\* behind a note of several lines (parseEditUnits).
OtherLinesKept == part = "cut" => Cut!OtherLinesKept

\* What stands between delimiters is edited as one unit, and so is what
\* Asciidoctor sees as one text (parseEditUnits).
BlocksStayWhole == part = "cut" => Cut!BlocksStayWhole

\* parseEditUnits.js:950 says that fillGapUnits makes units of the lines that
\* visitBlocks has not picked up: so every line is kept.
EveryLineKept == part = "cut" => Cut!EveryLineKept

\* wiki_link_substitute.js:64 says that links are put in for the preview and
\* the stored text is left unchanged.
TextIsKept == part = "previews" => Previews!TextIsKept
=============================================================================
