# A verification project for KBMemo

KBMemo is a Rails application that keeps memos (AsciiDoc texts with tags), in the
database while they are drafts and in a Git repository once they are committed, and
shows them on kanban boards, in notebooks and in a calendar. Its pages hold much of its
logic: an editor that saves by itself, a WYSIWYG view cut into units, a chat, and the
widgets around them. This directory holds TLA+ modules translated from the code under
`src/`, TLC configurations that check them on small instances, and proofs, checked by
TLAPS, of the invariants that matter most. All line numbers are those of the mapped
commit; `PROJECT.json` maps every definition to its lines, and lists the runs, the
mutants, the theorems, the findings and the hazards.

## 1. Inventory

There are two kinds of concurrency. On the server, Puma serves each request in a thread,
and what requests share is PostgreSQL, one Git work tree with its index, and external
services: an interleaving is one of *requests*, each of which loads rows, changes copies
and writes them back one statement at a time. There is no `lock_version`, and most
actions take no row lock. In the browser a page is one thread, but every `await`, timer
and event listener is a place where something else may happen first, and answers come in
any order: an interleaving is one of *handlers* and what is left of them after an await.

| Component | State | Operations | What is hard | What makes it correct |
|---|---|---|---|---|
| Memo store and Git commit (`memos_controller.rb`, `memo.rb`, `memo_repository.rb`) | rows, tags, work tree, index, HEAD, the lock file | create, draft, update, commit, revert, append, toggle, tag, delete | four stores written in turn; the index is shared by all memos; stale copies; a death between two steps | a memo not shown as a draft is in HEAD; a committed memo has a file; staged entries survive; the slug is kept |
| Kanban boards (`board_kanban/*`, `board.rb`) | board, column and position of memos | add, create, move, remove a card; delete a board or a memo | renumbering row by row without locks; gaps and ties | columns are lists; a row's column is of its board |
| Draft autosave (`memo_draft_controller.js`) | the form, the last saved snapshot, a promise chain, the memo's address | type, suggest, save, create, commit, discard, broadcast to other tabs, leave | the commit does not wait for the chain; a save while the memo is being created; bodies from other tabs | typed text is never replaced unasked; one page makes one memo; the server ends up with what was typed, but for what is typed while the memo is being created |
| Body editor (`memo_body_editor_controller.js`, `wysiwyg.js`) | textarea, source pane, units, one of them open, timers, history | switch panes, open, close, split units, flush, undo, replace, upload | asynchronous parsing and drawing against typing, timers and flushes | no gesture changes the text; a flush hands on what is shown |
| Cutting into units (`parseEditUnits.js`) | none: a pipeline of stages over lines | parse | line numbers of blocks, gaps between them | no line is lost, no block cut in two |
| Previews, search, pasting (`wysiwyg.js`, `*_substitute.js`, `searchReplaceDialog.js`, `imagePasteDialog.js`, `webPaste*.js`) | caches, a match's number, questions that wait | draw, replace, paste, upload | overtaken and failed requests; a document that changes under a number; two questions for one dialog | nothing is drawn over what is edited; what is replaced is what is shown; stored files reach the text if its editor is there |
| Figures and live previews (`code_block_tools_controller.js`, `memo_diagram_editor_controller.js`, `live_preview.js`, `diagram_svg_viewer_controller.js`) | what is drawn, and from which text | toggle, type, switch on and off, drag, zoom, resize | renders that are overtaken; a preview left behind by its switch | at rest the newest text is drawn; there is always something to read |
| AI panel (`memo_ai_panel_controller.js`) | a talk, an edit of the body | ask, insert, append, clear | the answer comes when the caret is elsewhere | answers follow their questions; other sections are kept |
| Agent chat (`agent_chat_controller.js`) | the turn, its panel, polling; references, pictures, tools, voice | ask, clear, refine; choose, attach, tick, speak | an answer that comes twice and in any order; lists that are saved out of order | one answer per question; sending and polling end; what is shown is what is sent |
| Notebooks (`notebooks/*`, `notebook_memo_tree_controller.js`) | entries with parent and position | add, move, remove | pages that show an earlier tree; moves whose statements overlap | siblings are numbered; a circle of entries takes moves that overlap |
| Pickers, lists, sidebars, menus, dialogs | what is offered, highlighted, chosen, open | type, walk, choose, open, close, resize | late answers; pages from a cache; listeners left behind | what is sent is what is shown |
| Themes (`theme/*`, studios) | what is worn, stored and sent | switch, make, delete, sync, pull | a debounced sync against a pull | the page wears what is stored; what is announced is sent |
| Memo page (`memo_show_metadata_controller.js`, `memo_checklist_controller.js`) | tags, directory, boxes | change, refuse, replace | overlapping changes taken back | at rest the page shows what is stored |
| Google Calendar import (`google_calendar/*`) | the sync token, synced memos, what a run has listed | list a page, bring in an event, store the token; clear, connect, disconnect | failures in the middle, refused tokens, runs that overlap | the token passes no change that is not imported; a cancelled occurrence stays cancelled |
| API for agents, webhook, wiki links, embeddings, directories, documentation sync | rows, tokens, jobs | see `PROJECT.json` | stale versions, order of delivery, overlapping jobs | no change is lost or done twice |
| Clips, rendering, highlighting, accounts, import tasks | | | little state, or conversion of text | |

The hazards of this code are listed, each at its line, in `PROJECT.json`, with the
properties that cover them and a note where a property stops short of the hazard.

## 2. Modules

| Module | What it is |
|---|---|
| `MemoCommit`, `MCMemoCommit`, `MemoCommitProofs` | rows, work tree, index, HEAD and the requests that change them; instances; four theorems of any threads; four of the files of one thread and of commits beside drafts |
| `BoardKanban`, `CardLists`, `BoardLists`, `MCBoardKanban`, `BoardKanbanProofs` | the services of the boards as interleaved transactions; the columns as lists; the refinement; instances; two theorems about every interleaving and two about one user |
| `DraftAutosave`, `MCDraftAutosave`, `DraftAutosaveProofs` | the edit form in some tabs of one browser; instances; five theorems |
| `EditorSession`, `MCEditorSession`, `EditorSessionProofs` | the body of one memo in its editor; instances; a theorem, and three about `Renderings`, `Pasting` and `LinkPreviews` |
| `AgentChat`, `MCAgentChat`, `AgentChatProofs` | the turns of the chat page; instances; three theorems, and one about `ChatTools` |
| `EditUnits` | the cutting of a text into units |
| `LinkPreviews`, `Search`, `Pasting`, `AiPanel` | what else happens to the body |
| `ChatReferences`, `ChatAttachments`, `ChatTools`, `ChatVoice` | what goes with a question of the chat |
| `CalendarSync`, `CalendarSyncProofs` | the runs that import a Google Calendar; three theorems |
| `NotebookTree`, `NotebookTreeProofs` | the entries of a notebook, and the moves of pages that are behind, statement by statement; three theorems |
| `MemoPickers`, `SidebarList`, `Sidebars`, `OptionLists`, `Menus`, `PageDialogs`, `Themes`, `MemoPage`, `Renderings` | the widgets around a memo |
| `PageProofs` | theorems about the parts of a page: `MemoPage`, `Sidebars`, `SidebarList`, `PageDialogs`, `MemoPickers`, `Themes`, `Menus` and `AiPanel` |
| `MCPages` | all the widgets, and the calendar, on small instances |

### MemoCommit

`db` holds the rows, tags included; `tree`, `index` and `head` say for each memo and slug
which content the work tree, the index and HEAD have; `stamp` is the epoch second of a
path's last commit, from which `committed_relative_path_for` chooses; `lock` is the
holder of `.kbmemo_git.lock`; `clock` is `Time.current`. `req[p]` is the request that
thread `p` serves: the row as `set_memo` loaded it (`ld`), the changed copy (`mem`) and
the next step. A request is one `Begin...` action, which loads and assigns, followed by
the steps of its handler:

| Handler | Steps |
|---|---|
| `draft` | `WriteTags`, then `CheckOld` and `Relocate` if the slug changes, `Save` |
| `update` | `WriteTags`, `WriteFile`, `Add`, `GitCommit`, `Save`, `StampCommitted` |
| `commit`, API create | `WriteFile`, `Add`, `GitCommit`, `Save`, `StampCommitted` |
| `revert_draft` | `FindCommittedPath`, `ReadBlob`, `WriteTags`, `RestoreFile`, `RemoveOtherFiles`, `Save`, `RestoreUpdatedAt` |
| `checklist_toggle` | `Save` |
| `update_tags` | `WriteTags`, `Touch` |
| `create`, `append_ai_reply`, `destroy` | one transaction each |

Three details of Rails carry the properties. `save` writes the columns that *differ from
the loaded copy* and moves `updated_at` only if there is one (`Changed`, `Merged`).
Assigning tags to a saved memo writes `memo_tags` at once (`WriteTags`). And a memo is a
draft when `updated_at > file_committed_at` (`Draft`), so `StampCommitted` decides
with the `updated_at` of its copy what the user is shown.

Abstractions: a title stands for its slug's stem and the slug carries the uid, so paths of
two memos never meet; a body is a set of fragments, which tells appended from replaced text;
titles are treated as typed by the user rather than derived from the body; directories,
attachments and properties that never reach the file are left out, and with them the parts
of `write_memo_to_git!` and `commit_memo!` that relocate between paths that are equal by then;
validation failures and the one-time `ensure_repo!` are left out; a bulk change of tags is the
change of one memo's tags repeated. Timestamps are strictly increasing within the database,
and two commits in one second tie, which `TicksPerSecond` makes happen.

### BoardKanban and CardLists

`cards` are the committed placements of memos and `boards` the boards that exist. A service
runs in a transaction whose uncommitted rows are `ws[p]`: its statements read the committed
rows and its own (`Seen`, READ COMMITTED), and an `UPDATE` waits for the transaction that
has written the same row (`Held`). `MoveCard` is `Place`, `List`, one `Renumber` per row whose
position changes, then `Compact` and `Renumber` for the column it came from, and `Commit`;
`RemoveCard` is `Place`, `Compact`, `Renumber`, `Commit`; `AddMemo` and `CreateCard` read the
maximum (`ReadMax`) and write the row (`Put`, `Insert`). `Rollback` is the victim of a
database deadlock.

`CardLists` says what the services are for: a column is a list, a card is appended, moved to
an index, or taken out, and no other card changes place. `BoardLists` maps each column to its
cards in the order `(position, id)`, by their ranks, and states `ImplementsLists`.

Abstractions: indices are not negative (the page sends a card's position or the length of a
list); the two `SELECT`s of `reorder_column!` are one step; a board is deleted in one step, which
waits for transactions that have written its cards; the columns of a board are fixed, so their
renaming and swapping are not modelled; and `update!` of a placement also moves `updated_at`,
which makes a committed memo a draft, a fact the two modules do not share yet.

### DraftAutosave

`page[t]` is the form of tab `t` with the controller's fields: `lastSnap` is
`_lastSavedSnapshot`, `lastBody` is `_lastSavedBody`, `pending` the remote body that
waits behind the notice, `timer` the debounce, `queued` a link of `_persistChain` that has
not run, `creating` is `_creating`, `memo` whether the page has its memo's address. `calls`
are requests with the answer once the server has given one, so that a request may
be applied and its answer lost; `mail` is the `BroadcastChannel`; `late` are saves of
pages the tab has left. The user's actions set the title as the handlers do
(`TitleSynced`, `Suggested`): an automatic title follows the body until the user types
one. The server is kept to what its answers tell the page; its own races are those of
`MemoCommit`. Two tabs whose bodies cross may exchange them for ever, which is why
`AutosaveSettles` is about one tab. It asks that the server come to hold the form
(`ServerHoldsForm`), and excludes by name what the code does otherwise: the answer to a create
takes the form as it is by then for saved (`promoteCreatedMemo`), so what was typed while the
create was under way stays unsent until the next edit (`passed`, a history); and a commit or the last save of a
page that was left waits for no other save, and may be the last to write.

### EditorSession

A document is a sequence of paragraphs, with delimited blocks that hold blank lines, so
that units can be split and joined without spelling text. `ed.units` are the elements of the
WYSIWYG view, `ed.active` the one open as source, whose editor holds `host`; `field` is the
textarea, `cm` the hidden source pane. A render is a queue of units still to be drawn,
and other events come between them; a split has read its text before it waits for the
parser and checks it again behind (`isActiveSplitContext`). `hist` is the undo history of
whole documents. A flush during a render hands on the part that is drawn; the properties
say so by asking for no render. While a switch waits for the editor's code and draws its units, the
source pane is still there: text that is typed, uploaded, reset or answered by the AI then goes into
the pane and the textarea, the switch draws the source it read before, and the next sync loses it.
`SourceModeAgrees` says only that pane and textarea agree. A second switch during such a wait is
left out.

### AgentChat

A turn's events travel in order over `cable[t]` and its answer a second time as the response
in `calls`; both finalize through one gate (`turnFinalized`), and events are dropped by turn
and sequence number. A picture that is being made is watched: a timer polls until the
picture is there, the service gives up or the attempts run out (100 in the code,
`MaxAttempts` here). The user may ask again, clear the chat, refine or draw anew meanwhile.

### EditUnits

Lines are told apart by what the code's patterns tell of them: a delimiter, an attribute,
a title, a list item, text. The stages of `parseEditUnitsFromSource` are steps: blocks found
line by line, blocks Asciidoctor names, what is contained in another goes, footnotes and
attributions are attached, and the lines nobody claimed fill the gaps. Asciidoctor itself is
modelled from how the code uses it and marked external. Units' texts are sequences of line
numbers, so a lost or doubled line is seen at once.

### CalendarSync

`google` is the calendar: the version at which each event, and one occurrence of it, last
changed, and `floor`, below which tokens are refused. `run[r]` is a worker (a job, the rake task
or the request that clears) with its copy of the account's token (`token`), the entries of the
page it works on (`items`), those still to be listed (`rest`), the memo it has loaded (`ld`)
and the token it will store (`next`). A page holds its entries as they are when it is asked for,
in any order; the next token stands for the moment of the first page. Finding a memo and
writing it are two steps, and a write puts the loaded copy's properties in place of the row's.
`doubt` remembers that runs have overlapped or a clearing was cut short; a clearing that
runs alone ends it.

Abstractions: an etag is the version of the event; all events lie within the window of dates of a
first sync; the tag a memo gets behind its creation is left out, and so is the fact that a worker that
dies between the two leaves an unchanged memo without it; there is one Google account.
Synced memos are read-only (`MemoPolicy`), so nothing else writes them.

### NotebookTree

`row` are the committed entries, with parent and position; `view` what each page shows, which a
reload or an answer renews; `call` are the moves that are asked for. A page may drag again
while its requests are out: `_patchMove` asks nobody. A move runs statement by statement, as the
boards' services do: `Load` of the entry; `Find` of the new parent and one `Walk` per ancestor
(`descendant_of?`); then the transaction, `Site` (the siblings counted), `Validate` and `Walk` again,
`Write` of the columns that differ from the loaded entry, `List` and one `Number` per row for the new
siblings, `ListOld` and `Number` for the old ones, `Commit`. A statement reads the committed rows and
its transaction's own (`Reads`), and an `UPDATE` waits for whoever has written the row (`Held`). Adding
is a reading (`ReadLast`) and an `INSERT`.

`docs/architecture/notebook-mvp.adoc:152` forbids circles, and the validation keeps them out of one move.
Two moves that overlap each validate before the other commits, and may hang two entries below each
other, after which no page shows them. The properties name such overlaps by histories:
`met` marks a move during which another one committed, `crossed` the entries such a move has placed, and `still` a
move that nobody has committed behind since it read its new siblings. The status line is left out.

### Pasting

A gesture is a flow with a step; `pending` are the questions of the two dialogs, and `ready` the queue of
promises that were settled. The editor may be loading, there, or gone (`editor`): a stored picture whose answer finds none
is not inserted (`missed`), and a web page that is refused, or whose question is taken over, is inserted only if there
is plain text. That Turbo replaces the `body` the dialogs hang in is left out.

### The widgets and MCPages

Each widget is a module with the fields of its controllers as variables and one action per
handler; what follows an `await` is an action of its own, and the requests under way are
sets, so answers come in any order, fail or never come. They share no state: a
page with all of them has the behaviours of each one interleaved. `MCPages` therefore
instantiates each of them (`INSTANCE ... WITH`) with the same variables `w1`, `w2`, ...,
of which `part` says whose they are, and checks a behaviour of one widget at a time; its
properties are conjunctions that each say one thing of the widgets it can be said of.

| Property of `MCPages` | Of which widgets |
|---|---|
| `StepsKeepTheRest` | the calendar keeps cancelled occurrences; a move numbers its new and its old siblings 0, 1, 2, ..., unless another request commits behind its reads; the AI's edit of a section leaves the headings of its level; a replacement changes the shown match only; no step takes words out of a question unsent |
| `EntriesAreForest` | notebooks: no entry hangs below one that is gone, and a circle has an entry of a move that met another |
| `ChoicesAreShown` | pickers, lists of options, albums |
| `AnswersAreLatest` | the notebook's picker, the sidebar's list, suggestions, the search's match, the previews of a diagram and of a body |
| `PageShowsServer` | the memo page at rest; the memos of a calendar, up to the stored token |
| `StorageIsShown` | sidebars: the stored width as far as the windows since then allowed, and both in the window; themes and skins |
| `ChatShowsWhatIsSent` | references, pictures, tools, reading aloud, the AI panel |
| `EditorKeepsUp` | pasting, previews |
| `MenusAreReachable` | lists of options, menus, figures of code blocks, the viewer of a picture |
| `OtherLinesKept`, `BlocksStayWhole` | the cutting into units |

What some of them say and leave unsaid:

- `Sidebars`: widths are in units of 110 px. A resize clamps what is shown and stores nothing, so shown and stored
  differ from then on; `cap`, a history, is the least maximum since the stored width was read or written, and what is shown is the
  stored width up to it. Each maximum is about half of the window (55 % and 45 %), so the two sidebars never exceed the window, but
  from 768 to about 1018 px they may fill it and leave the memo no room.
- `SidebarList`: what a query finds may change while its list is shown (`MemosChange`). Pages are asked for by offset, so
  afterwards a memo may come twice or not at all; `ListIsOneSearch` speaks of lists nobody changed (`changed`).
- `Menus`: a menu that was open when Turbo cached its page comes back open and deaf (`kept`), and only its
  button, or in the picker `Escape` within it, closes it. The tree's tab stop is the selected option even in a folded branch, and
  then Tab reaches none; `TabStopIsThere` names that case.
- `ChatAttachments`: `addFiles` looks for no file that is there already, so a file added twice goes along twice;
  `NothingTwice` is about the pictures and photos of the two pickers, whose rows may be overtaken.
- `Search`: folding may lengthen a text (U+0130 becomes two letters, `J` in the instance), and the places found are
  those of the folded text. `ReplacesShown` excludes such texts by name. The final sigma, whose small letter depends on what
  follows, is left out.
- `PageDialogs`: the albums and the suggestions. The dialog of directories is left out: no view mounts its controller.

Abstractions they share: names, texts and addresses are members of small sets; a debounce is a
boolean that an action clears; layout, wording and styles are left out; requests that touch
nothing the page keeps are left out.

## 3. Runs

| Run | Instance | Shows |
|---|---|---|
| `memo_solo` | 1 memo, 1 thread, 2 titles, every body of 2 fragments, 1 tag, every operation, `MaxClock` 5 | one path per memo; the slug is kept; `revert_draft` makes row, work tree and HEAD agree |
| `memo_race` | 2 threads that create, save, rename and commit, crashes, `MaxClock` 3, fairness | types; what is staged survives to the commit; a stamped memo has a file in HEAD; every request ends |
| `memo_autosave` | one thread creates and commits, one saves drafts, toggles, appends, tags and deletes, crashes, `MaxClock` 4 | a stamp never hides a save that came in between; text leaves a body only with a request that changed that body |
| `kanban_solo` | 3 cards, 2 boards, 3 columns, 1 thread, every operation | types; the services implement `CardLists`; a move or removal leaves its columns without gaps and ties |
| `kanban_race` | 2 cards, 2 threads: one moves and removes cards, the other moves and adds cards and deletes boards | a committed row never names a column without its board |
| `draft` | 1 tab with every operation on a stored, an untitled and a new memo; 2 tabs that type, retitle and take suggestions; 3 bodies; 2 edits, 1 failure, 1 commit or discard; fairness | typed text is not replaced unasked; a page makes one memo; the snapshot is what the server holds; an automatic title follows the body; autosave comes to rest with the server holding what was typed, but for what was typed during a create |
| `edit` | 2 documents, one with a block that holds a blank line, 3 gestures, one typed text, one render at a time | no gesture changes the text; a flush hands on what is shown; the source pane and the textarea agree in source mode |
| `turns` | 2 questions, 2 attempts, one lost request or pressed button; a new page and one that watches a picture; fairness | one answer per question; the panel shows its own turn; sending and polling end |
| `page` | every widget, and the calendar, on the instances in `MCPages`; the notebook with 3 entries and one move, and with 2 entries and two moves that overlap; every text of up to 3 lines out of 16 kinds, and of 5 lines out of 5 | the table above |

Three runs have a counterexample, each to a sentence of the repository (`findings` quotes them):

| Run | What TLC finds |
|---|---|
| `memo_lost_head` | a revert removes a file between another request's write and `git add`; the commit deletes the memo from HEAD |
| `kept` | the line behind a note of several lines is taken as part of it and comes into no unit |
| `lost` | a request for titles or addresses fails while the emptied editor waits for it; the next flush stores the empty text |

Where the passing runs stop. `CleanTextMatchesHead` holds for saves beside a commit, not for two
commits that overlap or for a revert beside a draft, and it is about title and body: a draft that
changes only tags leaves `updated_at`. With crashes it holds for one memo (the run has one): a draft
of another memo that dies between `git mv` and its save leaves the rename staged, the next commit takes the old
path out of HEAD, and the clean row still names it. Two moves of cards that overlap leave ties, and deleting a board leaves the positions of
its cards, because the callback that clears them is declared behind `dependent: :nullify`. A create
whose answer is lost is repeated (`OneMemoPerPage` counts these). A late response of one turn of
the chat may finalize the next. Two imports that overlap, which the queue's three threads allow,
make two memos of one event, and an import beside a clearing stores a token over it, so that the
next sync does not bring the cleared events back: `TokenCoversImport` is about runs that do not
overlap. In a notebook, moves that
overlap may close a circle, and an entry added behind a move's reading leaves a tie. In the browser, what
is typed while the memo is being created is taken for saved, what is typed while the editor loads is lost,
a menu from Turbo's cache may be deaf, a tree's tab stop hidden, and a list that is edited while it is paged through repeats or
skips a memo. The hazards' notes say the same at their lines.

**Bounds.** `MaxClock` bounds the changes of rows: no request starts once the clock is there, but
those that run go on. With 3 a memo is created and two requests overlap; with 4 a third follows;
with 5 a single author creates, commits, edits and reverts or commits again. Two titles with
different stems make the slug change; two fragments tell a lost text from a replaced one; two ticks
per second make commits tie. One memo is enough: the paths of two memos never meet, and what they
share, the index and the lock, is contended for by two requests that stage different slugs of one
memo; the theorems hold for any number of memos. `MaxPosition` bounds the appending behind gaps;
three cards are what a move needs to have cards before and after it. In the browser, two requests of
a kind are what it takes for one to overtake another, one failure for a retry to race with it, and two
edits for one to come while the other is being saved; a list of two pages is loaded in two steps;
three units are what a split needs to have neighbours; and texts of three lines hold a
block's attributes, its line and what follows, those of five a delimited block with something in it
and around it. Two entries and two moves are what it takes to close a circle (no smaller notebook has one), three
entries and one move to have a sibling before and one behind; a page is loaded again only as long as a move is left; `MaxPosition` 2 lets the second entry be added
behind the first. Two events make two pages, three versions a change behind a cancelled event that
is forgotten, and three runs an import, a failed one and one that goes on; two workers and four
runs of one event let two imports overlap, a clearing put that right, and a last import follow, with a change at any
time. `CHECK_DEADLOCK FALSE` everywhere: at the bounds, and with
nobody using it, the system is idle.

**Fairness.** `MemoCommit!FairSpec` assumes weak fairness of every step that needs no lock, because
the server schedules its threads and Git's subprocesses end, and strong fairness of the two steps
that take the lock, because `flock` is handed to the processes that wait for it.
`DraftAutosave!FairSpec` and `AgentChat!FairSpec` assume weak fairness of what the browser does by
itself (timers run out, promises go on, intervals fire) and of the server's answering what has
reached it, or of the browser's noticing that it is lost. Nobody has to do anything with a
page, no request has to be made, and no failure has to happen.

## 4. Proofs

`MemoCommitProofs` proves, for any memos, threads, titles, forms and bounds:

- `TypeCorrect`: `Spec => [](TypeOK /\ HandlersKeepTheirSteps)`. `TypeOK` alone is not inductive:
  `AfterTags` and `AfterSave` name a next step only for the operations that reach them, so the
  invariant says that every request is at a step of its handler.
- `StagedSurvives`: `StagedEntrySurvives`, the action property that nothing changes the
  index between `git add` and `git commit`. It rests on `CommitterHoldsLock`: every action that
  writes the index either needs the lock free or belongs to its holder.
- `CommittedStaysInHead`: as long as no thread is asked for a revert, a memo with a
  `file_committed_at` has a file in HEAD. The inductive invariant is `HeadInv`: a staged path
  has its file (`IndexHasTree`), so `git add` never stages a deletion; the index loses no memo HEAD
  has (`HeadStaysStaged`), so `git commit` of the whole index drops none; a rename moves the
  entry along with the file (`RelocateMoves`); and a request past its `git commit` has its memo
  in HEAD (`CommittedBeforeStamp`). Crashes keep all of it. `memo_lost_head` shows that the
  assumption is needed.

- `TextStays`: `AppendedTextSurvives`. Every write of a row is followed to the text it
  keeps: an `UPDATE` of the columns that differ from the loaded copy leaves the body unless the
  form changed it, and stamps, touches and tags write other columns. Only types are needed.

and what the files of a memo are. With one thread that does not die (`OneThread`):

- `OnePathKept`, `SlugIsKept` and `RevertEndsRestored`: the three properties of `memo_solo`, for any memos,
  titles and forms. The inductive invariant is `SoloInv`: a memo has files at one path only, the slug of
  its row once it is stamped, and between the steps of a request the path that step is about (`FilesOf`),
  which the request's own copies name (`PathIsKept`); a revert carries the content of HEAD
  (`RevertCarriesHead`). A second thread breaks the second of the three: a draft
  that loaded its memo before the first commit, saved behind the stamp, renames the committed memo, which
  `memo.rb:237` rules out ("once committed, kept") and `prepare_slug_from_title_and_manual` asks its stale copy about.

With one thread that commits and one that saves drafts, beside any number of threads that create, mark,
tag, append and delete, and with deaths if there is one memo (`CommitsBesideDrafts`):

- `CleanTextIsCommitted`: `CleanTextMatchesHead`. The inductive invariant is `TextInv`: a memo that is no
  draft has its text in HEAD, and in the index unless its file is on the move (`CleanOK`); a commit that
  has written the file has the text of a row nobody has saved since, or else its stamp will be older than
  the row's `updated_at` and leave the memo a draft (`CommitOK`); a draft's copy is no newer than the row
  (`LoadedOK`, `DraftOK`). TLC has counterexamples with an update or a revert beside drafts, with
  two threads that commit, and with a death beside a second memo; that one thread saves the drafts is what
  the proof needs (one page does), and TLC knows of no counterexample with two.

`BoardKanbanProofs` proves, for any cards, boards, columns and threads:

- `TypeCorrect`: `Spec => []TypeOK`.
- `PlacementStaysConsistent`: `PlacementConsistent`, in every interleaving of moves,
  removals, adds and deletions. The inductive invariant is `PlacementInv`: what a service has
  checked of its column and loaded row (`RequestsAgree`), and what its uncommitted rows may be
  (`WritesAgree`): between `Place` and `List` a moved row may name a column of a board the
  memo has left, and `find` in `reorder_column!` is what keeps it from being committed.

and, for any cards, boards and columns and one thread (`OneUser`; two that overlap leave ties until the
next move):

- `ColumnsStayRenumbered`: `ColumnsRenumbered`, and `KanbanImplementsLists`: the refinement `ImplementsLists`.
  The inductive invariant is `AloneInv`: the rows a transaction reads, with what its plan still has to write,
  are those its request is for (`Inserted`, `Compacted`), and the committed row of its card is the one it
  loaded; so a commit is one step of the lists and every other step changes none. The rest is about
  numbers: ranks in a strict order are the numbers below the count (`RankOnto`), positions without gaps
  and ties are ranks (`SlotsAreRanks`), so the plan of `reorder_column!` inserts into the sequence
  (`OrderedWith`), compaction keeps its order (`RankedOrder`), a card that leaves takes one element out
  (`OrderedWithout`), and the next free position is behind all others (`NextIsBehind`). The positions the
  cards had may be any.

`AgentChatProofs` proves, for any number of questions, polls and faults and any conversation
the page is opened with:

- `TypeCorrect`: `Spec => []TypeOK`, and with it that no poll past `MaxAttempts` is ever sent.
- `OneAnswer`: `OneAnswerPerQuestion`, and `PanelBelongs`: `PanelShowsItsTurn`. The inductive
  invariant is `Inv`: a turn that is going on has no answer yet and the panel is its own
  (`TurnOK`), and whatever may still finalize, an active turn or a response on its way, leaves
  a question unanswered while the gate is open (`AnswersLeft`). The second part is what the
  property lacks: a late response of a turn whose events were lost finalizes the turn after it,
  and only the count of questions says that this is not one answer too many.

`DraftAutosaveProofs` proves, for any tabs, memos, bodies and titles and any number of edits, commits,
discards and faults:

- `TypeCorrect`: `Spec => []TypeOK`, and `UnsavedTextStays`: the action property `UnsavedTextKept`.
- `OneMemo`: `OneMemoPerPage`, and `AckedIsSnapshot`: `AckedDraftIsSnapshot`. The inductive invariant
  is `Inv`: a tab's chain has one save under way at most (`OneSave`), which is what `_saveChain` is for; a tab
  without its memo's address that has sent a create is marked `creating` until the answer or its loss
  (`PagesOK`); the memos made are no more than the tabs that have or await theirs and the creates that were
  lost (`MadeOK`); and what the server has taken from an answered save is what that save carries (`CallsOK`,
  `ServerOK`).
- `TitleFollows`: `TitleFollowsBody`, from `TitlesFit`, which says the same of every form on its way or
  stored, since the form of a broadcast or of a discard's page comes from there. It assumes that the forms
  pages are opened with have such titles (`StoredTitleAssumption`), as the server's own rule makes them.

`EditorSessionProofs` proves, for any documents, gestures and number of renders under way:

- `SourcePaneIsTheField`: `SourceModeAgrees`. It is inductive as it stands: what puts a text in from outside
  asks for the mode and gives it to both, a switch to source writes both from one flush, what the
  user does in the WYSIWYG editor needs its mode, and a sync that a timer left behind writes
  the pane along with the textarea. Renders and splits, which may end in the other mode, write neither.

`NotebookTreeProofs` proves, for any memos, pages, positions and number of moves:

- `TypeCorrect`: `Spec => []TypeOK`.
- `StaysForest`: `EntriesAreForest`, and `SiblingsNumbered`: the action property `MoveNumbersSiblings`, for any number of
  pages and of moves that overlap in any order of their statements. The inductive invariant is `TreeInv`. Of each move
  (`CallOK`) it says: what it loaded has been there (`StepOK`), and so have the ancestors it walks along (`WalkOK`);
  unless another move has committed since it loaded its entry, the ancestors its validation has come by still lead from the
  new parent to the root, and its entry is not among them (`ChainOK`); the rows it has written stay as they are until it
  ends, and its entry is one of them (`LockOK`), each row being one transaction's (`Locks`); and as long as nobody has committed
  behind its reading, carrying out its plan leaves the siblings numbered (`NumberOK`). So when a move that met nobody commits, its entry
  hangs in a chain that ends in the root, and no circle passes through it (`CommitRows`); the commit of any other move
  puts its entry into `crossed`, and a circle it closes contains the entry. Additions and
  removals leave every chain a chain (`MoveStands`). For the numbers: ranks in a strict order are the numbers
  from 0 on (`RanksAreNumbers`), so a plan of ranks is one that numbers (`Numbered`), and writing the next row leaves it one
  (`NumberWritten`), because the least number left is written first.

`PageProofs`, `EditorSessionProofs` and `AgentChatProofs` also prove what the small widgets promise, each taken
with `INSTANCE` so that its constants are any. `PageProofs`, about the parts of a page:

- `ShowsServer`: `MemoPage!PageShowsServer`, the first conjunct of the property of that name the
  page run checks. In the inductive invariant, `Inv`, the one request of a page in no doubt can be
  taken back to exactly what the server has (`CanGoBack`), for which what the page takes for saved
  must be the server's. Choosing the saved directory again sends nothing and changes what is
  shown under a request that may still fail; the step works because a choice that is shown and
  not saved is that request's own, and its failure brings back the same directory.
- `StorageHolds`: `StorageIsShown`, the page run's property of that name, from `BarsShareRoom` and `LooksHold`. For
  the sidebars the invariant is `BarsInv`: clamping the width a controller holds, or the stored one, at the least maximum
  since then gives the same, which a further window keeps (`BarClamped`), and the two maxima make up the window at most. For the themes the invariant is `LooksInv`: what is
  worn is what is stored unless the studio has a draft or the state asked for at the start has yet to
  come, and a change that was announced is in the pause, in the chain, in the save that is in flight, or on
  the server (`LooksOnItsWay`).
- `ListHolds`: as long as what is found has not changed since the list was drawn, its rows are the first `offset` of that and
  a request for more is for exactly that offset; in any case the list loads no more once it has as many rows as were counted,
  and a search in flight is for what the heading says (`ListInv`).
- `DialogsHold`: what is chosen was ticked while it was displayed (`DialogsAlbumInv`), and the suggestion that counts
  is the last one asked for and has not been given up (`DialogsSuggestionInv`).
- `PickersHold`: a memo is chosen together with the text of the field, which typing clears, and the notebook's
  dialog has no call in flight but the last (`PickersInv`).
- `MenusHold`: a menu of a page that is shown has one listener exactly while it is open, unless it came open from the cache;
  opening one is a click beside the others (`MenusInv`).
- `PanelHolds`: `AnswersFollowQuestions`. There is one question under way at most, because the button stays
  disabled until the very end; the last message is its own, unless the talk was cleared behind it
  (`WaitsIn`), and then the answer is the first of a new talk (`PanelInv`).

`EditorSessionProofs`, about what works beside the editor:

- `RenderingsHold`, with an invariant for each of the four (`RenderingsInv`). A block whose figure is asked for
  counts as source. What an open diagram editor has asked for is its source, or a timer will ask for it
  (`DiagramInv`). The last render of a live preview is of the body, and under way, lost or drawn, or its timer
  runs (`LiveInv`). For the viewer the
  invariant is about whole numbers: clamping brings the pan into its reach (`ClampOK`), every zoom, resize and
  drag ends with a clamp, and the fitted scale is the least of the scales that fill the stage, which exists
  because the naturals are well-founded (`LeastOf`).
- `PastingHolds`: `OnePromptWaits` and `StoredIsInserted`. A gesture that asks is the one its dialog will answer,
  the answered gestures are exactly those in the queue, each once (`Queued`), and a question that is taken over
  is answered in the same step (`AskOK`), whatever close events are still to come. For the second the equation,
  what is stored against what was inserted or found no editor (`Kept`), is inductive with the sizes of the batches (`StoredInv`): a step leaves every gesture where the counts do
  not see it (`Alike`), or it is one batch that goes on, and then what it has waiting, what is stored and what is
  put in make up for each other (`BatchStores`), or a page that is done and put in at once (`ContinueStores`).
- `PreviewsHold`: a document is drawn by one flow, and nobody writes meanwhile (`DrawnAlone`); as long as nothing
  failed, the pictures the document lacks are all wanted by one flow that has not been overtaken, and what draws
  the document waits for all it lacks (`OnTheWay`): a later request of a kind asks for everything the document
  lacks, and so for what the one it overtakes wanted. With `PastingHolds` this is the whole of `EditorKeepsUp`.

`AgentChatProofs`, about the choice of tools:

- `ToolsHold`: what is drawn is what the server offers, and the choice is cut to it in the same step.

`CalendarSyncProofs` proves, for any events, workers, changes and failures:

- `TypeCorrect`: `Spec => []TypeOK`, in which no two memos have one id, however runs overlap.
- `CoversImport`: `CalendarSync!TokenCoversImport`, and `OccurrencesStay`: the action property
  `OccurrencesStayOut`, both a conjunct of properties the page run checks. The inductive invariant is
  `Inv`. A worker that has been alone since it began is the only one, so nobody else has moved the token
  (`AloneOK`). Of the events that last changed before the token it will store, each is in its memo as of
  that change or still pending: not yet listed, on the page, or about to be saved (`RunOK`). An entry says
  what Google has unless the event changed after the list began, and then the next list has it again
  (`ItemOK`). A run that fails or dies leaves the token, and a prefix of its events in their memos, which
  the next run finds there and brings in again. Doubt begins when runs overlap or a clearing is cut
  short, and the invariant then only keeps what a clearing needs to end it.

The proofs assume what the modules name with `ASSUME`, or, for the calendar, the notebook and the widgets, as a
hypothesis of the theorems (`NotebookAssumption`, `PastingAssumption`, ...): the kinds of the constants, and that
the markers (`NoFile`, `Off`, `None`, ...) are not rows or contents. TLC evaluates all of these in the runs:
`MCPages` assumes them of its instances.

Only model-checked:

- liveness;
- what depends on a recursion over a sequence, which the library's induction theorems cannot be used for here:
  the other properties of `EditorSession` (a document that is filtered, cut and flattened), those of `EditUnits` and
  `Search`, `OptionLists` and `ChatReferences` (`SelectSeq`), `ChatVoice` and `ChatAttachments` (folds), and
  `TabStopIsThere` (the branch above an option);
- `EditKeepsSections`, which says what `SelectSeq` leaves of a body;
- type correctness of the widgets, beyond what their invariants say of it.

## 5. Plan

What is left, in this order:

1. What later moves and removals make of a notebook with a circle: whether its entries can come back
   (`NotebookTree` begun in such a tree).
2. `DraftAutosave` composed with the handlers of `MemoCommit` over a channel that reorders.
3. The API's patch, append and delete with whole-second versions, over `MemoCommit`'s rows.
4. The calendar's window of dates, and series whose occurrences are listed before them.
5. Columns that are renamed and swapped, inside `BoardKanban`, and `updated_at` in both modules.
6. Delivery in any order: the webhook, the wiki link index, the embedding index.
7. Directories and the documentation sync: rows and files of a subtree moved one by one.

Theorem to add: type correctness of the widgets.

## 6. Not modelled

Rendering, highlighting, diagrams and clips convert text; accounts and policies are stateless checks
or a library; import and migration tasks run once. `wiki_link_wysiwyg.js` serves a mode of the
editor that nothing turns on, and `memo_directory_dialog_controller.js` is mounted by no view. Each has its row in `PROJECT.json` with the reason. The database, Git,
the file system, Asciidoctor and the browser are modelled from how the code uses them and are
marked external in the map.
