----------------------------- MODULE PageProofs -----------------------------
(***************************************************************************)
(* Proofs about the parts of a page: the page of one memo (MemoPage), the  *)
(* two sidebars, the list of memos, the dialogs that wait for the server,  *)
(* the pickers of memos, the themes and skins, the menus, and the panel of *)
(* the assistant, each for any values of its constants.                    *)
(***************************************************************************)
EXTENDS MemoPage, Sequences, FiniteSetTheorems, TLAPS

CONSTANTS Windows, Kept, Steps, Least, Narrow, MemoTop, AiTop,   \* of the sidebars
          Queries, Results, Page,                           \* of the list
          Albums, Photos, MaxAsked, None,                   \* of the dialogs
          Found, Titles, NoMemo,                            \* of the pickers
          Themes, Skins, OwnThemes, OwnSkins, Contents, Default, AutoSkin, MaxEdits,
          UserMenus, Options, Below, Unfolded,              \* of the menus
          Bodies, Answer, Roles, Role, NoRole, MaxTurns, MaxInputs   \* of the assistant's panel

VARIABLES window, width, folded, dragging, barShown, stored, cap,
          findings, text, waiting, heading, search, list, gone, count, failed,
          album, taken, asks, sug, running,
          kind, field, pickerTimer, pickerCalls, pickerAsked, pickerFailed, pickerShown, active, open,
          closing, down, memo, posts,
          local, looksServer, worn, draft, editing, timer, queue, patch, late, asked, pull, told, edits,
          looksFaults,
          menus, directories, context, bodyMenu, connected,
          panelEditing, doc, caret, selected, include, history, sending, questions, inserting, message,
          statusTimer, role, saved, options, refresh, turns, inputs

Bars == INSTANCE Sidebars WITH shown <- barShown
List == INSTANCE SidebarList WITH found <- findings
Dialogs == INSTANCE PageDialogs
Pickers == INSTANCE MemoPickers WITH
  timer <- pickerTimer, calls <- pickerCalls, asked <- pickerAsked, failed <- pickerFailed,
  shown <- pickerShown
Looks == INSTANCE Themes WITH
  Auto <- AutoSkin, server <- looksServer, faults <- looksFaults
Popups == INSTANCE Menus WITH picker <- directories, editor <- bodyMenu
Panel == INSTANCE AiPanel WITH None <- NoRole, Docs <- Bodies, editing <- panelEditing, asked <- questions,
  timer <- statusTimer, edits <- inputs, MaxEdits <- MaxInputs

-----------------------------------------------------------------------------
\* The invariant

\* What a request asks for, and a request.
Whats == [kind : {"tags"}, new : SUBSET Tags, old : SUBSET Tags]
         \cup [kind : {"dir"}, old : Directories]
         \cup [kind : {"check"}, box : Boxes, on : BOOLEAN]
Calls == [kind : {"tags", "dir", "check"}, what : Whats, n : Nat, gen : Nat,
          stage : {"sent", "ok", "failed"}, alone : BOOLEAN, seen : Memo]

Types ==
  /\ server \in Memo
  /\ page \in [shown : Memo, savedTags : SUBSET Tags, savedDir : Directories, gen : Nat]
  /\ calls \subseteq Calls
  /\ sent \in Nat /\ doubt \in BOOLEAN

\* A request that is alone has nobody beside it, and nobody changes the memo
\* between its success and the answer.
AloneIsAlone ==
  \A c \in calls : c.alone => calls = {c} /\ (c.stage = "ok" => c.seen = server)

\* What the page takes for saved is the server's.
SavedIsServers == page.savedTags = server.tags /\ page.savedDir = server.dir

\* The one request of a page in no doubt can be taken back to what the server has.
CanGoBack(c) ==
  /\ calls = {c} /\ c.alone /\ c.gen = page.gen
  /\ c.stage # "ok" => SavedIsServers /\ Reverted(page.shown, c.what) = server

NoDoubt == ~doubt => \/ calls = {} /\ page.shown = server /\ SavedIsServers
                     \/ \E c \in calls : CanGoBack(c)

Inv == Types /\ AloneIsAlone /\ NoDoubt

-----------------------------------------------------------------------------
\* Sending

\* What every request leaves: nobody is alone beside it, and it is if nobody else was.
LEMMA SendFields ==
  ASSUME Types, NEW what \in Whats, Send(what)
  PROVE  LET c == [kind |-> what.kind, what |-> what, n |-> sent, gen |-> page.gen, stage |-> "sent",
                   alone |-> calls = {}, seen |-> server]
         IN  /\ server' = server /\ sent' \in Nat /\ doubt' \in BOOLEAN
             /\ c \in Calls /\ c \in calls' /\ calls' \subseteq Calls
             /\ \A d \in calls' : d = c \/ ~d.alone
             /\ calls = {} => calls' = {c} /\ doubt' = doubt
             /\ calls # {} => doubt'
<1> DEFINE c == [kind |-> what.kind, what |-> what, n |-> sent, gen |-> page.gen, stage |-> "sent",
                 alone |-> calls = {}, seen |-> server]
           quiet(d) == [d EXCEPT !.alone = FALSE]
<1>1. what.kind \in {"tags", "dir", "check"} /\ sent \in Nat /\ page.gen \in Nat /\ server \in Memo
  BY DEF Whats, Types
<1>2. (calls = {}) \in BOOLEAN
  OBVIOUS
<1>3. c \in Calls
  BY <1>1, <1>2 DEF Calls
<1>4. calls' = {quiet(d) : d \in calls} \cup {c}
  BY DEF Send
<1>5. \A d \in calls : quiet(d) \in Calls /\ ~quiet(d).alone
  BY DEF Types, Calls
<1>6. server' = server /\ sent' \in Nat /\ doubt' = (doubt \/ calls # {}) /\ doubt \in BOOLEAN
  BY <1>1 DEF Send, Types
<1> HIDE DEF c, quiet
<1>7. calls' \subseteq Calls /\ c \in calls' /\ \A d \in calls' : d = c \/ ~d.alone
  BY <1>3, <1>4, <1>5
<1>8. calls = {} => calls' = {c} /\ doubt' = doubt
  BY <1>4, <1>6
<1>9. calls # {} => doubt'
  BY <1>6
<1> QED BY <1>3, <1>6, <1>7, <1>8, <1>9 DEF c

\* A change that appears at once and can be taken back keeps the invariant.
LEMMA SendKeeps ==
  ASSUME Inv, NEW what \in Whats, Send(what), NEW shown \in Memo,
         page' = [page EXCEPT !.shown = shown],
         calls = {} /\ ~doubt => Reverted(shown, what) = server
  PROVE  Inv'
<1> DEFINE c == [kind |-> what.kind, what |-> what, n |-> sent, gen |-> page.gen, stage |-> "sent",
                 alone |-> calls = {}, seen |-> server]
<1>1. /\ server' = server /\ sent' \in Nat /\ doubt' \in BOOLEAN
      /\ c \in Calls /\ c \in calls' /\ calls' \subseteq Calls
      /\ \A d \in calls' : d = c \/ ~d.alone
      /\ calls = {} => calls' = {c} /\ doubt' = doubt
      /\ calls # {} => doubt'
  BY SendFields DEF Inv
<1>2. c.stage = "sent" /\ c.what = what /\ c.gen = page.gen /\ c.alone = (calls = {})
  OBVIOUS
<1> HIDE DEF c
<1>3. /\ page' \in [shown : Memo, savedTags : SUBSET Tags, savedDir : Directories, gen : Nat]
      /\ page'.shown = shown /\ page'.gen = page.gen
      /\ page'.savedTags = page.savedTags /\ page'.savedDir = page.savedDir
  BY DEF Inv, Types
<1>4. Types'
  BY <1>1, <1>3 DEF Inv, Types
<1>5. AloneIsAlone'
  BY <1>1, <1>2 DEF AloneIsAlone
<1>6. ASSUME ~doubt' PROVE \E d \in calls' : CanGoBack(d)'
  <2>1. calls = {} /\ ~doubt
    BY <1>1, <1>6
  <2>2. SavedIsServers'
    BY <1>1, <1>3, <2>1 DEF Inv, NoDoubt, SavedIsServers
  <2>3. Reverted(page'.shown, c.what) = server'
    BY <1>1, <1>2, <1>3, <2>1
  <2> QED BY <1>1, <1>2, <1>3, <2>1, <2>2, <2>3 DEF CanGoBack
<1> QED BY <1>4, <1>5, <1>6 DEF Inv, NoDoubt

\* Tags are added and removed; the request remembers those that were saved.
LEMMA ApplyTagsKeeps == ASSUME Inv, NEW tags \in SUBSET Tags, ApplyTags(tags) PROVE Inv'
<1> DEFINE what == [kind |-> "tags", new |-> tags, old |-> page.savedTags]
           shown == [page.shown EXCEPT !.tags = tags]
<1>1. what \in Whats /\ shown \in Memo
  BY DEF Inv, Types, Whats, Memo
<1>2. page' = [page EXCEPT !.shown = shown] /\ Send(what)
  BY DEF ApplyTags, SavedTags, Inv, Types
<1>3. calls = {} /\ ~doubt => Reverted(shown, what) = server
  <2>1. calls = {} /\ ~doubt => page.shown = server /\ page.savedTags = server.tags
    BY DEF Inv, NoDoubt, SavedIsServers
  <2>2. Reverted(shown, what) = [page.shown EXCEPT !.tags = page.savedTags]
    BY DEF Reverted, Inv, Types, Memo
  <2>3. server = [server EXCEPT !.tags = server.tags]
    BY DEF Inv, Types, Memo
  <2> QED BY <2>1, <2>2, <2>3
<1> HIDE DEF what, shown
<1> QED BY <1>1, <1>2, <1>3, SendKeeps

\* A directory is chosen: one that is not the saved one is sent, and the saved one
\* takes the page back to it, with or without a request on its way.
LEMMA ChooseDirectoryKeeps ==
  ASSUME Inv, NEW d \in Directories, ChooseDirectory(d) PROVE Inv'
<1> DEFINE what == [kind |-> "dir", old |-> page.savedDir]
           shown == [page.shown EXCEPT !.dir = d]
<1>1. what \in Whats /\ shown \in Memo
  BY DEF Inv, Types, Whats, Memo
<1>2. page' = [page EXCEPT !.shown = shown]
  BY DEF ChooseDirectory, Inv, Types
<1>3. CASE d # page.savedDir
  <2>1. Send(what)
    BY <1>3 DEF ChooseDirectory
  <2>2. calls = {} /\ ~doubt => Reverted(shown, what) = server
    <3>1. calls = {} /\ ~doubt => page.shown = server /\ page.savedDir = server.dir
      BY DEF Inv, NoDoubt, SavedIsServers
    <3>2. Reverted(shown, what) = [page.shown EXCEPT !.dir = page.savedDir]
      BY DEF Reverted, Inv, Types, Memo
    <3>3. server = [server EXCEPT !.dir = server.dir]
      BY DEF Inv, Types, Memo
    <3> QED BY <3>1, <3>2, <3>3
  <2> HIDE DEF what, shown
  <2> QED BY <1>1, <1>2, <2>1, <2>2, SendKeeps
<1>4. CASE d = page.savedDir
  <2>1. UNCHANGED <<server, calls, sent, faults, doubt>> /\ d # page.shown.dir
    BY <1>4 DEF ChooseDirectory
  <2>2. /\ page'.shown = shown /\ page'.gen = page.gen
        /\ page'.savedTags = page.savedTags /\ page'.savedDir = page.savedDir
        /\ page' \in [shown : Memo, savedTags : SUBSET Tags, savedDir : Directories, gen : Nat]
    BY <1>1, <1>2 DEF Inv, Types
  <2>3. Types' /\ AloneIsAlone'
    BY <2>1, <2>2 DEF Inv, Types, AloneIsAlone
  <2>4. ASSUME ~doubt' PROVE \E c \in calls' : CanGoBack(c)'
    <3>1. ~(calls = {} /\ page.shown = server /\ SavedIsServers)
      BY <1>4, <2>1 DEF SavedIsServers
    <3>2. PICK c \in calls : CanGoBack(c)
      BY <2>1, <2>4, <3>1 DEF Inv, NoDoubt
    <3>3. c.what \in Whats
      BY DEF Inv, Types, Calls
    <3>4. c.stage # "ok" => Reverted(shown, c.what) = server
      <4>1. HAVE c.stage # "ok"
      <4>2. Reverted(page.shown, c.what) = server /\ SavedIsServers
        BY <3>2, <4>1 DEF CanGoBack
      <4>3. CASE c.what.kind = "dir"
        <5>1. c.what \in [kind : {"dir"}, old : Directories]
          BY <3>3, <4>3 DEF Whats
        <5>2. Reverted(shown, c.what) = Reverted(page.shown, c.what)
          BY <5>1 DEF Reverted, Inv, Types, Memo
        <5> QED BY <4>2, <5>2
      <4>4. CASE c.what.kind # "dir"
        <5>1. Reverted(page.shown, c.what).dir = page.shown.dir
          BY <3>3, <4>4 DEF Reverted, Whats, Inv, Types, Memo
        <5>2. page.shown.dir = server.dir
          BY <4>2, <5>1
        <5> QED BY <1>4, <2>1, <4>2, <5>2 DEF SavedIsServers
      <4> QED BY <4>3, <4>4
    <3>5. CanGoBack(c)'
      BY <2>1, <2>2, <3>2, <3>4 DEF CanGoBack, SavedIsServers
    <3> QED BY <2>1, <3>5
  <2> QED BY <2>3, <2>4 DEF Inv, NoDoubt
<1> QED BY <1>3, <1>4

\* A box is marked or cleared, and the request says which.
LEMMA ToggleKeeps == ASSUME Inv, NEW box \in Boxes, Toggle(box) PROVE Inv'
<1> DEFINE on == box \notin page.shown.checks
           what == [kind |-> "check", box |-> box, on |-> on]
           shown == [page.shown EXCEPT !.checks = Flip(page.shown.checks, box)]
<1>1. Flip(page.shown.checks, box) \in SUBSET Boxes
  BY DEF Flip, Inv, Types, Memo
<1>2. what \in Whats /\ shown \in Memo
  BY <1>1 DEF Inv, Types, Whats, Memo
<1>3. page' = [page EXCEPT !.shown = shown] /\ Send(what)
  BY DEF Toggle, Inv, Types
<1>4. calls = {} /\ ~doubt => Reverted(shown, what) = server
  <2>1. calls = {} /\ ~doubt => page.shown = server
    BY DEF Inv, NoDoubt
  <2>2. Mark(Flip(page.shown.checks, box), box, ~on) = page.shown.checks
    BY DEF Mark, Flip, Inv, Types, Memo
  <2>3. Reverted(shown, what) = [shown EXCEPT !.checks = Mark(shown.checks, box, ~on)]
    BY DEF Reverted
  <2>4. shown.checks = Flip(page.shown.checks, box)
    BY DEF Inv, Types, Memo
  <2>5. Reverted(shown, what) = page.shown
    <3>1. Mark(shown.checks, box, ~on) = page.shown.checks
      BY <2>2, <2>4
    <3>2. [shown EXCEPT !.checks = page.shown.checks] = page.shown
      BY <1>1 DEF Inv, Types, Memo
    <3> HIDE DEF what, shown
    <3> QED BY <2>3, <3>1, <3>2
  <2> QED BY <2>1, <2>5
<1> HIDE DEF what, shown
<1> QED BY <1>2, <1>3, <1>4, SendKeeps

-----------------------------------------------------------------------------
\* The server, the network and another page

\* A memo stays a memo, whatever is taken or taken back.
LEMMA MemoKept ==
  ASSUME NEW m \in Memo, NEW what \in Whats
  PROVE  Reverted(m, what) \in Memo /\ (Takes(what) => Taken(m, what) \in Memo)
<1>1. CASE what \in [kind : {"tags"}, new : SUBSET Tags, old : SUBSET Tags]
  BY <1>1 DEF Reverted, Taken, Takes, Memo
<1>2. CASE what \in [kind : {"dir"}, old : Directories]
  BY <1>2 DEF Reverted, Takes, Memo
<1>3. CASE what \in [kind : {"check"}, box : Boxes, on : BOOLEAN]
  <2>1. \A x \in BOOLEAN : Mark(m.checks, what.box, x) \in SUBSET Boxes
    BY <1>3 DEF Mark, Memo
  <2>2. what.on \in BOOLEAN /\ (~what.on) \in BOOLEAN /\ what.kind = "check"
    BY <1>3
  <2>3. \A new \in SUBSET Boxes : [m EXCEPT !.checks = new] \in Memo
    BY DEF Memo
  <2>4. /\ Reverted(m, what) = [m EXCEPT !.checks = Mark(m.checks, what.box, ~what.on)]
        /\ Taken(m, what) = [m EXCEPT !.checks = Mark(m.checks, what.box, what.on)]
    BY <2>2 DEF Reverted, Taken
  <2> QED BY <2>1, <2>2, <2>3, <2>4
<1> QED BY <1>1, <1>2, <1>3 DEF Whats

\* A request that is alone is the only one.
LEMMA OnlyOne == ASSUME Inv, NEW c \in calls, c.alone \/ ~doubt PROVE calls = {c} /\ c.alone
  BY DEF Inv, AloneIsAlone, NoDoubt, CanGoBack

\* One request moves on; the page stays as it is.  The server may change for a
\* request that succeeds, and one that fails in no doubt can still be taken back.
LEMMA BecomesKeeps ==
  ASSUME Inv, NEW c \in calls, NEW stage \in {"ok", "failed"}, NEW seen \in Memo,
         Becomes(c, stage, seen), page' = page, sent' = sent, server' \in Memo, doubt' \in BOOLEAN,
         doubt => doubt',
         stage = "ok" => seen = server',
         stage = "failed" => server' = server /\ (~doubt' => c.stage = "sent")
  PROVE  Inv'
<1> DEFINE c2 == [c EXCEPT !.stage = stage, !.seen = seen]
<1>1. c \in Calls
  BY DEF Inv, Types
<1>2. /\ c2 \in Calls /\ c2.stage = stage /\ c2.seen = seen
      /\ c2.alone = c.alone /\ c2.gen = c.gen /\ c2.what = c.what
  BY <1>1 DEF Calls
<1>3. calls' = (calls \ {c}) \cup {c2}
  BY DEF Becomes
<1> HIDE DEF c2
<1>4. Types'
  BY <1>2, <1>3 DEF Inv, Types
<1>5. AloneIsAlone'
  <2> SUFFICES ASSUME NEW d \in calls', d.alone
               PROVE  calls' = {d} /\ (d.stage = "ok" => d.seen = server')
    BY DEF AloneIsAlone
  <2>1. CASE d = c2
    <3>1. calls = {c}
      BY <1>2, <2>1, OnlyOne
    <3>2. calls' = {c2}
      BY <1>3, <3>1
    <3> QED BY <1>2, <2>1, <3>2
  <2>2. CASE d \in calls /\ d # c
    BY <2>2, OnlyOne
  <2> QED BY <1>3, <2>1, <2>2
<1>6. ASSUME ~doubt' PROVE \E d \in calls' : CanGoBack(d)'
  <2>1. ~doubt /\ calls = {c}
    BY <1>6, OnlyOne
  <2>2. CanGoBack(c)
    BY <2>1 DEF Inv, NoDoubt
  <2>3. calls' = {c2}
    BY <1>3, <2>1
  <2>4. ASSUME stage = "failed" PROVE SavedIsServers' /\ Reverted(page'.shown, c2.what) = server'
    BY <1>2, <1>6, <2>2, <2>4 DEF CanGoBack, SavedIsServers
  <2>5. CanGoBack(c2)'
    BY <1>2, <2>2, <2>3, <2>4 DEF CanGoBack
  <2> QED BY <2>3, <2>5
<1> QED BY <1>4, <1>5, <1>6 DEF Inv, NoDoubt

LEMMA ExecuteKeeps == ASSUME Inv, NEW c \in calls, Execute(c) PROVE Inv'
<1>1. c.what \in Whats /\ server \in Memo /\ doubt \in BOOLEAN
  BY DEF Inv, Types, Calls
<1>2. c.stage = "sent" /\ UNCHANGED <<page, sent, doubt>>
  BY DEF Execute
<1>3. CASE Takes(c.what)
  <2>1. server' \in Memo /\ Becomes(c, "ok", server')
    BY <1>1, <1>3, MemoKept DEF Execute
  <2> QED BY <1>1, <1>2, <2>1, BecomesKeeps
<1>4. CASE ~Takes(c.what)
  <2>1. server' = server /\ Becomes(c, "failed", server)
    BY <1>4 DEF Execute
  <2> QED BY <1>1, <1>2, <2>1, BecomesKeeps
<1> QED BY <1>3, <1>4

LEMMA NetworkFailsKeeps == ASSUME Inv, NEW c \in calls, NetworkFails(c) PROVE Inv'
<1>1. c.seen \in Memo /\ server \in Memo /\ doubt \in BOOLEAN
  BY DEF Inv, Types, Calls
<1>2. /\ c.stage \in {"sent", "ok"} /\ Becomes(c, "failed", c.seen)
      /\ UNCHANGED <<server, page, sent>> /\ doubt' = (doubt \/ c.stage = "ok")
  BY DEF NetworkFails
<1>3. doubt' \in BOOLEAN /\ (doubt => doubt') /\ (~doubt' => c.stage = "sent")
  BY <1>1, <1>2
<1> QED BY <1>1, <1>2, <1>3, BecomesKeeps

LEMMA ElsewhereKeeps == ASSUME Inv, NEW t \in Tags, Elsewhere(t) PROVE Inv'
<1>1. server' \in Memo
  BY DEF Elsewhere, Inv, Types, Memo
<1>2. \A c \in calls : [c EXCEPT !.alone = FALSE] \in Calls /\ ~[c EXCEPT !.alone = FALSE].alone
  BY DEF Inv, Types, Calls
<1>3. Types'
  BY <1>1, <1>2 DEF Elsewhere, Inv, Types
<1>4. AloneIsAlone' /\ doubt'
  BY <1>2 DEF Elsewhere, AloneIsAlone
<1> QED BY <1>3, <1>4 DEF Inv, NoDoubt

-----------------------------------------------------------------------------
\* Answers

\* A request that leaves no other in no doubt leaves none.
LEMMA AnswerLeaves ==
  ASSUME Inv, NEW c \in calls, calls' = calls \ {c}, server' = server
  PROVE  AloneIsAlone' /\ (c.alone \/ ~doubt => calls' = {})
<1>1. \A d \in calls' : ~d.alone
  BY OnlyOne
<1>2. c.alone \/ ~doubt => calls' = {}
  BY OnlyOne
<1> QED BY <1>1, <1>2 DEF AloneIsAlone

LEMMA SucceededKeeps == ASSUME Inv, NEW c \in calls, Succeeded(c) PROVE Inv'
<1>1. /\ c.stage = "ok" /\ page' = Fresh(c.seen, page.gen + 1) /\ calls' = calls \ {c}
      /\ doubt' = (doubt /\ ~c.alone) /\ UNCHANGED <<server, sent>>
  BY DEF Succeeded, NewContent
<1>2. c.seen \in Memo /\ c.alone \in BOOLEAN
  BY DEF Inv, Types, Calls
<1>3. Types'
  BY <1>1, <1>2 DEF Fresh, Inv, Types, Memo
<1>4. AloneIsAlone' /\ (c.alone \/ ~doubt => calls' = {})
  BY <1>1, AnswerLeaves
<1>5. ASSUME ~doubt' PROVE page'.shown = server' /\ SavedIsServers' /\ calls' = {}
  <2>1. c.alone \/ ~doubt
    BY <1>1, <1>5 DEF Inv, Types
  <2>2. c.seen = server
    BY <1>1, <2>1, OnlyOne DEF Inv, AloneIsAlone
  <2> QED BY <1>1, <1>4, <2>1, <2>2 DEF Fresh, SavedIsServers
<1> QED BY <1>3, <1>4, <1>5 DEF Inv, NoDoubt

LEMMA FailedKeeps == ASSUME Inv, NEW c \in calls, Failed(c) PROVE Inv'
<1>1. /\ c.stage = "failed" /\ calls' = calls \ {c} /\ UNCHANGED <<server, sent, doubt>>
      /\ page' = IF c.gen = page.gen THEN [page EXCEPT !.shown = Reverted(@, c.what)] ELSE page
  BY DEF Failed
<1>2. Reverted(page.shown, c.what) \in Memo
  BY MemoKept DEF Inv, Types, Calls
<1>3. /\ page' \in [shown : Memo, savedTags : SUBSET Tags, savedDir : Directories, gen : Nat]
      /\ page'.savedTags = page.savedTags /\ page'.savedDir = page.savedDir
      /\ c.gen = page.gen => page'.shown = Reverted(page.shown, c.what)
  BY <1>1, <1>2 DEF Inv, Types
<1>4. Types'
  BY <1>1, <1>3 DEF Inv, Types
<1>5. AloneIsAlone' /\ (c.alone \/ ~doubt => calls' = {})
  BY <1>1, AnswerLeaves
<1>6. ASSUME ~doubt' PROVE page'.shown = server' /\ SavedIsServers' /\ calls' = {}
  <2>1. calls = {c} /\ ~doubt
    BY <1>1, <1>6, OnlyOne
  <2>2. CanGoBack(c)
    BY <2>1 DEF Inv, NoDoubt
  <2> QED BY <1>1, <1>3, <1>5, <2>1, <2>2 DEF CanGoBack, SavedIsServers
<1> QED BY <1>4, <1>5, <1>6 DEF Inv, NoDoubt

-----------------------------------------------------------------------------
\* The theorem

LEMMA InitInv == Init => Inv
<1> SUFFICES ASSUME Init PROVE Inv
  OBVIOUS
<1>1. server \in Memo /\ page = Fresh(server, 0) /\ calls = {} /\ sent = 0 /\ doubt = FALSE
  BY DEF Init
<1>2. page \in [shown : Memo, savedTags : SUBSET Tags, savedDir : Directories, gen : Nat]
  BY <1>1 DEF Fresh, Memo
<1>3. Types
  BY <1>1, <1>2 DEF Types
<1>4. AloneIsAlone /\ NoDoubt
  BY <1>1 DEF AloneIsAlone, NoDoubt, SavedIsServers, Fresh
<1> QED BY <1>3, <1>4 DEF Inv

LEMMA NextKeeps == Inv /\ [Next]_vars => Inv'
<1> SUFFICES ASSUME Inv, [Next]_vars PROVE Inv'
  OBVIOUS
<1>1. ASSUME NEW t \in Tags, AddTag(t) \/ RemoveTag(t) PROVE Inv'
  <2>1. page.shown.tags \cup {t} \in SUBSET Tags /\ page.shown.tags \ {t} \in SUBSET Tags
    BY DEF Inv, Types, Memo
  <2> QED BY <1>1, <2>1, ApplyTagsKeeps DEF AddTag, RemoveTag
<1>2. CASE UNCHANGED vars
  BY <1>2 DEF vars, Inv, Types, AloneIsAlone, NoDoubt, CanGoBack, SavedIsServers
<1> QED
  BY <1>1, <1>2, ElsewhereKeeps, ChooseDirectoryKeeps, ToggleKeeps, ExecuteKeeps, NetworkFailsKeeps,
     SucceededKeeps, FailedKeeps DEF Next

\* Whatever is changed, refused, lost or answered out of order: a page with
\* nothing under way and in no doubt shows the memo the server has (the
\* reverting of memo_show_metadata_controller.js and memo_checklist_controller.js).
THEOREM ShowsServer == Spec => []PageShowsServer
<1>1. Inv => PageShowsServer
  BY DEF Inv, NoDoubt, CanGoBack, PageShowsServer
<1> QED BY <1>1, InitInv, NextKeeps, PTL DEF Spec

-----------------------------------------------------------------------------
\* The sidebars

\* One sidebar: the kinds of what is kept and shown, no more than its own greatest
\* width, and what a layout makes of its width now and of the stored one later.
BarKinds(s) ==
  /\ width[s] \in Int /\ folded[s] \in BOOLEAN /\ dragging[s] \in BOOLEAN /\ cap[s] \in Int
  /\ stored[s].width \in Int /\ stored[s].folded \in BOOLEAN
BarFits(s) ==
  Bars!Wide(window) => barShown[s] \in Int /\ barShown[s] <= Bars!Most(s, window)
BarKeeps(s) ==
  /\ folded[s] = stored[s].folded /\ Least <= cap[s]
  /\ width[s] <= cap[s] \/ cap[s] = Bars!Uncapped
  /\ Bars!Clamp(width[s], Least, cap[s]) = Bars!Clamp(stored[s].width, Least, cap[s])
  /\ Bars!Wide(window) =>
       barShown[s] = IF folded[s] THEN 0 ELSE Bars!Clamp(stored[s].width, Least, cap[s])
BarOK(s) == BarKinds(s) /\ BarFits(s) /\ (~dragging[s] => BarKeeps(s))

BarsInv ==
  /\ window \in Windows
  /\ width = [s \in Bars!Sides |-> width[s]] /\ folded = [s \in Bars!Sides |-> folded[s]]
  /\ dragging = [s \in Bars!Sides |-> dragging[s]] /\ barShown = [s \in Bars!Sides |-> barShown[s]]
  /\ cap = [s \in Bars!Sides |-> cap[s]] /\ stored = [s \in Bars!Sides |-> stored[s]]
  /\ \A s \in Bars!Sides : BarOK(s)

\* A sidebar's greatest width is at least its least in a wide window, and the two
\* make up the window at most.
LEMMA BarsBounds ==
  ASSUME Bars!SidebarsAssumption, NEW w \in Windows
  PROVE  /\ w \in Nat /\ Least \in Nat /\ Narrow \in Nat /\ Bars!Uncapped \in Nat
         /\ \A s \in Bars!Sides : Bars!Most(s, w) \in Nat /\ Bars!Most(s, w) <= Bars!Uncapped
         /\ Bars!Wide(w) => \A s \in Bars!Sides : Least <= Bars!Most(s, w)
         /\ Bars!Most("memo", w) + Bars!Most("ai", w) <= w
         /\ Least <= Bars!Uncapped
<1>1. w \in Nat /\ {Least, Narrow, MemoTop, AiTop} \subseteq Nat
      /\ Least <= (45 * Narrow) \div 100 /\ Least <= MemoTop /\ Least <= AiTop
  BY DEF Bars!SidebarsAssumption
<1>2. /\ (55 * w) \div 100 \in Nat /\ (45 * w) \div 100 \in Nat
      /\ (55 * w) \div 100 + (45 * w) \div 100 <= w /\ (45 * w) \div 100 <= (55 * w) \div 100
      /\ w >= Narrow => (45 * Narrow) \div 100 <= (45 * w) \div 100
  BY <1>1
<1> DEFINE mine == (55 * w) \div 100
           theirs == (45 * w) \div 100
<1>3. /\ Bars!Most("memo", w) = (IF mine < MemoTop THEN mine ELSE MemoTop)
      /\ Bars!Most("ai", w) = (IF theirs < AiTop THEN theirs ELSE AiTop)
  BY DEF Bars!Most, Bars!MemoMax, Bars!AiMax, Bars!AtMost
<1>4. /\ mine \in Nat /\ theirs \in Nat /\ mine + theirs <= w /\ theirs <= mine
      /\ w >= Narrow => Least <= theirs
  BY <1>1, <1>2
<1> HIDE DEF mine, theirs
<1>5. Bars!Uncapped = IF MemoTop > AiTop THEN MemoTop ELSE AiTop
  BY DEF Bars!Uncapped
<1> QED BY <1>1, <1>3, <1>4, <1>5 DEF Bars!Sides, Bars!Wide

\* What is laid out in a window that allows m, of a width x that has been allowed
\* c until now, where y is stored.
LEMMA BarClamped ==
  ASSUME NEW x \in Int, NEW y \in Int, NEW min \in Int, NEW c \in Int, NEW m \in Int, min <= c, min <= m,
         x <= c \/ m <= c, Bars!Clamp(x, min, c) = Bars!Clamp(y, min, c)
  PROVE  /\ Bars!Clamp(x, min, m) \in Int /\ Bars!AtMost(m, c) \in Int
         /\ min <= Bars!AtMost(m, c) /\ Bars!Clamp(x, min, m) <= m
         /\ Bars!Clamp(x, min, m) <= Bars!AtMost(m, c)
         /\ Bars!Clamp(x, min, m) = Bars!Clamp(y, min, Bars!AtMost(m, c))
         /\ Bars!Clamp(Bars!Clamp(x, min, m), min, Bars!AtMost(m, c))
              = Bars!Clamp(y, min, Bars!AtMost(m, c))
BY DEF Bars!Clamp, Bars!AtMost

\* Clamping gives a width, and none above the greatest.
LEMMA BarClampKind ==
  ASSUME NEW x \in Int, NEW min \in Int, NEW m \in Int
  PROVE  Bars!Clamp(x, min, m) \in Int /\ Bars!Clamp(x, min, m) <= m
BY DEF Bars!Clamp, Bars!AtMost

\* One sidebar after a layout for the width x, which has been allowed c until now.
LEMMA BarLaidOut ==
  ASSUME Bars!SidebarsAssumption, NEW s \in Bars!Sides, NEW x \in Int, NEW c \in Int,
         window' \in Windows, folded'[s] \in BOOLEAN, dragging'[s] \in BOOLEAN,
         stored'[s].width \in Int, stored'[s].folded \in BOOLEAN,
         width'[s] = Bars!Width(s, x, folded'[s], window'),
         barShown'[s] = Bars!Display(s, x, folded'[s], window'),
         cap'[s] = Bars!Capped(s, c, folded'[s], window'),
         ~dragging'[s] =>
           /\ folded'[s] = stored'[s].folded /\ Least <= c /\ (x <= c \/ c = Bars!Uncapped)
           /\ Bars!Clamp(x, Least, c) = Bars!Clamp(stored'[s].width, Least, c)
  PROVE  BarOK(s)'
<1> DEFINE m == Bars!Most(s, window')
           y == stored'[s].width
<1>1. /\ m \in Int /\ m <= Bars!Uncapped /\ Least \in Int /\ 0 <= m /\ y \in Int
      /\ Bars!Wide(window') => Least <= m
  BY BarsBounds
<1>2. CASE ~Bars!Wide(window') \/ folded'[s]
  <2>1. width'[s] = x /\ cap'[s] = c /\ (Bars!Wide(window') => barShown'[s] = 0)
    BY <1>2 DEF Bars!Width, Bars!Capped, Bars!Display
  <2>2. BarKinds(s)'
    BY <2>1 DEF BarKinds
  <2>3. BarFits(s)'
    BY <1>1, <2>1 DEF BarFits
  <2>4. ~dragging'[s] => BarKeeps(s)'
    BY <1>2, <2>1 DEF BarKeeps
  <2> QED BY <2>2, <2>3, <2>4 DEF BarOK
<1>3. CASE Bars!Wide(window') /\ ~folded'[s]
  <2>1. /\ width'[s] = Bars!Clamp(x, Least, m) /\ cap'[s] = Bars!AtMost(m, c)
        /\ barShown'[s] = Bars!Clamp(x, Least, m)
    BY <1>3 DEF Bars!Width, Bars!Capped, Bars!Display
  <2> HIDE DEF m
  <2>2. width'[s] \in Int /\ barShown'[s] \in Int /\ barShown'[s] <= m
    BY <1>1, <2>1, BarClampKind
  <2>3. cap'[s] \in Int
    BY <1>1, <2>1 DEF Bars!AtMost
  <2>4. BarKinds(s)'
    BY <2>2, <2>3 DEF BarKinds
  <2>5. BarFits(s)'
    BY <2>2 DEF BarFits, m
  <2>6. ASSUME ~dragging'[s] PROVE BarKeeps(s)'
    <3>1. Least <= c /\ (x <= c \/ m <= c) /\ Bars!Clamp(x, Least, c) = Bars!Clamp(y, Least, c) /\ Least <= m
      BY <1>1, <1>3, <2>6
    <3> HIDE DEF y
    <3>2. /\ Least <= cap'[s] /\ width'[s] <= cap'[s] /\ barShown'[s] = Bars!Clamp(y, Least, cap'[s])
          /\ Bars!Clamp(width'[s], Least, cap'[s]) = Bars!Clamp(y, Least, cap'[s])
      BY <1>1, <2>1, <3>1, BarClamped
    <3> QED BY <1>3, <2>6, <3>2 DEF BarKeeps, y
  <2> QED BY <2>4, <2>5, <2>6 DEF BarOK
<1> QED BY <1>2, <1>3

\* The same for a width that is stored with the layout.
LEMMA BarStored ==
  ASSUME Bars!SidebarsAssumption, NEW s \in Bars!Sides, NEW x \in Int,
         window' \in Windows, folded'[s] \in BOOLEAN, dragging'[s] \in BOOLEAN,
         stored'[s] = [width |-> x, folded |-> folded'[s]],
         width'[s] = Bars!Width(s, x, folded'[s], window'),
         barShown'[s] = Bars!Display(s, x, folded'[s], window'),
         cap'[s] = Bars!Capped(s, Bars!Uncapped, folded'[s], window')
  PROVE  BarOK(s)'
<1>1. Bars!Uncapped \in Int /\ Least <= Bars!Uncapped
  BY BarsBounds
<1>2. stored'[s].width = x /\ stored'[s].folded = folded'[s]
  OBVIOUS
<1> QED BY <1>1, <1>2, BarLaidOut

\* A sidebar of which nothing changes.
LEMMA BarSame ==
  ASSUME NEW s \in Bars!Sides, BarOK(s), window' = window, width'[s] = width[s], folded'[s] = folded[s],
         dragging'[s] = dragging[s], barShown'[s] = barShown[s], cap'[s] = cap[s], stored'[s] = stored[s]
  PROVE  BarOK(s)'
<1>1. BarKinds(s)'
  BY DEF BarOK, BarKinds
<1>2. BarFits(s)'
  BY DEF BarOK, BarFits, Bars!Wide, Bars!Most, Bars!MemoMax, Bars!AiMax
<1>3. ~dragging'[s] => BarKeeps(s)'
  BY DEF BarOK, BarKeeps, Bars!Wide
<1> QED BY <1>1, <1>2, <1>3 DEF BarOK

LEMMA BarsInit == ASSUME Bars!SidebarsAssumption, Bars!Init PROVE BarsInv
<1>1. window \in Windows
  BY DEF Bars!Init
<1>2. ASSUME NEW s \in Bars!Sides PROVE BarOK(s)
  <2>1. stored[s].width \in Nat /\ stored[s].folded \in BOOLEAN
    BY DEF Bars!Init, Bars!SidebarsAssumption
  <2> DEFINE x == stored[s].width
             m == Bars!Most(s, window)
             c == Bars!Uncapped
  <2>2. /\ folded[s] = stored[s].folded /\ dragging[s] = FALSE
        /\ width[s] = Bars!Width(s, x, folded[s], window)
        /\ barShown[s] = Bars!Display(s, x, folded[s], window)
        /\ cap[s] = Bars!Capped(s, c, folded[s], window)
    BY DEF Bars!Init
  <2>3. /\ m \in Int /\ m <= c /\ c \in Int /\ Least \in Int /\ 0 <= m /\ Least <= c /\ x \in Int
        /\ Bars!Wide(window) => Least <= m
    BY <1>1, <2>1, BarsBounds
  <2>4. CASE ~Bars!Wide(window) \/ folded[s]
    <3>1. width[s] = x /\ cap[s] = c /\ (Bars!Wide(window) => barShown[s] = 0)
      BY <2>2, <2>4 DEF Bars!Width, Bars!Capped, Bars!Display
    <3>2. BarKinds(s)
      BY <2>1, <2>2, <2>3, <3>1 DEF BarKinds
    <3>3. BarFits(s)
      BY <2>3, <3>1 DEF BarFits
    <3>4. BarKeeps(s)
      BY <2>2, <2>3, <2>4, <3>1 DEF BarKeeps
    <3> QED BY <3>2, <3>3, <3>4 DEF BarOK
  <2>5. CASE Bars!Wide(window) /\ ~folded[s]
    <3>1. /\ width[s] = Bars!Clamp(x, Least, m) /\ cap[s] = Bars!AtMost(m, c)
          /\ barShown[s] = Bars!Clamp(x, Least, m)
      BY <2>2, <2>5 DEF Bars!Width, Bars!Capped, Bars!Display
    <3> HIDE DEF x, m, c
    <3>2. /\ width[s] \in Int /\ cap[s] \in Int /\ barShown[s] \in Int /\ barShown[s] <= m
          /\ Least <= cap[s] /\ width[s] <= cap[s] /\ barShown[s] = Bars!Clamp(x, Least, cap[s])
          /\ Bars!Clamp(width[s], Least, cap[s]) = Bars!Clamp(x, Least, cap[s])
      BY <2>3, <2>5, <3>1, BarClamped
    <3>3. BarKinds(s)
      <4>1. folded[s] \in BOOLEAN /\ dragging[s] \in BOOLEAN
        BY <2>1, <2>2
      <4> QED BY <2>1, <3>2, <4>1 DEF BarKinds
    <3>4. BarFits(s)
      BY <3>2 DEF BarFits, m
    <3>5. BarKeeps(s)
      BY <2>2, <2>5, <3>2 DEF BarKeeps, x
    <3> QED BY <3>3, <3>4, <3>5 DEF BarOK
  <2> QED BY <2>4, <2>5
<1>3. /\ width = [s \in Bars!Sides |-> width[s]] /\ folded = [s \in Bars!Sides |-> folded[s]]
      /\ dragging = [s \in Bars!Sides |-> dragging[s]] /\ barShown = [s \in Bars!Sides |-> barShown[s]]
      /\ cap = [s \in Bars!Sides |-> cap[s]] /\ stored = [s \in Bars!Sides |-> stored[s]]
  BY DEF Bars!Init
<1> QED BY <1>1, <1>2, <1>3 DEF BarsInv

\* A step that touches one sidebar and keeps it right keeps both.
LEMMA BarsOne ==
  ASSUME BarsInv, NEW s \in Bars!Sides, BarOK(s)', window' = window,
         width' = [width EXCEPT ![s] = width'[s]], folded' = [folded EXCEPT ![s] = folded'[s]],
         dragging' = [dragging EXCEPT ![s] = dragging'[s]], barShown' = [barShown EXCEPT ![s] = barShown'[s]],
         cap' = [cap EXCEPT ![s] = cap'[s]], stored' = [stored EXCEPT ![s] = stored'[s]]
  PROVE  BarsInv'
<1>1. ASSUME NEW u \in Bars!Sides, u # s PROVE BarOK(u)'
  <2>1. /\ width'[u] = width[u] /\ folded'[u] = folded[u] /\ dragging'[u] = dragging[u]
        /\ barShown'[u] = barShown[u] /\ cap'[u] = cap[u] /\ stored'[u] = stored[u]
    BY <1>1 DEF BarsInv
  <2> QED BY <2>1, BarSame DEF BarsInv
<1>2. \A u \in Bars!Sides : BarOK(u)'
  BY <1>1
<1>3. /\ width' = [u \in Bars!Sides |-> width'[u]] /\ folded' = [u \in Bars!Sides |-> folded'[u]]
      /\ dragging' = [u \in Bars!Sides |-> dragging'[u]] /\ barShown' = [u \in Bars!Sides |-> barShown'[u]]
      /\ cap' = [u \in Bars!Sides |-> cap'[u]] /\ stored' = [u \in Bars!Sides |-> stored'[u]]
  BY DEF BarsInv
<1> QED BY <1>2, <1>3 DEF BarsInv

\* What is written for one sidebar, and its layout.
LEMMA BarWritten ==
  ASSUME Bars!SidebarsAssumption, BarsInv, NEW s \in Bars!Sides, NEW x \in Int, window' = window,
         folded' = [folded EXCEPT ![s] = folded'[s]], folded'[s] \in BOOLEAN,
         dragging' = [dragging EXCEPT ![s] = dragging'[s]], dragging'[s] \in BOOLEAN,
         stored' = Bars!Written(s, x, folded'[s]),
         Bars!LaidOut(s, x, folded'[s], window, Bars!Uncapped)
  PROVE  BarsInv'
<1>1. /\ width' = [width EXCEPT ![s] = Bars!Width(s, x, folded'[s], window)]
      /\ barShown' = [barShown EXCEPT ![s] = Bars!Display(s, x, folded'[s], window)]
      /\ cap' = [cap EXCEPT ![s] = Bars!Capped(s, Bars!Uncapped, folded'[s], window)]
  BY DEF Bars!LaidOut
<1>2. /\ width'[s] = Bars!Width(s, x, folded'[s], window)
      /\ barShown'[s] = Bars!Display(s, x, folded'[s], window)
      /\ cap'[s] = Bars!Capped(s, Bars!Uncapped, folded'[s], window)
  BY <1>1 DEF BarsInv
<1>3. stored' = [stored EXCEPT ![s] = [width |-> x, folded |-> folded'[s]]]
  BY DEF Bars!Written
<1>4. stored'[s] = [width |-> x, folded |-> folded'[s]]
  BY <1>3 DEF BarsInv
<1>5. window' \in Windows
  BY DEF BarsInv
<1>6. BarOK(s)'
  BY <1>2, <1>4, <1>5, BarStored
<1> QED BY <1>1, <1>2, <1>3, <1>4, <1>6, BarsOne

LEMMA BarsNext == ASSUME Bars!SidebarsAssumption, BarsInv, [Bars!Next]_(Bars!vars) PROVE BarsInv'
<1>0. window \in Windows /\ \A s \in Bars!Sides : BarKinds(s)
  BY DEF BarsInv, BarOK
<1>1. ASSUME NEW s \in Bars!Sides, Bars!Toggle(s) PROVE BarsInv'
  <2>1. folded'[s] = ~folded[s]
    BY <1>1 DEF Bars!Toggle, BarsInv
  <2> QED BY <1>0, <1>1, <2>1, BarWritten DEF Bars!Toggle, BarKinds, BarsInv
<1>2. ASSUME NEW s \in Bars!Sides, Bars!PointerDown(s) PROVE BarsInv'
  <2>1. dragging'[s] = TRUE
    BY <1>2 DEF Bars!PointerDown, BarsInv
  <2>2. BarOK(s)'
    <3>1. BarKinds(s)'
      BY <1>0, <1>2, <2>1 DEF Bars!PointerDown, BarKinds
    <3>2. BarFits(s)'
      BY <1>2 DEF Bars!PointerDown, BarsInv, BarOK, BarFits, Bars!Wide, Bars!Most, Bars!MemoMax, Bars!AiMax
    <3> QED BY <2>1, <3>1, <3>2 DEF BarOK
  <2> QED BY <1>2, <2>1, <2>2, BarsOne DEF Bars!PointerDown, BarsInv
<1>3. ASSUME NEW s \in Bars!Sides, Bars!DragEnd(s) PROVE BarsInv'
  <2>1. dragging'[s] = FALSE /\ folded'[s] = folded[s]
    BY <1>3 DEF Bars!DragEnd, BarsInv
  <2> QED BY <1>0, <1>3, <2>1, BarWritten DEF Bars!DragEnd, Bars!DragEndLayout, BarKinds, BarsInv
<1>4. ASSUME NEW s \in Bars!Sides, NEW x \in 0 .. window, Bars!Drag(s, x) PROVE BarsInv'
  <2> DEFINE new == Bars!Clamp(x, Least, Bars!Most(s, window))
  <2>1. x \in Int /\ Least \in Int /\ Bars!Most(s, window) \in Int
    BY <1>0, BarsBounds
  <2>2. new \in Int /\ new <= Bars!Most(s, window)
    BY <2>1, BarClampKind
  <2>3. /\ width' = [width EXCEPT ![s] = new] /\ barShown' = [barShown EXCEPT ![s] = new]
        /\ UNCHANGED <<window, folded, dragging, stored, cap>> /\ dragging[s]
    BY <1>4 DEF Bars!Drag
  <2> HIDE DEF new
  <2>4. width'[s] = new /\ barShown'[s] = new
    BY <2>3 DEF BarsInv
  <2>5. BarOK(s)'
    <3>1. BarKinds(s)'
      BY <1>0, <2>2, <2>3, <2>4 DEF BarKinds
    <3>2. BarFits(s)'
      BY <2>2, <2>3, <2>4 DEF BarFits, Bars!Most, Bars!MemoMax, Bars!AiMax
    <3> QED BY <2>3, <3>1, <3>2 DEF BarOK
  <2> QED BY <2>3, <2>4, <2>5, BarsOne DEF BarsInv
<1>5. ASSUME NEW s \in Bars!Sides, NEW step \in Steps, Bars!Keydown(s, step) PROVE BarsInv'
  <2>1. /\ Least \in Int /\ Bars!Most(s, window) \in Int /\ step \in Int /\ width[s] \in Int
    BY <1>0, BarsBounds DEF Bars!SidebarsAssumption, BarKinds
  <2>2. PICK x \in {width[s] - step, width[s] + step, Least, Bars!Most(s, window)} :
          LET new == Bars!Clamp(x, Least, Bars!Most(s, window))
          IN  /\ stored' = Bars!Written(s, new, folded[s])
              /\ Bars!LaidOut(s, new, folded[s], window, Bars!Uncapped)
    BY <1>5 DEF Bars!Keydown
  <2> DEFINE new == Bars!Clamp(x, Least, Bars!Most(s, window))
  <2>3. x \in Int
    BY <2>1, <2>2
  <2>4. new \in Int
    BY <2>1, <2>3, BarClampKind
  <2>5. stored' = Bars!Written(s, new, folded[s]) /\ Bars!LaidOut(s, new, folded[s], window, Bars!Uncapped)
    BY <2>2
  <2> HIDE DEF new
  <2> QED BY <1>0, <1>5, <2>4, <2>5, BarWritten DEF Bars!Keydown, BarKinds, BarsInv
<1>6. ASSUME NEW w \in Windows, Bars!Resize(w) PROVE BarsInv'
  <2>1. ASSUME NEW s \in Bars!Sides PROVE BarOK(s)'
    <3>1. /\ window' = w /\ folded'[s] = folded[s] /\ dragging'[s] = dragging[s] /\ stored'[s] = stored[s]
          /\ width'[s] = Bars!Width(s, width[s], folded'[s], w)
          /\ barShown'[s] = Bars!Display(s, width[s], folded'[s], w)
          /\ cap'[s] = Bars!Capped(s, cap[s], folded'[s], w)
      BY <1>6 DEF Bars!Resize
    <3>2. BarKinds(s) /\ (~dragging[s] => BarKeeps(s))
      BY DEF BarsInv, BarOK
    <3> QED BY <3>1, <3>2, BarLaidOut DEF BarKinds, BarKeeps
  <2> QED BY <1>6, <2>1 DEF Bars!Resize, BarsInv
<1>7. CASE Bars!Visit
  <2>1. ASSUME NEW s \in Bars!Sides PROVE BarOK(s)'
    <3> DEFINE x == stored'[s].width
    <3>1. x \in Int /\ stored'[s].folded \in BOOLEAN
      BY <1>0, <1>7 DEF Bars!Visit, BarKinds
    <3>2. /\ window' = window /\ folded'[s] = stored'[s].folded /\ dragging'[s] = FALSE
          /\ width'[s] = Bars!Width(s, x, folded'[s], window)
          /\ barShown'[s] = Bars!Display(s, x, folded'[s], window)
          /\ cap'[s] = Bars!Capped(s, Bars!Uncapped, folded'[s], window)
      BY <1>7 DEF Bars!Visit, Bars!Connected
    <3>3. Bars!Uncapped \in Int /\ Least <= Bars!Uncapped
      BY <1>0, BarsBounds
    <3> QED BY <1>0, <3>1, <3>2, <3>3, BarLaidOut
  <2> QED BY <1>7, <2>1 DEF Bars!Visit, Bars!Connected, BarsInv
<1>8. CASE UNCHANGED Bars!vars
  <2>1. ASSUME NEW s \in Bars!Sides PROVE BarOK(s)'
    BY <1>8, BarSame DEF Bars!vars, BarsInv
  <2> QED BY <1>8, <2>1 DEF Bars!vars, BarsInv
<1> QED BY <1>1, <1>2, <1>3, <1>4, <1>5, <1>6, <1>7, <1>8 DEF Bars!Next

\* Whatever is dragged, folded and kept, and however the window is resized
\* (memo_sidebar_controller and memo_ai_sidebar_controller): the two sidebars are
\* together no wider than the window, and each has the width and the fold the
\* storage has, as far as the windows since then allowed.
THEOREM BarsShareRoom == ASSUME Bars!SidebarsAssumption PROVE Bars!Spec => []Bars!RoomIsShared
<1>1. ASSUME BarsInv PROVE Bars!RoomIsShared
  <2>1. ASSUME Bars!Wide(window) PROVE barShown["memo"] + barShown["ai"] <= window
    <3>1. "memo" \in Bars!Sides /\ "ai" \in Bars!Sides
      BY DEF Bars!Sides
    <3>2. BarFits("memo") /\ BarFits("ai")
      BY <1>1, <3>1 DEF BarsInv, BarOK
    <3>3. /\ Bars!Most("memo", window) \in Nat /\ Bars!Most("ai", window) \in Nat /\ window \in Nat
          /\ Bars!Most("memo", window) + Bars!Most("ai", window) <= window
      BY <1>1, <3>1, BarsBounds DEF BarsInv
    <3> QED BY <2>1, <3>2, <3>3 DEF BarFits
  <2>2. ASSUME NEW s \in Bars!Sides, ~dragging[s] PROVE BarKeeps(s)
    BY <1>1, <2>2 DEF BarsInv, BarOK
  <2> QED BY <2>1, <2>2 DEF Bars!RoomIsShared, BarKeeps
<1> QED BY <1>1, BarsInit, BarsNext, PTL DEF Bars!Spec

-----------------------------------------------------------------------------
\* The list of memos

\* The first n memos the server finds for a query.
ListFirst(q, n) == [i \in 1 .. n |-> findings[q][i]]

\* While nothing changed the rows are the first the server finds, and the one request
\* of the list asks for those behind them; the search in flight is for the query of the
\* heading.
ListInv ==
  /\ findings \in [Queries -> Seq(Nat)]
  /\ text \in Queries /\ heading \in Queries /\ search \subseteq {heading} /\ failed \in BOOLEAN
  /\ list \in List!Lists
  /\ ~list.changed =>
       /\ list.rows = ListFirst(list.query, list.offset)
       /\ list.total = Len(findings[list.query]) /\ list.offset <= list.total
       /\ list.more = (list.offset < list.total)
  /\ list.more => Len(list.rows) < list.total
  /\ (~list.loading => list.asked = <<>>) /\ list.asked \in {<<>>, <<list.offset>>}
  /\ search = {} /\ ~failed => heading = list.query

\* The rows behind the first n, appended to them, are the first of more.
LEMMA ListRows ==
  ASSUME NEW q, NEW n \in Nat, findings[q] \in Seq(Nat), Page \in Nat
  PROVE  /\ List!Rows(q, n) \in Seq(Nat) /\ Len(List!Rows(q, n)) \in Nat
         /\ n <= Len(findings[q]) =>
              LET m == n + Len(List!Rows(q, n)) IN
              /\ m \in Nat /\ m <= Len(findings[q]) /\ ListFirst(q, n) \o List!Rows(q, n) = ListFirst(q, m)
              /\ Len(ListFirst(q, m)) = m
<1> DEFINE f == findings[q]
           l == Len(f)
           k == List!Least(Page, l - n)
<1>0. f \in Seq(Nat) /\ l \in Nat /\ \A i \in 1 .. l : f[i] \in Nat
  OBVIOUS
<1>1. List!Rows(q, n) = [i \in 1 .. k |-> f[n + i]]
  BY DEF List!Rows
<1>2. CASE n <= l
  <2>1. k \in Nat /\ k <= l - n
    BY <1>0, <1>2 DEF List!Least
  <2> HIDE DEF f, l, k
  <2>2. \A i \in 1 .. k : f[n + i] \in Nat
    BY <1>0, <2>1
  <2>3. List!Rows(q, n) \in Seq(Nat) /\ Len(List!Rows(q, n)) = k
    BY <1>1, <2>1, <2>2
  <2>4. ListFirst(q, n) = [i \in 1 .. n |-> f[i]] /\ ListFirst(q, n + k) = [i \in 1 .. n + k |-> f[i]]
    BY DEF ListFirst, f
  <2>5. \A i \in 1 .. n + k : f[i] \in Nat
    BY <1>0, <2>1
  <2>6. ListFirst(q, n) \in Seq(Nat) /\ Len(ListFirst(q, n)) = n
    <3>1. \A i \in 1 .. n : f[i] \in Nat
      BY <2>1, <2>5
    <3> QED BY <2>4, <3>1
  <2>7. ListFirst(q, n + k) \in Seq(Nat) /\ Len(ListFirst(q, n + k)) = n + k
    <3> DEFINE m == n + k
    <3>1. m \in Nat
      BY <2>1
    <3>2. ListFirst(q, m) = [i \in 1 .. m |-> f[i]] /\ \A i \in 1 .. m : f[i] \in Nat
      BY <2>4, <2>5
    <3> HIDE DEF m
    <3>3. ListFirst(q, m) \in Seq(Nat) /\ Len(ListFirst(q, m)) = m
      BY <3>1, <3>2
    <3> QED BY <3>3 DEF m
  <2>8. ListFirst(q, n) \o List!Rows(q, n) = ListFirst(q, n + k)
    BY <1>1, <2>1, <2>3, <2>4, <2>6, <2>7
  <2>9. n + k \in Nat /\ n + k <= l
    BY <1>0, <2>1
  <2> QED BY <2>1, <2>3, <2>7, <2>8, <2>9 DEF l, f
<1>3. CASE ~(n <= l)
  <2>1. k < 0 /\ k \in Int
    BY <1>0, <1>3 DEF List!Least
  <2> HIDE DEF f, k
  <2>2. List!Rows(q, n) = <<>>
    BY <1>1, <2>1
  <2> QED BY <1>3, <2>2 DEF f
<1> QED BY <1>2, <1>3

LEMMA ListFresh ==
  ASSUME List!SidebarAssumption, findings \in [Queries -> Seq(Nat)], NEW q \in Queries
  PROVE  LET l == List!Fresh(q) IN
         /\ l \in List!Lists /\ l.query = q /\ l.rows = ListFirst(q, l.offset)
         /\ l.total = Len(findings[q]) /\ l.offset <= l.total /\ l.more = (l.offset < l.total)
         /\ Len(l.rows) = l.offset /\ ~l.loading /\ l.asked = <<>> /\ ~l.changed
<1> DEFINE n == Len(List!Rows(q, 0))
<1>9. findings[q] \in Seq(Nat) /\ Page \in Nat
  BY DEF List!SidebarAssumption
<1>1. findings[q] \in Seq(Nat) /\ Page \in Nat /\ Len(findings[q]) \in Nat
  BY <1>9
<1>2. 0 <= Len(findings[q])
  BY <1>1
<1>3. /\ List!Rows(q, 0) \in Seq(Nat) /\ n \in Nat /\ n <= Len(findings[q])
      /\ ListFirst(q, 0) \o List!Rows(q, 0) = ListFirst(q, n)
  <2>1. 0 + n = n
    BY <1>1, ListRows
  <2> QED BY <1>1, <1>2, <2>1, ListRows
<1>4. ListFirst(q, 0) = <<>>
  BY DEF ListFirst
<1>5. List!Rows(q, 0) = ListFirst(q, n)
  <2> HIDE DEF n
  <2>1. <<>> \o List!Rows(q, 0) = List!Rows(q, 0)
    BY <1>3
  <2> QED BY <1>3, <1>4, <2>1
<1>6. (n < Len(findings[q])) \in BOOLEAN /\ <<>> \in Seq(Nat)
  OBVIOUS
<1>7. List!Fresh(q) = [query |-> q, rows |-> ListFirst(q, n), total |-> Len(findings[q]), offset |-> n,
        more |-> n < Len(findings[q]), loading |-> FALSE, asked |-> <<>>, changed |-> FALSE]
  BY <1>5 DEF List!Fresh
<1>8. ListFirst(q, n) \in Seq(Nat) /\ Len(ListFirst(q, n)) = n
  BY <1>3, <1>5
<1> HIDE DEF n
<1> QED BY <1>1, <1>3, <1>6, <1>7, <1>8 DEF List!Lists

LEMMA ListInit == ASSUME List!SidebarAssumption, List!Init PROVE ListInv
<1>1. "" \in Queries
  BY DEF List!SidebarAssumption
<1>2. findings \in [Queries -> Seq(Nat)]
  BY DEF List!SidebarAssumption, List!Init
<1> QED BY <1>1, <1>2, ListFresh DEF List!Init, ListInv

LEMMA ListNext == ASSUME List!SidebarAssumption, ListInv, [List!Next]_(List!vars) PROVE ListInv'
<1>0. "" \in Queries
  BY DEF List!SidebarAssumption
<1>1. ASSUME UNCHANGED <<findings, list>>, text' \in Queries, heading' \in Queries, search' \subseteq {heading'},
             failed' \in BOOLEAN,
             search' = {} /\ ~failed' => heading' = list.query
      PROVE  ListInv'
  BY <1>1 DEF ListInv, List!Lists, ListFirst
<1>2. ASSUME NEW q \in Queries, List!Type(q) PROVE ListInv'
  BY <1>1, <1>2 DEF List!Type, ListInv
<1>14. ASSUME NEW q \in Queries, List!MemosChange(q) PROVE ListInv'
  <2>1. PICK f \in Results[q] : findings' = [findings EXCEPT ![q] = f]
    BY <1>14 DEF List!MemosChange
  <2>2. f \in Seq(Nat)
    BY <2>1 DEF List!SidebarAssumption
  <2>3. findings' \in [Queries -> Seq(Nat)] /\ \A r \in Queries : r # q => findings'[r] = findings[r]
    BY <2>1, <2>2 DEF ListInv
  <2>4. list' = [list EXCEPT !.changed = list.changed \/ q = list.query]
        /\ UNCHANGED <<text, heading, search, failed>>
    BY <1>14 DEF List!MemosChange
  <2>5. list \in List!Lists /\ (list.changed \/ q = list.query) \in BOOLEAN
    BY DEF ListInv, List!Lists
  <2>6. /\ list' \in List!Lists /\ list'.query = list.query /\ list'.rows = list.rows
        /\ list'.total = list.total /\ list'.offset = list.offset /\ list'.more = list.more
        /\ list'.loading = list.loading /\ list'.asked = list.asked
    BY <2>4, <2>5 DEF List!Lists
  <2>7. list'.changed <=> list.changed \/ q = list.query
    BY <2>4, <2>5, Zenon DEF List!Lists
  <2>8. ~list'.changed =>
          /\ list'.rows = ListFirst(list.query, list.offset)'
          /\ list'.total = Len(findings'[list'.query]) /\ list'.offset <= list'.total
          /\ list'.more = (list'.offset < list'.total)
    <3> SUFFICES ASSUME ~list'.changed PROVE /\ list'.rows = ListFirst(list.query, list.offset)'
          /\ list'.total = Len(findings'[list'.query]) /\ list'.offset <= list'.total
          /\ list'.more = (list'.offset < list'.total)
      OBVIOUS
    <3>1. ~list.changed /\ q # list.query /\ list.query \in Queries
      BY <2>5, <2>7 DEF List!Lists
    <3>2. findings'[list.query] = findings[list.query]
      BY <2>3, <3>1
    <3>3. ListFirst(list.query, list.offset)' = ListFirst(list.query, list.offset)
      BY <2>6, <3>2 DEF ListFirst
    <3> QED BY <2>6, <3>1, <3>2, <3>3 DEF ListInv
  <2> QED BY <2>3, <2>4, <2>6, <2>8 DEF ListInv
<1>3. CASE List!QueueSearch
  BY <1>1, <1>3 DEF List!QueueSearch, List!Searched, ListInv
<1>4. CASE List!SubmitSearch
  BY <1>1, <1>4 DEF List!SubmitSearch, List!Searched, ListInv
<1>5. CASE List!Clear
  BY <1>0, <1>1, <1>5 DEF List!Clear, List!Searched, ListInv
<1>6. CASE List!Replaced
  <2>1. heading \in search /\ list' = List!Fresh(heading) /\ search' = search \ {heading}
        /\ UNCHANGED <<findings, text, heading, failed>>
    BY <1>6 DEF List!Replaced, ListInv
  <2>2. /\ list' \in List!Lists /\ list'.query = heading /\ list'.rows = ListFirst(heading, list'.offset)
        /\ list'.total = Len(findings[heading]) /\ list'.offset <= list'.total
        /\ list'.more = (list'.offset < list'.total) /\ Len(list'.rows) = list'.offset
        /\ ~list'.loading /\ list'.asked = <<>>
    BY <2>1, ListFresh DEF ListInv
  <2> QED BY <2>1, <2>2 DEF ListInv, ListFirst
<1>7. CASE List!SearchFails
  <2>1. search' \subseteq {heading} /\ failed' = TRUE /\ UNCHANGED <<findings, list, text, heading>>
    BY <1>7 DEF List!SearchFails, ListInv
  <2> QED BY <1>1, <2>1 DEF ListInv
<1>8. CASE List!LoadMore
  <2>1. list.asked = <<>> /\ list.offset \in Nat /\ list.asked \in Seq(Nat)
    BY <1>8 DEF List!LoadMore, List!MayLoad, ListInv, List!Lists
  <2>2. list' = [list EXCEPT !.loading = TRUE, !.asked = <<list.offset>>] /\ <<list.offset>> \in Seq(Nat)
    BY <1>8, <2>1 DEF List!LoadMore
  <2>3. UNCHANGED <<findings, text, heading, search, failed>>
    BY <1>8 DEF List!LoadMore
  <2>4. list' \in List!Lists
    BY <2>2 DEF ListInv, List!Lists
  <2>5. /\ list'.rows = list.rows /\ list'.offset = list.offset /\ list'.query = list.query
        /\ list'.more = list.more /\ list'.total = list.total /\ list'.changed = list.changed
        /\ list'.loading = TRUE /\ list'.asked = <<list.offset>>
    BY <2>2 DEF ListInv, List!Lists
  <2> QED BY <2>3, <2>4, <2>5 DEF ListInv, ListFirst
<1>9. CASE List!Loaded
  <2> DEFINE q == list.query
             n == list.offset
             r == List!Rows(q, n)
             m == n + Len(r)
             more == m < Len(findings[q]) /\ Len(list.rows \o r) < list.total
  <2>1. /\ list.asked = <<n>> /\ n \in Nat /\ q \in Queries /\ findings[q] \in Seq(Nat)
        /\ Page \in Nat /\ list.rows \in Seq(Nat) /\ list.total \in Nat
    BY <1>9 DEF List!Loaded, ListInv, List!Lists, List!SidebarAssumption
  <2>2. r \in Seq(Nat) /\ Len(r) \in Nat
    BY <2>1, ListRows
  <2>3. Head(list.asked) = n /\ Tail(list.asked) = <<>> /\ <<>> \in Seq(Nat)
    BY <2>1
  <2>4. list' = [list EXCEPT !.rows = list.rows \o r, !.offset = m, !.loading = FALSE, !.asked = <<>>,
                             !.more = more]
    BY <1>9, <2>3, Zenon DEF List!Loaded
  <2>5. UNCHANGED <<findings, text, heading, search, failed>>
    BY <1>9 DEF List!Loaded
  <2>6. n <= Len(findings[q]) =>
          m <= Len(findings[q]) /\ ListFirst(q, n) \o r = ListFirst(q, m) /\ Len(ListFirst(q, m)) = m
    BY <2>1, ListRows
  <2>7. m \in Nat /\ list.rows \o r \in Seq(Nat) /\ more \in BOOLEAN
    BY <2>1, <2>2
  <2>12. more => Len(list.rows \o r) < list.total
    OBVIOUS
  <2>13. ASSUME ~list.changed
         PROVE  /\ list.rows \o r = ListFirst(q, m) /\ list.total = Len(findings[q]) /\ m <= list.total
                /\ more = (m < list.total)
    <3>1. list.rows = ListFirst(q, n) /\ list.total = Len(findings[q]) /\ n <= Len(findings[q])
      BY <2>13 DEF ListInv
    <3>2. list.rows \o r = ListFirst(q, m) /\ Len(list.rows \o r) = m /\ m <= list.total
      BY <2>6, <3>1
    <3> QED BY <3>1, <3>2
  <2> HIDE DEF q, n, r, m, more
  <2>8. list' \in List!Lists
    BY <2>3, <2>4, <2>7 DEF ListInv, List!Lists
  <2>9. /\ list'.rows = list.rows \o r /\ list'.offset = m /\ list'.query = q /\ list'.total = list.total
        /\ list'.more = more /\ list'.loading = FALSE /\ list'.asked = <<>>
        /\ list'.changed = list.changed
    BY <2>4, <2>7 DEF ListInv, List!Lists, q
  <2>10. list'.more => Len(list'.rows) < list'.total
    BY <2>9, <2>12
  <2>11. ~list'.changed =>
          /\ list'.rows = ListFirst(list'.query, list'.offset)
          /\ list'.total = Len(findings[list'.query]) /\ list'.offset <= list'.total
          /\ list'.more = (list'.offset < list'.total)
    BY <2>9, <2>13
  <2>14. heading' = heading /\ (search' = {} /\ ~failed' => heading' = list'.query)
    BY <2>5, <2>9 DEF ListInv, q
  <2> QED BY <2>5, <2>8, <2>9, <2>10, <2>11, <2>14 DEF ListInv, ListFirst
<1>10. CASE List!LoadFails
  <2>0. list.asked = <<list.offset>> /\ list.offset \in Nat
    BY <1>10 DEF List!LoadFails, ListInv, List!Lists
  <2>1. Tail(list.asked) = <<>> /\ <<>> \in Seq(Nat)
    BY <2>0
  <2>2. list' = [list EXCEPT !.loading = FALSE, !.asked = <<>>]
    BY <1>10, <2>1 DEF List!LoadFails
  <2>3. list' \in List!Lists
    BY <2>1, <2>2 DEF ListInv, List!Lists
  <2>4. /\ list'.rows = list.rows /\ list'.offset = list.offset /\ list'.query = list.query
        /\ list'.more = list.more /\ list'.total = list.total /\ list'.changed = list.changed
        /\ list'.loading = FALSE /\ list'.asked = <<>>
    BY <2>2 DEF ListInv, List!Lists
  <2>5. UNCHANGED <<findings, text, heading, search, failed>>
    BY <1>10 DEF List!LoadFails
  <2> QED BY <2>3, <2>4, <2>5 DEF ListInv, ListFirst
<1>11. CASE List!LoadedGone
  BY <1>1, <1>11 DEF List!LoadedGone, ListInv
<1>12. CASE List!LoadGoneFails
  BY <1>1, <1>12 DEF List!LoadGoneFails, ListInv
<1>13. CASE UNCHANGED List!vars
  BY <1>1, <1>13 DEF List!vars, ListInv
<1> QED BY <1>2, <1>14, <1>3, <1>4, <1>5, <1>6, <1>7, <1>8, <1>9, <1>10, <1>11, <1>12, <1>13
    DEF List!Next

\* Whatever is typed, searched for, loaded and changed meanwhile (memo_search,
\* memo_sidebar_memo_list): a list that no memo changed since it was drawn holds the first
\* rows of one query, in their order, none twice and none left out; no list goes on loading
\* once it shows as many rows as there were; and once no search is in flight the heading
\* names its query.
THEOREM ListHolds == ASSUME List!SidebarAssumption PROVE List!Spec => []List!ListIsOneSearch
<1>1. ASSUME ListInv PROVE List!ListIsOneSearch
  <2>1. ASSUME ~list.changed
        PROVE  /\ list.rows = [i \in DOMAIN list.rows |-> findings[list.query][i]]
               /\ list.more \/ Len(list.rows) = Len(findings[list.query])
    <3>1. /\ list.rows = ListFirst(list.query, list.offset) /\ list.offset \in Nat
          /\ list.total = Len(findings[list.query]) /\ list.offset <= list.total /\ list.total \in Nat
          /\ list.more = (list.offset < list.total) /\ list.more \in BOOLEAN /\ list.rows \in Seq(Nat)
      BY <1>1, <2>1 DEF ListInv, List!Lists
    <3>2. DOMAIN list.rows = 1 .. list.offset
      BY <3>1 DEF ListFirst
    <3>3. Len(list.rows) = list.offset
      BY <3>1, <3>2
    <3>4. list.offset < list.total \/ list.offset = list.total
      BY <3>1
    <3>5. CASE list.offset < list.total
      BY <3>1, <3>2, <3>5, Zenon DEF ListFirst
    <3>6. CASE list.offset = list.total
      BY <3>1, <3>2, <3>3, <3>6, Zenon DEF ListFirst
    <3> QED BY <3>4, <3>5, <3>6
  <2> QED BY <1>1, <2>1 DEF ListInv, List!ListIsOneSearch
<1> QED BY <1>1, ListInit, ListNext, PTL DEF List!Spec

-----------------------------------------------------------------------------
\* The dialogs

\* What was chosen was ticked, and the buttons follow the choice, open or closed.
DialogsAlbumInv ==
  /\ album.mayImages = (album.chosen # {}) /\ album.mayAlbum = (album.current # None)
  /\ album.chosen \subseteq album.touched /\ taken.photos \subseteq taken.touched

\* The request that counts is the last one asked for and has not been given up.
DialogsSuggestionInv ==
  /\ sug.current \in {0, sug.asked} /\ sug.current \notin running.aborted
  /\ running.aborted \subseteq 1 .. sug.asked
  /\ Dialogs!SuggestionIsLatest

DialogsInv == Dialogs!TypeOK /\ DialogsAlbumInv /\ DialogsSuggestionInv

DialogsAlbumTypes == [open : BOOLEAN, listed : BOOLEAN, current : Albums \cup {None},
  drawn : Albums \cup {None},
               ticked : SUBSET Dialogs!Every, chosen : SUBSET Dialogs!Every, touched : SUBSET Dialogs!Every,
               mayAlbum : BOOLEAN, mayImages : BOOLEAN]
DialogsTakenTypes == [album : Albums \cup {None}, photos : SUBSET Dialogs!Every,
  touched : SUBSET Dialogs!Every]
DialogsSugTypes == [asked : 0 .. MaxAsked, current : 0 .. MaxAsked, generating : BOOLEAN, disabled : BOOLEAN,
             panel : BOOLEAN, of : 0 .. MaxAsked]

LEMMA DialogsInit == ASSUME Dialogs!DialogsAssumption, Dialogs!Init PROVE DialogsInv
<1>1. Dialogs!TypeOK
  BY DEF Dialogs!Init, Dialogs!TypeOK, Dialogs!DialogsAssumption
<1>2. DialogsAlbumInv
  BY DEF Dialogs!Init, DialogsAlbumInv
<1>3. DialogsSuggestionInv
  BY DEF Dialogs!Init, DialogsSuggestionInv, Dialogs!SuggestionIsLatest
<1> QED BY <1>1, <1>2, <1>3 DEF DialogsInv

LEMMA DialogsAlbumNext ==
  ASSUME Dialogs!DialogsAssumption, Dialogs!TypeOK, DialogsAlbumInv, Dialogs!AlbumNext
  PROVE  album' \in DialogsAlbumTypes /\ taken' \in DialogsTakenTypes /\ asks' \subseteq {"list"} \cup Albums
         /\ DialogsAlbumInv'
<1>1. /\ album \in DialogsAlbumTypes /\ taken \in DialogsTakenTypes /\ asks \subseteq {"list"} \cup Albums
         /\ None \notin Albums
  BY DEF Dialogs!TypeOK, DialogsAlbumTypes, DialogsTakenTypes, Dialogs!DialogsAssumption
<1> USE DEF DialogsAlbumInv, DialogsAlbumTypes, DialogsTakenTypes
<1>2. CASE Dialogs!OpenAlbums
  BY <1>1, <1>2 DEF Dialogs!OpenAlbums, Dialogs!Opened
<1>3. CASE Dialogs!CloseAlbums
  BY <1>1, <1>3 DEF Dialogs!CloseAlbums
<1>4. CASE Dialogs!ListAnswered
  BY <1>1, <1>4 DEF Dialogs!ListAnswered
<1>5. CASE Dialogs!InsertAlbum
  BY <1>1, <1>5 DEF Dialogs!InsertAlbum
<1>6. CASE Dialogs!InsertImages
  BY <1>1, <1>6 DEF Dialogs!InsertImages
<1>7. ASSUME NEW a \in Albums, Dialogs!SelectAlbum(a)
      PROVE  album' \in DialogsAlbumTypes /\ taken' \in DialogsTakenTypes
             /\ asks' \subseteq {"list"} \cup Albums /\ DialogsAlbumInv'
  BY <1>1, <1>7 DEF Dialogs!SelectAlbum
<1>8. ASSUME NEW a \in Albums, NEW ok \in BOOLEAN, Dialogs!AlbumAnswered(a, ok)
      PROVE  album' \in DialogsAlbumTypes /\ taken' \in DialogsTakenTypes
             /\ asks' \subseteq {"list"} \cup Albums /\ DialogsAlbumInv'
  BY <1>1, <1>8 DEF Dialogs!AlbumAnswered
<1>9. ASSUME NEW p \in Dialogs!Every, Dialogs!ToggleMedia(p)
      PROVE  album' \in DialogsAlbumTypes /\ taken' \in DialogsTakenTypes
             /\ asks' \subseteq {"list"} \cup Albums /\ DialogsAlbumInv'
  BY <1>1, <1>9 DEF Dialogs!ToggleMedia
<1> QED BY <1>2, <1>3, <1>4, <1>5, <1>6, <1>7, <1>8, <1>9 DEF Dialogs!AlbumNext

LEMMA DialogsSuggestionNext ==
  ASSUME Dialogs!DialogsAssumption, Dialogs!TypeOK, DialogsSuggestionInv, Dialogs!SuggestionNext
  PROVE  sug' \in DialogsSugTypes /\ running' \in [live : SUBSET Dialogs!Requests,
         aborted : SUBSET Dialogs!Requests] /\ DialogsSuggestionInv'
<1>1. /\ sug \in DialogsSugTypes /\ running \in [live : SUBSET Dialogs!Requests,
         aborted : SUBSET Dialogs!Requests] /\ MaxAsked \in Nat
  BY DEF Dialogs!TypeOK, Dialogs!DialogsAssumption, DialogsSugTypes
<1> USE DEF DialogsSuggestionInv, Dialogs!SuggestionIsLatest, DialogsSugTypes, Dialogs!Requests
<1>2. CASE Dialogs!Generate
  <2>1. sug.current = 0 /\ running.live = {} /\ sug.asked + 1 \in 1 .. MaxAsked /\ sug.asked \in Nat
    BY <1>1, <1>2 DEF Dialogs!Generate
  <2>2. sug' = [sug EXCEPT !.asked = sug.asked + 1, !.current = sug.asked + 1, !.generating = TRUE,
                           !.disabled = TRUE, !.panel = FALSE]
        /\ running' = [running EXCEPT !.live = {sug.asked + 1}]
    BY <1>2, <2>1 DEF Dialogs!Generate
  <2>3. sug' \in DialogsSugTypes /\ running' \in [live : SUBSET Dialogs!Requests,
        aborted : SUBSET Dialogs!Requests]
    <3>1. sug.asked + 1 \in 0 .. MaxAsked /\ {sug.asked + 1} \in SUBSET Dialogs!Requests
      BY <1>1, <2>1
    <3>2. sug' \in DialogsSugTypes
      BY <1>1, <2>2, <3>1
    <3>3. running' \in [live : SUBSET Dialogs!Requests, aborted : SUBSET Dialogs!Requests]
      BY <1>1, <2>2, <3>1
    <3> QED BY <3>2, <3>3
  <2>4. /\ sug'.current = sug.asked + 1 /\ sug'.asked = sug.asked + 1 /\ sug'.disabled /\ sug'.generating
        /\ ~sug'.panel /\ running'.live = {sug.asked + 1} /\ running'.aborted = running.aborted
    BY <1>1, <2>2
  <2>5. running'.aborted \subseteq 1 .. sug'.asked
    BY <1>1, <2>1, <2>4
  <2>6. sug'.current \notin running'.aborted
    BY <2>1, <2>4
  <2>7. Dialogs!SuggestionIsLatest'
    <3>1. sug'.current # 0
      BY <2>1, <2>4
    <3>2. sug'.disabled = TRUE /\ sug'.generating = TRUE /\ sug'.panel = FALSE
      BY <1>1, <2>2
    <3> QED BY <2>4, <3>1, <3>2
  <2> QED BY <2>3, <2>4, <2>5, <2>6, <2>7
<1>3. CASE Dialogs!LeavePage
  <2>0. /\ sug' = [sug EXCEPT !.current = 0, !.generating = FALSE, !.disabled = FALSE, !.panel = FALSE]
        /\ running' = [live |-> {}, aborted |-> running.aborted \cup running.live]
    BY <1>1, <1>3 DEF Dialogs!LeavePage
  <2>1. sug' \in DialogsSugTypes /\ running' \in [live : SUBSET Dialogs!Requests,
        aborted : SUBSET Dialogs!Requests]
    <3>1. 0 \in 0 .. MaxAsked
      BY <1>1
    <3> QED BY <1>1, <2>0, <3>1
  <2>2. /\ sug'.current = 0 /\ sug'.asked = sug.asked /\ ~sug'.disabled /\ ~sug'.generating /\ ~sug'.panel
        /\ running'.live = {} /\ running'.aborted = running.aborted \cup running.live
    BY <1>1, <2>0
  <2>3. running'.aborted \subseteq 1 .. sug.asked
    BY <1>1, <2>2
  <2>4. sug'.current \notin running'.aborted
    BY <1>1, <2>2, <2>3
  <2> QED BY <2>1, <2>2, <2>3, <2>4
<1>4. CASE Dialogs!TakeSuggestion
  BY <1>1, <1>4 DEF Dialogs!TakeSuggestion
<1>5. ASSUME NEW n \in Dialogs!Requests, Dialogs!AbortedEnds(n)
      PROVE  sug' \in DialogsSugTypes /\ running' \in [live : SUBSET Dialogs!Requests,
             aborted : SUBSET Dialogs!Requests] /\ DialogsSuggestionInv'
  BY <1>1, <1>5 DEF Dialogs!AbortedEnds, Dialogs!Freed
<1>6. ASSUME NEW n \in Dialogs!Requests, NEW ok \in BOOLEAN, Dialogs!Suggested(n, ok)
      PROVE  sug' \in DialogsSugTypes /\ running' \in [live : SUBSET Dialogs!Requests,
             aborted : SUBSET Dialogs!Requests] /\ DialogsSuggestionInv'
  <2>1. n = sug.current /\ n = sug.asked /\ n # 0
    BY <1>1, <1>6 DEF Dialogs!Suggested
  <2>2. sug' = [sug EXCEPT !.panel = ok, !.of = IF ok THEN n ELSE @, !.current = 0, !.generating = FALSE,
        !.disabled = FALSE]
    BY <1>1, <1>6, <2>1 DEF Dialogs!Suggested, Dialogs!Freed
  <2>3. running' = [running EXCEPT !.live = {}]
    BY <1>1, <1>6, <2>1 DEF Dialogs!Suggested
  <2>4. sug' \in DialogsSugTypes /\ running' \in [live : SUBSET Dialogs!Requests,
        aborted : SUBSET Dialogs!Requests]
    <3>1. 0 \in 0 .. MaxAsked /\ n \in 0 .. MaxAsked
      BY <1>1
    <3>2. sug' \in DialogsSugTypes
      BY <1>1, <2>2, <3>1
    <3>3. running' \in [live : SUBSET Dialogs!Requests, aborted : SUBSET Dialogs!Requests]
      BY <1>1, <2>3
    <3> QED BY <3>2, <3>3
  <2>5. /\ sug'.current = 0 /\ sug'.asked = sug.asked /\ ~sug'.disabled /\ ~sug'.generating
        /\ (sug'.panel => sug'.of = n) /\ running'.live = {} /\ running'.aborted = running.aborted
    BY <1>1, <2>2, <2>3
  <2> QED BY <1>1, <2>1, <2>4, <2>5
<1> QED BY <1>2, <1>3, <1>4, <1>5, <1>6 DEF Dialogs!SuggestionNext

LEMMA DialogsNext ==
  ASSUME Dialogs!DialogsAssumption, DialogsInv, [Dialogs!Next]_(Dialogs!vars) PROVE DialogsInv'
<1>1. CASE Dialogs!AlbumNext
  <2>1. UNCHANGED <<sug, running>>
    BY <1>1 DEF Dialogs!AlbumNext, Dialogs!OpenAlbums, Dialogs!CloseAlbums, Dialogs!ListAnswered,
       Dialogs!InsertAlbum, Dialogs!InsertImages, Dialogs!SelectAlbum,
                Dialogs!AlbumAnswered, Dialogs!ToggleMedia
  <2> QED BY <1>1, <2>1, DialogsAlbumNext DEF DialogsInv, Dialogs!TypeOK, DialogsAlbumTypes,
      DialogsTakenTypes, DialogsSuggestionInv, Dialogs!SuggestionIsLatest
<1>2. CASE Dialogs!SuggestionNext
  <2>1. UNCHANGED <<album, taken, asks>>
    BY <1>2 DEF Dialogs!SuggestionNext, Dialogs!Generate, Dialogs!LeavePage, Dialogs!TakeSuggestion,
       Dialogs!AbortedEnds, Dialogs!Suggested
  <2> QED BY <1>2, <2>1, DialogsSuggestionNext
      DEF DialogsInv, Dialogs!TypeOK, DialogsSugTypes, DialogsAlbumInv
<1>3. CASE UNCHANGED Dialogs!vars
  BY <1>3 DEF Dialogs!vars, DialogsInv, Dialogs!TypeOK, DialogsAlbumInv,
     DialogsSuggestionInv, Dialogs!SuggestionIsLatest
<1> QED BY <1>1, <1>2, <1>3 DEF Dialogs!Next

\* However late the albums come (tsuzura_picker), and however requests for suggestions are
\* given up and end (memo_metadata_suggestions): what is put into the memo was ticked since
\* the picker was opened, and its buttons allow what there is to insert; at most one
\* suggestion is running, the button is free exactly when none is, and the panel shows the
\* answer to the last one asked for.
THEOREM DialogsHold ==
  ASSUME Dialogs!DialogsAssumption
  PROVE  Dialogs!Spec => [](Dialogs!OnlyTickedIsTaken /\ Dialogs!SuggestionIsLatest)
<1>1. DialogsInv => Dialogs!OnlyTickedIsTaken /\ Dialogs!SuggestionIsLatest
  BY DEF DialogsInv, DialogsAlbumInv, Dialogs!OnlyTickedIsTaken, DialogsSuggestionInv
<1> QED BY <1>1, DialogsInit, DialogsNext, PTL DEF Dialogs!Spec

-----------------------------------------------------------------------------
\* The pickers of memos

\* The board's dialog chooses no memo; the notebook's waits for what it asked last only.
PickersInv ==
  /\ kind \in {"picker", "board", "notebook"} /\ pickerFailed \in BOOLEAN
  /\ Pickers!ChosenIsShown /\ (kind = "board" => memo = NoMemo)
  /\ kind = "notebook" => pickerCalls \in {<<>>, <<pickerAsked>>} /\ Pickers!LastAskedIsListed

PickersChosen == Pickers!ChosenIsShown /\ (kind = "board" => memo = NoMemo)
PickersListed == kind = "notebook" => pickerCalls \in {<<>>, <<pickerAsked>>} /\ Pickers!LastAskedIsListed

LEMMA PickersOnlyOneGone == ASSUME NEW q PROVE Pickers!RemoveAt(<<q>>, 1) = <<>>
BY DEF Pickers!RemoveAt

LEMMA PickersInit == ASSUME Pickers!Init PROVE PickersInv
BY DEF Pickers!Init, PickersInv, Pickers!ChosenIsShown, Pickers!LastAskedIsListed

LEMMA PickersChosenKept ==
  ASSUME PickersInv, Pickers!Next PROVE kind' = kind /\ PickersChosen'
<1> USE DEF PickersInv, PickersChosen, Pickers!ChosenIsShown
<1>1. ASSUME NEW q \in Queries, Pickers!PickerInput(q) \/ Pickers!NotebookInput(q) \/ Pickers!BoardInput(q)
      PROVE  kind' = kind /\ PickersChosen'
  BY <1>1 DEF Pickers!PickerInput, Pickers!NotebookInput, Pickers!BoardInput, Pickers!Typed
<1>2. CASE Pickers!PickerFetch \/ Pickers!BoardFetch \/ Pickers!NotebookFetch
  BY <1>2 DEF Pickers!PickerFetch, Pickers!BoardFetch, Pickers!NotebookFetch
<1>3. ASSUME NEW i, Pickers!PickerRender(i) \/ Pickers!BoardRender(i) \/ Pickers!NotebookRender(i)
             \/ Pickers!FetchFails(i) \/ Pickers!BoardAdded(i)
      PROVE  kind' = kind /\ PickersChosen'
  BY <1>3 DEF Pickers!PickerRender, Pickers!BoardRender, Pickers!NotebookRender, Pickers!FetchFails,
     Pickers!BoardAdded
<1>4. CASE Pickers!PickerOpen \/ Pickers!PickerCloseLater \/ Pickers!PickerCloseTimer \/ Pickers!BoardOpen
      \/ Pickers!NotebookOpen \/ Pickers!DialogClose \/ Pickers!Submit
  BY <1>4 DEF Pickers!PickerOpen, Pickers!PickerCloseLater, Pickers!PickerCloseTimer, Pickers!BoardOpen,
     Pickers!NotebookOpen, Pickers!DialogClose, Pickers!Submit
<1>5. CASE Pickers!PickerKey
  BY <1>5 DEF Pickers!PickerKey, Pickers!Closed, Pickers!Applied
<1>6. ASSUME NEW b, Pickers!Pointer(b) PROVE kind' = kind /\ PickersChosen'
  BY <1>6 DEF Pickers!Pointer
<1>7. ASSUME NEW m, Pickers!PickerSelect(m) \/ Pickers!NotebookSelect(m) \/ Pickers!BoardAdd(m)
      PROVE  kind' = kind /\ PickersChosen'
  BY <1>7 DEF Pickers!PickerSelect, Pickers!NotebookSelect, Pickers!BoardAdd, Pickers!Applied, Pickers!Closed
<1> QED BY <1>1, <1>2, <1>3, <1>4, <1>5, <1>6, <1>7 DEF Pickers!Next

\* What the notebook's dialog waits for and lists, if a step leaves it alone.
LEMMA PickersListedAlone ==
  ASSUME PickersInv, UNCHANGED <<pickerCalls, pickerAsked, pickerFailed, pickerShown>>, kind' = kind
  PROVE  pickerFailed' \in BOOLEAN /\ PickersListed'
BY DEF PickersInv, PickersListed, Pickers!LastAskedIsListed

LEMMA PickersListedKept ==
  ASSUME PickersInv, Pickers!Next, kind' = kind PROVE pickerFailed' \in BOOLEAN /\ PickersListed'
<1>1. ASSUME NEW q \in Queries, Pickers!PickerInput(q) \/ Pickers!NotebookInput(q) \/ Pickers!BoardInput(q)
      PROVE  pickerFailed' \in BOOLEAN /\ PickersListed'
  BY <1>1, PickersListedAlone DEF Pickers!PickerInput, Pickers!NotebookInput, Pickers!BoardInput
<1>2. CASE Pickers!PickerFetch \/ Pickers!BoardFetch
  BY <1>2 DEF Pickers!PickerFetch, Pickers!BoardFetch, PickersListed
<1>3. CASE Pickers!NotebookFetch
  <2>1. pickerCalls' = <<pickerAsked'>> /\ pickerFailed' = FALSE
    BY <1>3 DEF Pickers!NotebookFetch, Pickers!OnlyAsked
  <2> QED BY <2>1 DEF PickersListed, Pickers!LastAskedIsListed
<1>4. ASSUME NEW i \in DOMAIN pickerCalls, Pickers!PickerRender(i) \/ Pickers!BoardRender(i)
      PROVE  pickerFailed' \in BOOLEAN /\ PickersListed'
  BY <1>4 DEF Pickers!PickerRender, Pickers!BoardRender, PickersListed, PickersInv
<1>5. ASSUME NEW i \in DOMAIN pickerCalls, Pickers!NotebookRender(i)
      PROVE  pickerFailed' \in BOOLEAN /\ PickersListed'
  <2>1. pickerCalls = <<pickerAsked>> /\ i = 1
    BY <1>5 DEF Pickers!NotebookRender, PickersInv
  <2>2. pickerCalls' = <<>> /\ pickerShown' = pickerAsked /\ UNCHANGED <<pickerAsked, pickerFailed>>
    BY <1>5, <2>1, PickersOnlyOneGone DEF Pickers!NotebookRender
  <2> QED BY <2>2 DEF PickersInv, PickersListed, Pickers!LastAskedIsListed
<1>6. ASSUME NEW i \in DOMAIN pickerCalls, Pickers!FetchFails(i)
      PROVE  pickerFailed' \in BOOLEAN /\ PickersListed'
  <2>1. CASE kind # "notebook"
    <3>1. pickerFailed' = (pickerFailed \/ i = Len(pickerCalls))
      BY <1>6 DEF Pickers!FetchFails
    <3> QED BY <2>1, <3>1 DEF PickersListed
  <2>2. CASE kind = "notebook"
    <3>1. pickerCalls = <<pickerAsked>> /\ i = 1
      BY <1>6, <2>2 DEF PickersInv
    <3>2. pickerCalls' = <<>> /\ pickerFailed' = TRUE
      BY <1>6, <3>1, PickersOnlyOneGone DEF Pickers!FetchFails
    <3> QED BY <3>2 DEF PickersListed, Pickers!LastAskedIsListed
  <2> QED BY <2>1, <2>2
<1>7. CASE Pickers!PickerOpen \/ Pickers!PickerCloseLater \/ Pickers!PickerCloseTimer \/ Pickers!BoardOpen
      \/ Pickers!NotebookOpen \/ Pickers!DialogClose \/ Pickers!PickerKey
  BY <1>7, PickersListedAlone DEF Pickers!PickerOpen, Pickers!PickerCloseLater, Pickers!PickerCloseTimer,
     Pickers!BoardOpen, Pickers!NotebookOpen, Pickers!DialogClose, Pickers!PickerKey
<1>8. CASE Pickers!Submit
  BY <1>8 DEF Pickers!Submit, PickersListed, Pickers!LastAskedIsListed
<1>9. ASSUME NEW b, Pickers!Pointer(b) PROVE pickerFailed' \in BOOLEAN /\ PickersListed'
  BY <1>9, PickersListedAlone DEF Pickers!Pointer
<1>10. ASSUME NEW m, Pickers!PickerSelect(m) \/ Pickers!NotebookSelect(m) \/ Pickers!BoardAdd(m)
       PROVE  pickerFailed' \in BOOLEAN /\ PickersListed'
  BY <1>10, PickersListedAlone DEF Pickers!PickerSelect, Pickers!NotebookSelect, Pickers!BoardAdd
<1>11. ASSUME NEW i, Pickers!BoardAdded(i) PROVE pickerFailed' \in BOOLEAN /\ PickersListed'
  BY <1>11, PickersListedAlone DEF Pickers!BoardAdded
<1> QED BY <1>1, <1>2, <1>3, <1>4, <1>5, <1>6, <1>7, <1>8, <1>9, <1>10, <1>11 DEF Pickers!Next

LEMMA PickersNext == ASSUME PickersInv, [Pickers!Next]_(Pickers!vars) PROVE PickersInv'
<1>1. CASE Pickers!Next
  <2>1. kind' = kind /\ PickersChosen'
    BY <1>1, PickersChosenKept
  <2>2. pickerFailed' \in BOOLEAN /\ PickersListed'
    BY <1>1, <2>1, PickersListedKept
  <2> QED BY <2>1, <2>2 DEF PickersInv, PickersChosen, PickersListed
<1>2. CASE UNCHANGED Pickers!vars
  BY <1>2 DEF Pickers!vars, PickersInv, Pickers!ChosenIsShown, Pickers!LastAskedIsListed
<1> QED BY <1>1, <1>2

\* However late the answers of a picker come (memo_picker_controller and the dialogs
\* of notebooks and boards): the memo that is chosen is the one its field names, and
\* the notebook's dialog lists what was asked for last.
THEOREM PickersHold == Pickers!Spec => [](Pickers!ChosenIsShown /\ Pickers!LastAskedIsListed)
<1>1. PickersInv => Pickers!ChosenIsShown /\ Pickers!LastAskedIsListed
  BY DEF PickersInv, Pickers!LastAskedIsListed
<1> QED BY <1>1, PickersInit, PickersNext, PTL DEF Pickers!Spec

-----------------------------------------------------------------------------
\* Themes and skins

\* What is active, in the browser and on the server.
LooksActive(s) == <<s.theme, s.skin>>
LooksWorn == [base : Themes, style : Contents \cup {None}, skin : Skins \cup OwnSkins,
  text : Contents \cup {None}]

\* What is announced is in the pause or the chain, in the save that is in flight, or stored.
LooksOnItsWay ==
  told => timer \/ queue > 0
          \/ LooksActive(IF patch # <<>> THEN patch[1] ELSE looksServer) = LooksActive(local)

LooksWornSkin == worn.skin = Looks!StoredSkin(local) /\ worn.text = Looks!Text(local, Looks!StoredSkin(local))
LooksWornTheme == worn.base = Looks!Base(Looks!StoredTheme(local))
  /\ worn.style = Looks!Style(local, Looks!StoredTheme(local))

LooksInv == Looks!TypeOK /\ LooksWornSkin /\ (draft = <<>> /\ ~asked => LooksWornTheme) /\ LooksOnItsWay

-----------------------------------------------------------------------------
\* Operators

LEMMA LooksStateFields ==
  ASSUME NEW s \in Looks!States
  PROVE  /\ s.theme \in Themes \cup OwnThemes /\ s.skin \in Skins \cup OwnSkins
         /\ s.themes \in [OwnThemes -> Contents \cup {None}] /\ s.skins \in [OwnSkins -> Contents \cup {None}]
BY DEF Looks!States

LEMMA LooksStoredKinds ==
  ASSUME Looks!ThemesAssumption, NEW s \in Looks!States
  PROVE  /\ Looks!StoredTheme(s) \in Themes \cup OwnThemes /\ Looks!StoredSkin(s) \in Skins \cup OwnSkins
         /\ (Looks!HasTheme(s, Looks!StoredTheme(s)) \/ Looks!StoredTheme(s) \in Themes)
         /\ (Looks!HasSkin(s, Looks!StoredSkin(s)) \/ Looks!StoredSkin(s) \in Skins)
BY LooksStateFields DEF Looks!ThemesAssumption, Looks!StoredTheme, Looks!StoredSkin, Looks!HasTheme,
   Looks!HasSkin

LEMMA LooksThemeKinds ==
  ASSUME Looks!ThemesAssumption, NEW s \in Looks!States, NEW w \in LooksWorn, NEW t
  PROVE  /\ Looks!WithTheme(w, s, t) \in LooksWorn
         /\ Looks!WithTheme(w, s, t).base = Looks!Base(t)
            /\ Looks!WithTheme(w, s, t).style = Looks!Style(s, t)
         /\ Looks!WithTheme(w, s, t).skin = w.skin /\ Looks!WithTheme(w, s, t).text = w.text
<1>1. Looks!Base(t) \in Themes
  BY DEF Looks!Base, Looks!ThemesAssumption
<1>2. Looks!Style(s, t) \in Contents \cup {None}
  BY LooksStateFields DEF Looks!Style, Looks!HasTheme
<1> QED BY <1>1, <1>2 DEF Looks!WithTheme, LooksWorn

LEMMA LooksSkinKinds ==
  ASSUME Looks!ThemesAssumption, NEW s \in Looks!States, NEW w \in LooksWorn, NEW k \in Skins \cup OwnSkins
  PROVE  /\ Looks!WithSkin(w, s, k) \in LooksWorn
         /\ Looks!WithSkin(w, s, k).skin = k /\ Looks!WithSkin(w, s, k).text = Looks!Text(s, k)
         /\ Looks!WithSkin(w, s, k).base = w.base /\ Looks!WithSkin(w, s, k).style = w.style
<1>1. Looks!Text(s, k) \in Contents \cup {None}
  BY LooksStateFields DEF Looks!Text, Looks!HasSkin
<1> QED BY <1>1 DEF Looks!WithSkin, LooksWorn

\* A state in which only the themes, or only the skins, are others.
LEMMA LooksOtherThemes ==
  ASSUME NEW s, NEW t, s.skin = t.skin, s.skins = t.skins
  PROVE  Looks!StoredSkin(s) = Looks!StoredSkin(t) /\ \A k : Looks!Text(s, k) = Looks!Text(t, k)
BY DEF Looks!StoredSkin, Looks!Text, Looks!HasSkin

LEMMA LooksOtherSkins ==
  ASSUME NEW s, NEW t, s.theme = t.theme, s.themes = t.themes
  PROVE  Looks!StoredTheme(s) = Looks!StoredTheme(t) /\ \A k : Looks!Style(s, k) = Looks!Style(t, k)
BY DEF Looks!StoredTheme, Looks!Style, Looks!HasTheme

-----------------------------------------------------------------------------
LEMMA LooksInit == ASSUME Looks!ThemesAssumption, Looks!Init PROVE LooksInv
<1>1. Looks!Empty \in Looks!States
  BY DEF Looks!Empty, Looks!States, Looks!ThemesAssumption
<1>2. Looks!Empty.theme = Default /\ Looks!Empty.skin = AutoSkin
  BY DEF Looks!Empty
<1>3. Default \in Themes /\ AutoSkin \in Skins /\ Default \notin OwnThemes /\ AutoSkin \notin OwnSkins
  BY DEF Looks!ThemesAssumption
<1>4. Looks!StoredTheme(Looks!Empty) = Default /\ Looks!StoredSkin(Looks!Empty) = AutoSkin
      /\ Looks!Base(Default) = Default
      /\ Looks!Style(Looks!Empty, Default) = None /\ Looks!Text(Looks!Empty, AutoSkin) = None
  BY <1>2, <1>3 DEF Looks!StoredTheme, Looks!StoredSkin, Looks!HasTheme, Looks!HasSkin, Looks!Base,
     Looks!Style, Looks!Text
<1>5. Looks!TypeOK
  <2>1. worn \in LooksWorn
    BY <1>3 DEF Looks!Init, LooksWorn
  <2>2. edits \in 0 .. MaxEdits /\ looksFaults \in 0 .. MaxFaults
    BY DEF Looks!Init, Looks!ThemesAssumption
  <2> QED BY <1>1, <2>1, <2>2 DEF Looks!Init, Looks!TypeOK, LooksWorn
<1> QED BY <1>4, <1>5 DEF LooksInv, Looks!Init, LooksWornSkin, LooksWornTheme, LooksOnItsWay

\* What a step does to what is worn and kept, put together.
LEMMA LooksKept ==
  ASSUME Looks!ThemesAssumption, Looks!TypeOK, local' \in Looks!States, looksServer' \in Looks!States,
         worn' \in LooksWorn,
         draft' = <<>> \/ draft' \in OwnThemes \X Contents, editing' \in OwnSkins \cup {None},
         timer' \in BOOLEAN, queue' \in Nat, told' \in BOOLEAN, patch' = <<>>
           \/ patch' \in Looks!States \X BOOLEAN,
         late' \subseteq Looks!States, asked' \in BOOLEAN, pull' \subseteq Looks!States,
         UNCHANGED edits \/ Looks!Edits, UNCHANGED looksFaults \/ Looks!Faults
  PROVE  Looks!TypeOK'
<1>1. edits' \in 0 .. MaxEdits
  BY DEF Looks!TypeOK, Looks!Edits, Looks!ThemesAssumption
<1>2. looksFaults' \in 0 .. MaxFaults
  BY DEF Looks!TypeOK, Looks!Faults, Looks!ThemesAssumption
<1> QED BY <1>1, <1>2 DEF Looks!TypeOK, LooksWorn

\* The worn theme and skin, once a state is taken over.
LEMMA LooksTakenOver ==
  ASSUME Looks!ThemesAssumption, NEW s \in Looks!States,
         local' = [s EXCEPT !.theme = Looks!StoredTheme(s), !.skin = Looks!StoredSkin(s)]
  PROVE  /\ local' \in Looks!States /\ Looks!StoredTheme(local') = Looks!StoredTheme(s)
         /\ Looks!StoredSkin(local') = Looks!StoredSkin(s)
         /\ \A k : Looks!Style(local', k) = Looks!Style(s, k) /\ Looks!Text(local', k) = Looks!Text(s, k)
<1>1. local' \in Looks!States
  BY LooksStoredKinds DEF Looks!States
<1>2. /\ local'.theme = Looks!StoredTheme(s) /\ local'.skin = Looks!StoredSkin(s)
      /\ local'.themes = s.themes /\ local'.skins = s.skins
  BY DEF Looks!States
<1>3. \A k : (Looks!HasTheme(local', k) <=> Looks!HasTheme(s, k))
      /\ (Looks!HasSkin(local', k) <=> Looks!HasSkin(s, k))
  BY <1>2 DEF Looks!HasTheme, Looks!HasSkin
<1>4. \A k : Looks!Style(local', k) = Looks!Style(s, k) /\ Looks!Text(local', k) = Looks!Text(s, k)
  BY <1>2, <1>3 DEF Looks!Style, Looks!Text
<1>5. Looks!StoredTheme(local') = Looks!StoredTheme(s)
  BY <1>2, <1>3, LooksStoredKinds DEF Looks!StoredTheme
<1>6. Looks!StoredSkin(local') = Looks!StoredSkin(s)
  BY <1>2, <1>3, LooksStoredKinds DEF Looks!StoredSkin
<1> QED BY <1>1, <1>4, <1>5, <1>6

\* A step that leaves the theme, the skin and what is worn of them alone.
LEMMA LooksUnseen ==
  ASSUME LooksInv, UNCHANGED <<local, worn, draft, asked>>
  PROVE  LooksWornSkin' /\ (draft' = <<>> /\ ~asked' => LooksWornTheme')
BY DEF LooksInv, LooksWornSkin, LooksWornTheme, Looks!StoredTheme, Looks!StoredSkin, Looks!HasTheme,
   Looks!HasSkin, Looks!Base, Looks!Style, Looks!Text

\* A change of what is active is announced.
LEMMA LooksStillAnnounced ==
  ASSUME LooksOnItsWay, UNCHANGED <<looksServer, queue, patch>>, NEW change, Looks!Announced(change),
         ~change => LooksActive(local') = LooksActive(local)
  PROVE  LooksOnItsWay'
<1>1. CASE change
  BY <1>1 DEF LooksOnItsWay, Looks!Announced
<1>2. CASE ~change
  BY <1>2 DEF LooksOnItsWay, Looks!Announced
<1> QED BY <1>1, <1>2

LEMMA LooksAnnouncedKinds ==
  ASSUME Looks!TypeOK, NEW change, Looks!Announced(change) PROVE timer' \in BOOLEAN /\ told' \in BOOLEAN
BY DEF Looks!TypeOK, Looks!Announced

LEMMA LooksKnown ==
  ASSUME LooksInv
  PROVE  /\ Looks!TypeOK /\ local \in Looks!States /\ looksServer \in Looks!States /\ worn \in LooksWorn
         /\ timer \in BOOLEAN /\ told \in BOOLEAN /\ queue \in Nat /\ LooksOnItsWay /\ LooksWornSkin
         /\ draft = <<>> \/ draft \in OwnThemes \X Contents
         /\ patch = <<>> \/ patch \in Looks!States \X BOOLEAN
         /\ late \subseteq Looks!States /\ pull \subseteq Looks!States
         /\ editing \in OwnSkins \cup {None} /\ asked \in BOOLEAN
BY DEF LooksInv, Looks!TypeOK, LooksWorn

\* A draft that is stored and worn.
LEMMA LooksPreviewed ==
  ASSUME Looks!ThemesAssumption, LooksInv, NEW id \in OwnThemes, NEW c \in Contents, Looks!Previewed(id, c),
         UNCHANGED <<looksServer, editing, timer, queue, patch, late, asked, pull, told, looksFaults>>,
         UNCHANGED edits \/ Looks!Edits
  PROVE  LooksInv'
<1>1. local' \in Looks!States /\ local'.theme = local.theme /\ local'.skin = local.skin
      /\ local'.skins = local.skins
  BY LooksKnown DEF Looks!Previewed, Looks!States
<1>2. worn' \in LooksWorn /\ worn'.skin = worn.skin /\ worn'.text = worn.text
  BY <1>1, LooksThemeKinds, LooksKnown, LooksStoredKinds DEF Looks!Previewed
<1>3. draft' \in OwnThemes \X Contents /\ draft' # <<>>
  BY DEF Looks!Previewed
<1>4. LooksWornSkin'
  BY <1>1, <1>2, LooksKnown, LooksOtherThemes DEF LooksWornSkin
<1>5. LooksOnItsWay'
  BY <1>1, LooksKnown DEF LooksOnItsWay, LooksActive
<1>6. Looks!TypeOK'
  BY <1>1, <1>2, <1>3, LooksKnown, LooksKept
<1> QED BY <1>3, <1>4, <1>5, <1>6 DEF LooksInv

LEMMA LooksChangeTheme ==
  ASSUME Looks!ThemesAssumption, LooksInv, NEW id \in Themes \cup OwnThemes, Looks!ChangeTheme(id)
  PROVE  LooksInv'
<1> DEFINE a == Looks!ActiveTheme(local, id)
<1>1. a \in Themes \cup OwnThemes /\ (Looks!HasTheme(local, a) \/ a \in Themes)
      /\ Looks!Base(a) = Looks!Base(id) /\ Looks!Style(local, a) = Looks!Style(local, id)
  BY DEF Looks!ActiveTheme, Looks!ThemesAssumption, Looks!HasTheme, Looks!Base, Looks!Style
<1>2. local' = [local EXCEPT !.theme = a] /\ worn' = Looks!WithTheme(worn, local, id)
      /\ Looks!Announced(local.theme # a)
  BY DEF Looks!ChangeTheme
<1>3. UNCHANGED <<looksServer, draft, editing, queue, patch, late, asked, pull, looksFaults>> /\ Looks!Edits
  BY DEF Looks!ChangeTheme
<1> HIDE DEF a
<1>4. /\ local' \in Looks!States /\ local'.theme = a /\ local'.themes = local.themes
      /\ local'.skin = local.skin /\ local'.skins = local.skins
  BY <1>1, <1>2, LooksKnown DEF Looks!States
<1>5. /\ worn' \in LooksWorn /\ worn'.skin = worn.skin /\ worn'.text = worn.text
      /\ worn'.base = Looks!Base(id) /\ worn'.style = Looks!Style(local, id)
  BY <1>2, LooksThemeKinds, LooksKnown, LooksStoredKinds
<1>6. LooksWornSkin'
  BY <1>4, <1>5, LooksKnown, LooksOtherThemes DEF LooksWornSkin
<1>7. LooksWornTheme'
  <2>1. Looks!StoredTheme(local') = a
    BY <1>1, <1>4 DEF Looks!StoredTheme, Looks!HasTheme
  <2>2. Looks!Style(local', a) = Looks!Style(local, a)
    BY <1>4 DEF Looks!Style, Looks!HasTheme
  <2> QED BY <1>1, <1>5, <2>1, <2>2 DEF LooksWornTheme
<1>8. LooksOnItsWay'
  BY <1>2, <1>3, <1>4, LooksKnown, LooksStillAnnounced DEF LooksActive
<1>9. timer' \in BOOLEAN /\ told' \in BOOLEAN
  BY <1>2, LooksKnown, LooksAnnouncedKinds
<1>10. Looks!TypeOK'
  BY <1>3, <1>4, <1>5, <1>9, LooksKnown, LooksKept
<1> QED BY <1>6, <1>7, <1>8, <1>10 DEF LooksInv

LEMMA LooksChangeSkin ==
  ASSUME Looks!ThemesAssumption, LooksInv, NEW id \in Skins \cup OwnSkins, Looks!ChangeSkin(id)
  PROVE  LooksInv'
<1> DEFINE a == Looks!ActiveSkin(local, id)
<1>1. a \in Skins \cup OwnSkins /\ (Looks!HasSkin(local, a) \/ a \in Skins)
  BY DEF Looks!ActiveSkin, Looks!ThemesAssumption, Looks!HasSkin
<1>2. local' = [local EXCEPT !.skin = a] /\ worn' = Looks!WithSkin(worn, local, a)
      /\ Looks!Announced(local.skin # a)
  BY DEF Looks!ChangeSkin
<1>3. UNCHANGED <<looksServer, draft, editing, queue, patch, late, asked, pull, looksFaults>> /\ Looks!Edits
  BY DEF Looks!ChangeSkin
<1> HIDE DEF a
<1>4. /\ local' \in Looks!States /\ local'.skin = a /\ local'.skins = local.skins
      /\ local'.theme = local.theme /\ local'.themes = local.themes
  BY <1>1, <1>2, LooksKnown DEF Looks!States
<1>5. /\ worn' \in LooksWorn /\ worn'.skin = a /\ worn'.text = Looks!Text(local, a)
      /\ worn'.base = worn.base /\ worn'.style = worn.style
  BY <1>1, <1>2, LooksSkinKinds, LooksKnown
<1>6. LooksWornSkin'
  <2>1. Looks!StoredSkin(local') = a
    BY <1>1, <1>4 DEF Looks!StoredSkin, Looks!HasSkin
  <2>2. Looks!Text(local', a) = Looks!Text(local, a)
    BY <1>4 DEF Looks!Text, Looks!HasSkin
  <2> QED BY <1>5, <2>1, <2>2 DEF LooksWornSkin
<1>7. draft' = <<>> /\ ~asked' => LooksWornTheme'
  BY <1>3, <1>4, <1>5, LooksOtherSkins DEF LooksWornTheme, LooksInv
<1>8. LooksOnItsWay'
  BY <1>2, <1>3, <1>4, LooksKnown, LooksStillAnnounced DEF LooksActive
<1>9. timer' \in BOOLEAN /\ told' \in BOOLEAN
  BY <1>2, LooksKnown, LooksAnnouncedKinds
<1>10. Looks!TypeOK'
  BY <1>3, <1>4, <1>5, <1>9, LooksKnown, LooksKept
<1> QED BY <1>6, <1>7, <1>8, <1>10 DEF LooksInv

LEMMA LooksStudio ==
  ASSUME Looks!ThemesAssumption, LooksInv, Looks!OpenStudio \/ Looks!EditTheme \/ Looks!NewTheme
         \/ Looks!ImportTheme
  PROVE  LooksInv'
<1>1. UNCHANGED <<looksServer, editing, timer, queue, patch, late, asked, pull, told, looksFaults>>
      /\ Looks!Edits
  BY DEF Looks!OpenStudio, Looks!EditTheme, Looks!NewTheme, Looks!ImportTheme
<1>2. \E id \in OwnThemes, c \in Contents : Looks!Previewed(id, c)
  <2>1. CASE Looks!OpenStudio
    <3>1. \A id \in OwnThemes : Looks!HasTheme(local, id) => local.themes[id] \in Contents
      BY LooksKnown DEF Looks!HasTheme, Looks!States
    <3> QED BY <2>1, <3>1 DEF Looks!OpenStudio
  <2>2. CASE Looks!EditTheme
    <3>1. draft[1] \in OwnThemes
      BY <2>2, LooksKnown DEF Looks!EditTheme
    <3> QED BY <2>2, <3>1 DEF Looks!EditTheme
  <2>3. CASE Looks!NewTheme
    BY <2>3 DEF Looks!NewTheme
  <2>4. CASE Looks!ImportTheme
    BY <2>4 DEF Looks!ImportTheme
  <2> QED BY <2>1, <2>2, <2>3, <2>4
<1> QED BY <1>1, <1>2, LooksPreviewed

LEMMA LooksApply == ASSUME Looks!ThemesAssumption, LooksInv, Looks!ApplyDraft PROVE LooksInv'
<1> DEFINE id == draft[1]
<1>1. id \in OwnThemes /\ draft[2] \in Contents /\ draft # <<>>
  BY LooksKnown DEF Looks!ApplyDraft
<1>2. /\ local' = [local EXCEPT !.themes[id] = draft[2], !.theme = id]
      /\ worn' = Looks!WithTheme(worn, local', id) /\ Looks!Announced(local.theme # id)
  BY DEF Looks!ApplyDraft
<1>3. UNCHANGED <<looksServer, draft, editing, queue, patch, late, asked, pull, looksFaults>> /\ Looks!Edits
  BY DEF Looks!ApplyDraft
<1>4. local' \in Looks!States /\ local'.theme = id /\ local'.skin = local.skin /\ local'.skins = local.skins
  BY <1>1, <1>2, LooksKnown DEF Looks!States
<1> HIDE DEF id
<1>5. worn' \in LooksWorn /\ worn'.skin = worn.skin /\ worn'.text = worn.text
  BY <1>2, <1>4, LooksThemeKinds, LooksKnown
<1>6. LooksWornSkin'
  BY <1>4, <1>5, LooksKnown, LooksOtherThemes DEF LooksWornSkin
<1>7. LooksOnItsWay'
  BY <1>2, <1>3, <1>4, LooksKnown, LooksStillAnnounced DEF LooksActive
<1>8. timer' \in BOOLEAN /\ told' \in BOOLEAN
  BY <1>2, LooksKnown, LooksAnnouncedKinds
<1>9. Looks!TypeOK'
  BY <1>3, <1>4, <1>5, <1>8, LooksKnown, LooksKept
<1> QED BY <1>1, <1>3, <1>6, <1>7, <1>9 DEF LooksInv

LEMMA LooksSaveTheme == ASSUME Looks!ThemesAssumption, LooksInv, Looks!SaveTheme PROVE LooksInv'
<1>1. draft[1] \in OwnThemes /\ draft[2] \in Contents /\ draft # <<>>
  BY LooksKnown DEF Looks!SaveTheme
<1>2. local' = [local EXCEPT !.themes[draft[1]] = draft[2]]
      /\ UNCHANGED <<looksServer, worn, draft, editing, timer, queue, patch, late, asked, pull, told, edits,
         looksFaults>>
  BY DEF Looks!SaveTheme
<1>3. local' \in Looks!States /\ local'.theme = local.theme /\ local'.skin = local.skin
      /\ local'.skins = local.skins
  BY <1>1, <1>2, LooksKnown DEF Looks!States
<1>4. LooksWornSkin'
  <2>1. worn' = worn /\ Looks!StoredSkin(local') = Looks!StoredSkin(local)
        /\ \A k : Looks!Text(local', k) = Looks!Text(local, k)
    BY <1>2, <1>3, LooksOtherThemes
  <2> QED BY <2>1, LooksKnown DEF LooksWornSkin
<1>5. LooksOnItsWay'
  BY <1>2, <1>3, LooksKnown DEF LooksOnItsWay, LooksActive
<1>6. Looks!TypeOK'
  BY <1>2, <1>3, LooksKnown, LooksKept
<1> QED BY <1>1, <1>2, <1>4, <1>5, <1>6 DEF LooksInv

LEMMA LooksDeleteTheme ==
  ASSUME Looks!ThemesAssumption, LooksInv, NEW id \in OwnThemes, Looks!DeleteTheme(id) PROVE LooksInv'
<1> DEFINE a == IF local.theme = id THEN Default ELSE Looks!StoredTheme(local)
<1>1. a \in Themes \cup OwnThemes
  BY LooksKnown, LooksStoredKinds DEF Looks!ThemesAssumption
<1>2. /\ local' = [local EXCEPT !.themes[id] = None, !.theme = a]
      /\ worn' = Looks!WithTheme(worn, local', Looks!StoredTheme(local'))
      /\ told' = (told /\ local'.theme = local.theme)
      /\ timer' = (timer \/ (local.theme # id /\ local'.theme # local.theme))
      /\ draft # <<>>
  BY DEF Looks!DeleteTheme
<1>3. UNCHANGED <<looksServer, editing, queue, patch, late, asked, pull, looksFaults>> /\ Looks!Edits
  BY DEF Looks!DeleteTheme
<1>4. draft' \in OwnThemes \X Contents
  BY <1>2, LooksKnown DEF Looks!DeleteTheme
<1> HIDE DEF a
<1>5. local' \in Looks!States /\ local'.skin = local.skin /\ local'.skins = local.skins
  BY <1>1, <1>2, LooksKnown DEF Looks!States
<1>6. worn' \in LooksWorn /\ worn'.skin = worn.skin /\ worn'.text = worn.text
  BY <1>2, <1>5, LooksThemeKinds, LooksKnown
<1>7. LooksWornSkin'
  BY <1>5, <1>6, LooksKnown, LooksOtherThemes DEF LooksWornSkin
<1>8. LooksOnItsWay'
  BY <1>2, <1>3, <1>5, LooksKnown DEF LooksOnItsWay, LooksActive
<1>9. Looks!TypeOK'
  BY <1>2, <1>3, <1>4, <1>5, <1>6, LooksKnown, LooksKept
<1>10. draft' # <<>>
  <2>1. PICK n \in OwnThemes, c \in Contents : draft' = <<n, c>>
    BY <1>4
  <2> QED BY <2>1
<1> QED BY <1>7, <1>8, <1>9, <1>10 DEF LooksInv

LEMMA LooksLeave == ASSUME Looks!ThemesAssumption, LooksInv, Looks!LeaveStudio PROVE LooksInv'
<1> DEFINE a == Looks!StoredTheme(local)
<1>1. a \in Themes \cup OwnThemes /\ (Looks!HasTheme(local, a) \/ a \in Themes)
  BY LooksKnown, LooksStoredKinds
<1>2. /\ local' = [local EXCEPT !.theme = a] /\ worn' = Looks!WithTheme(worn, local, a)
      /\ Looks!Announced(local'.theme # local.theme) /\ draft' = <<>> /\ editing' = None
  BY DEF Looks!LeaveStudio
<1>3. UNCHANGED <<looksServer, queue, patch, late, asked, pull, edits, looksFaults>>
  BY DEF Looks!LeaveStudio
<1> HIDE DEF a
<1>4. /\ local' \in Looks!States /\ local'.theme = a /\ local'.themes = local.themes
      /\ local'.skin = local.skin /\ local'.skins = local.skins
  BY <1>1, <1>2, LooksKnown DEF Looks!States
<1>5. /\ worn' \in LooksWorn /\ worn'.skin = worn.skin /\ worn'.text = worn.text
      /\ worn'.base = Looks!Base(a) /\ worn'.style = Looks!Style(local, a)
  BY <1>2, LooksThemeKinds, LooksKnown
<1>6. LooksWornSkin'
  BY <1>4, <1>5, LooksKnown, LooksOtherThemes DEF LooksWornSkin
<1>7. LooksWornTheme'
  <2>1. Looks!StoredTheme(local') = a
    BY <1>1, <1>4 DEF Looks!StoredTheme, Looks!HasTheme
  <2>2. Looks!Style(local', a) = Looks!Style(local, a)
    BY <1>4 DEF Looks!Style, Looks!HasTheme
  <2> QED BY <1>5, <2>1, <2>2 DEF LooksWornTheme
<1>8. LooksOnItsWay'
  BY <1>2, <1>3, <1>4, LooksKnown, LooksStillAnnounced DEF LooksActive
<1>9. timer' \in BOOLEAN /\ told' \in BOOLEAN
  BY <1>2, LooksKnown, LooksAnnouncedKinds
<1>10. Looks!TypeOK'
  BY <1>2, <1>3, <1>4, <1>5, <1>9, LooksKnown, LooksKept
<1> QED BY <1>6, <1>7, <1>8, <1>10 DEF LooksInv

LEMMA LooksSaveSkin ==
  ASSUME Looks!ThemesAssumption, LooksInv, NEW c \in Contents, Looks!SaveSkin(c) PROVE LooksInv'
<1>1. PICK id \in OwnSkins : /\ local' = [local EXCEPT !.skins[id] = c, !.skin = id]
                             /\ editing' = id /\ worn' = Looks!WithSkin(worn, local', id)
                             /\ Looks!Announced(local.skin # id)
  BY LooksKnown DEF Looks!SaveSkin
<1>2. UNCHANGED <<looksServer, draft, queue, patch, late, asked, pull, looksFaults>> /\ Looks!Edits
  BY DEF Looks!SaveSkin
<1>3. /\ local' \in Looks!States /\ local'.skin = id /\ local'.skins[id] = c
      /\ local'.theme = local.theme /\ local'.themes = local.themes
  BY <1>1, LooksKnown DEF Looks!States
<1>4. /\ worn' \in LooksWorn /\ worn'.skin = id /\ worn'.text = Looks!Text(local', id)
      /\ worn'.base = worn.base /\ worn'.style = worn.style
  <2>1. id \in Skins \cup OwnSkins /\ worn \in LooksWorn
    BY LooksKnown
  <2>2. \A t \in Looks!States : LET w == Looks!WithSkin(worn, t, id) IN
          w \in LooksWorn /\ w.skin = id /\ w.text = Looks!Text(t, id) /\ w.base = worn.base
            /\ w.style = worn.style
    BY <2>1, LooksSkinKinds
  <2> QED BY ONLY <1>1, <1>3, <2>2
<1>5. Looks!StoredSkin(local') = id
  BY <1>3 DEF Looks!StoredSkin, Looks!HasSkin, Looks!ThemesAssumption
<1>6. LooksWornSkin'
  BY <1>4, <1>5 DEF LooksWornSkin
<1>7. draft' = <<>> /\ ~asked' => LooksWornTheme'
  BY <1>2, <1>3, <1>4, LooksOtherSkins DEF LooksWornTheme, LooksInv
<1>8. LooksOnItsWay'
  BY <1>1, <1>2, <1>3, LooksKnown, LooksStillAnnounced DEF LooksActive
<1>9. timer' \in BOOLEAN /\ told' \in BOOLEAN
  BY <1>1, LooksKnown, LooksAnnouncedKinds
<1>10. Looks!TypeOK'
  BY <1>1, <1>2, <1>3, <1>4, <1>9, LooksKnown, LooksKept
<1> QED BY <1>6, <1>7, <1>8, <1>10 DEF LooksInv

LEMMA LooksDeleteSkin ==
  ASSUME Looks!ThemesAssumption, LooksInv, NEW id \in OwnSkins, Looks!DeleteSkin(id) PROVE LooksInv'
<1> DEFINE a == IF local.skin = id THEN AutoSkin ELSE Looks!StoredSkin(local)
<1>1. a \in Skins \cup OwnSkins
  BY LooksKnown, LooksStoredKinds DEF Looks!ThemesAssumption
<1>2. /\ local' = [local EXCEPT !.skins[id] = None, !.skin = a]
      /\ worn' = Looks!WithSkin(worn, local', Looks!StoredSkin(local'))
      /\ told' = (told /\ local'.skin = local.skin)
      /\ timer' = (timer \/ (local.skin # id /\ local'.skin # local.skin))
      /\ editing' \in {editing, None}
  BY DEF Looks!DeleteSkin
<1>3. UNCHANGED <<looksServer, draft, queue, patch, late, asked, pull, looksFaults>> /\ Looks!Edits
  BY DEF Looks!DeleteSkin
<1> HIDE DEF a
<1>4. local' \in Looks!States /\ local'.theme = local.theme /\ local'.themes = local.themes
  BY <1>1, <1>2, LooksKnown DEF Looks!States
<1>5. Looks!StoredSkin(local') \in Skins \cup OwnSkins
  BY <1>4, LooksStoredKinds
<1>6. /\ worn' \in LooksWorn /\ worn'.skin = Looks!StoredSkin(local')
         /\ worn'.text = Looks!Text(local', Looks!StoredSkin(local'))
      /\ worn'.base = worn.base /\ worn'.style = worn.style
  <2>1. \A t \in Looks!States, k \in Skins \cup OwnSkins : LET w == Looks!WithSkin(worn, t, k) IN
          w \in LooksWorn /\ w.skin = k /\ w.text = Looks!Text(t, k) /\ w.base = worn.base
            /\ w.style = worn.style
    BY LooksSkinKinds, LooksKnown
  <2> QED BY ONLY <1>2, <1>4, <1>5, <2>1
<1>7. LooksWornSkin'
  BY <1>6 DEF LooksWornSkin
<1>8. draft' = <<>> /\ ~asked' => LooksWornTheme'
  BY <1>3, <1>4, <1>6, LooksOtherSkins DEF LooksWornTheme, LooksInv
<1>9. LooksOnItsWay'
  BY <1>2, <1>3, <1>4, LooksKnown DEF LooksOnItsWay, LooksActive
<1>10. Looks!TypeOK'
  BY <1>2, <1>3, <1>4, <1>6, LooksKnown, LooksKept
<1> QED BY <1>7, <1>8, <1>9, <1>10 DEF LooksInv

\* Steps that change nothing of what is worn and stored in the browser.
LEMMA LooksSends ==
  ASSUME Looks!ThemesAssumption, LooksInv,
         \/ \E id \in OwnSkins \cup {None} : Looks!EditSkin(id)
         \/ Looks!TimerFires \/ Looks!SendPatch \/ Looks!PatchDone \/ Looks!PatchRefused \/ Looks!PatchFails
            \/ Looks!LatePatchLands \/ Looks!PullRead
         \/ \E id \in Themes : Looks!OtherDevice(id)
  PROVE  LooksInv'
<1>1. UNCHANGED <<local, worn, draft, asked>>
  BY DEF Looks!EditSkin, Looks!TimerFires, Looks!SendPatch, Looks!PatchDone, Looks!PatchRefused,
     Looks!PatchFails, Looks!LatePatchLands, Looks!PullRead, Looks!OtherDevice
<1>2. LooksWornSkin' /\ (draft' = <<>> /\ ~asked' => LooksWornTheme')
  BY <1>1, LooksUnseen
<1>3. ASSUME looksServer' \in Looks!States, editing' \in OwnSkins \cup {None}, timer' \in BOOLEAN,
             queue' \in Nat, told' \in BOOLEAN,
             patch' = <<>> \/ patch' \in Looks!States \X BOOLEAN, late' \subseteq Looks!States,
               pull' \subseteq Looks!States,
             UNCHANGED edits, UNCHANGED looksFaults \/ Looks!Faults, LooksOnItsWay'
      PROVE  LooksInv'
  <2>1. Looks!TypeOK'
    BY <1>1, <1>3, LooksKnown, LooksKept
  <2> QED BY <1>2, <1>3, <2>1 DEF LooksInv
<1>4. ASSUME NEW id \in OwnSkins \cup {None}, Looks!EditSkin(id) PROVE LooksInv'
  BY <1>3, <1>4, LooksKnown DEF Looks!EditSkin, LooksOnItsWay
<1>5. CASE Looks!TimerFires
  <2>1. queue' = queue + 1 /\ queue' \in Nat /\ queue' > 0
    BY <1>5, LooksKnown DEF Looks!TimerFires, Looks!Queued
  <2>2. timer' = FALSE /\ UNCHANGED <<local, looksServer, worn, draft, editing, patch, late, asked, pull,
        told, edits, looksFaults>>
    BY <1>5 DEF Looks!TimerFires
  <2>3. LooksOnItsWay'
    BY <2>1 DEF LooksOnItsWay
  <2> QED BY <1>3, <2>1, <2>2, <2>3, LooksKnown
<1>6. CASE Looks!SendPatch
  <2>1. queue' \in Nat /\ patch' = <<local, FALSE>> /\ patch' \in Looks!States \X BOOLEAN
    <3>1. queue > 0 /\ queue' = queue - 1 /\ patch' = <<local, FALSE>>
      BY <1>6 DEF Looks!SendPatch
    <3>2. queue' \in Nat
      BY <3>1, LooksKnown
    <3> QED BY <3>1, <3>2, LooksKnown
  <2>2. UNCHANGED <<local, looksServer, worn, draft, editing, timer, late, asked, pull, told, edits,
        looksFaults>>
    BY <1>6 DEF Looks!SendPatch
  <2>3. LooksOnItsWay'
    BY <2>1, <2>2 DEF LooksOnItsWay, LooksActive
  <2> QED BY <1>3, <2>1, <2>2, <2>3, LooksKnown
<1>7. CASE Looks!PatchDone
  <2>1. looksServer' = patch[1] /\ patch' = <<>> /\ patch # <<>> /\ looksServer' \in Looks!States
    BY <1>7, LooksKnown DEF Looks!PatchDone
  <2>2. UNCHANGED <<local, worn, draft, editing, timer, queue, late, asked, pull, told, edits, looksFaults>>
    BY <1>7 DEF Looks!PatchDone
  <2>3. LooksOnItsWay'
    BY <2>1, <2>2, LooksKnown DEF LooksOnItsWay, LooksActive
  <2> QED BY <1>3, <2>1, <2>2, <2>3, LooksKnown
<1>8. CASE Looks!PatchRefused
  <2>1. patch' = <<local, TRUE>> /\ patch' \in Looks!States \X BOOLEAN /\ Looks!Faults
    BY <1>8, LooksKnown DEF Looks!PatchRefused
  <2>2. UNCHANGED <<local, looksServer, worn, draft, editing, timer, queue, late, asked, pull, told, edits>>
    BY <1>8 DEF Looks!PatchRefused
  <2>3. LooksOnItsWay'
    BY <2>1, <2>2 DEF LooksOnItsWay, LooksActive
  <2> QED BY <1>3, <2>1, <2>2, <2>3, LooksKnown
<1>9. CASE Looks!PatchFails
  BY <1>3, <1>9, LooksKnown DEF Looks!PatchFails, LooksOnItsWay
<1>10. CASE Looks!LatePatchLands
  BY <1>3, <1>10, LooksKnown DEF Looks!LatePatchLands, LooksOnItsWay
<1>11. CASE Looks!PullRead
  BY <1>3, <1>11, LooksKnown DEF Looks!PullRead, LooksOnItsWay
<1>12. ASSUME NEW id \in Themes, Looks!OtherDevice(id) PROVE LooksInv'
  <2>1. looksServer' \in Looks!States
    BY <1>12, LooksKnown DEF Looks!OtherDevice, Looks!States
  <2> QED BY <1>3, <1>12, <2>1, LooksKnown DEF Looks!OtherDevice, LooksOnItsWay
<1> QED BY <1>4, <1>5, <1>6, <1>7, <1>8, <1>9, <1>10, <1>11, <1>12

LEMMA LooksLoad == ASSUME Looks!ThemesAssumption, LooksInv, Looks!Load PROVE LooksInv'
<1>1. /\ local' = looksServer /\ asked' = TRUE /\ pull' = {} /\ draft' = <<>> /\ editing' = None
         /\ timer' = FALSE
      /\ queue' = 0 /\ patch' = <<>> /\ told' = FALSE /\ Looks!Edits /\ UNCHANGED <<looksServer, looksFaults>>
      /\ worn' = [base |-> Looks!Base(Looks!StoredTheme(looksServer)), style |-> None,
                  skin |-> Looks!StoredSkin(looksServer),
                    text |-> Looks!Text(looksServer, Looks!StoredSkin(looksServer))]
  BY DEF Looks!Load, Looks!Loaded
<1>2. late' \subseteq Looks!States
  BY LooksKnown DEF Looks!Load
<1>3. worn' \in LooksWorn
  <2>1. Looks!Base(Looks!StoredTheme(looksServer)) \in Themes
    BY DEF Looks!Base, Looks!ThemesAssumption
  <2>2. Looks!Text(looksServer, Looks!StoredSkin(looksServer)) \in Contents \cup {None}
    BY LooksStateFields, LooksKnown DEF Looks!Text, Looks!HasSkin
  <2> QED BY <1>1, <2>1, <2>2, LooksStoredKinds, LooksKnown DEF LooksWorn
<1>4. LooksWornSkin' /\ LooksOnItsWay'
  BY <1>1 DEF LooksWornSkin, LooksOnItsWay
<1>5. Looks!TypeOK'
  BY <1>1, <1>2, <1>3, LooksKnown, LooksKept
<1> QED BY <1>1, <1>4, <1>5 DEF LooksInv

\* What has come, or was kept, is put on.
LEMMA LooksPull ==
  ASSUME Looks!ThemesAssumption, LooksInv, Looks!PullArrives \/ Looks!PullFails PROVE LooksInv'
<1>1. PICK s \in Looks!States :
        /\ local' = [s EXCEPT !.theme = Looks!StoredTheme(s), !.skin = Looks!StoredSkin(s)]
        /\ worn' = Looks!WithSkin(Looks!WithTheme(worn, s, Looks!StoredTheme(s)), s, Looks!StoredSkin(s))
        /\ \/ told' = FALSE /\ timer' = (timer \/ local' # s) /\ UNCHANGED looksFaults
           \/ s = local /\ Looks!Announced(local' # local) /\ Looks!Faults
  BY LooksKnown DEF Looks!PullArrives, Looks!Pulled, Looks!PullFails
<1>2. asked' = FALSE /\ pull' = {} /\ UNCHANGED <<looksServer, draft, editing, queue, patch, late, edits>>
  BY DEF Looks!PullArrives, Looks!PullFails
<1>3. /\ local' \in Looks!States /\ Looks!StoredTheme(local') = Looks!StoredTheme(s)
         /\ Looks!StoredSkin(local') = Looks!StoredSkin(s)
      /\ \A k : Looks!Style(local', k) = Looks!Style(s, k) /\ Looks!Text(local', k) = Looks!Text(s, k)
  BY <1>1, LooksTakenOver
<1>4. Looks!StoredSkin(s) \in Skins \cup OwnSkins
  BY LooksStoredKinds
<1> DEFINE w == Looks!WithTheme(worn, s, Looks!StoredTheme(s))
<1>5. w \in LooksWorn /\ w.base = Looks!Base(Looks!StoredTheme(s))
      /\ w.style = Looks!Style(s, Looks!StoredTheme(s))
  BY LooksKnown, LooksThemeKinds
<1> HIDE DEF w
<1>6. worn' = Looks!WithSkin(w, s, Looks!StoredSkin(s))
  BY <1>1 DEF w
<1>7. /\ worn' \in LooksWorn /\ worn'.skin = Looks!StoredSkin(s)
         /\ worn'.text = Looks!Text(s, Looks!StoredSkin(s))
      /\ worn'.base = w.base /\ worn'.style = w.style
  BY <1>4, <1>5, <1>6, LooksSkinKinds
<1>8. LooksWornSkin' /\ LooksWornTheme'
  BY <1>3, <1>5, <1>7 DEF LooksWornSkin, LooksWornTheme
<1>9. LooksOnItsWay' /\ timer' \in BOOLEAN /\ told' \in BOOLEAN
  <2>1. CASE told' = FALSE /\ timer' = (timer \/ local' # s)
    BY <2>1, LooksKnown DEF LooksOnItsWay
  <2>2. CASE Looks!Announced(local' # local)
    BY <1>2, <2>2, LooksKnown, LooksStillAnnounced, LooksAnnouncedKinds DEF LooksActive
  <2> QED BY <1>1, <2>1, <2>2
<1>10. Looks!TypeOK'
  BY <1>1, <1>2, <1>3, <1>7, <1>9, LooksKnown, LooksKept
<1> QED BY <1>8, <1>9, <1>10 DEF LooksInv

LEMMA LooksNext == ASSUME Looks!ThemesAssumption, LooksInv, [Looks!Next]_(Looks!vars) PROVE LooksInv'
<1>1. CASE Looks!Next
  BY <1>1, LooksChangeTheme, LooksChangeSkin, LooksStudio, LooksSaveTheme, LooksApply, LooksLeave,
     LooksDeleteTheme, LooksSaveSkin,
     LooksDeleteSkin, LooksSends, LooksLoad, LooksPull DEF Looks!Next
<1>2. CASE UNCHANGED Looks!vars
  <2>1. LooksWornSkin' /\ (draft' = <<>> /\ ~asked' => LooksWornTheme')
    BY <1>2, LooksUnseen DEF Looks!vars
  <2> QED BY <1>2, <2>1 DEF Looks!vars, LooksInv, Looks!TypeOK, LooksOnItsWay
<1> QED BY <1>1, <1>2

\* Whatever is tried, kept, undone, deleted and taken over from the server (theme and
\* skin controllers): the page wears the skin that is stored and, outside the studio and once
\* the state asked for at the start has come, the theme that is stored; and a change
\* that was announced is on its way to the server or has arrived.
THEOREM LooksHold ==
  ASSUME Looks!ThemesAssumption PROVE Looks!Spec => [](Looks!WornIsStored /\ Looks!AnnouncedIsSent)
<1>1. ASSUME LooksInv PROVE Looks!WornIsStored /\ Looks!AnnouncedIsSent
  BY <1>1 DEF LooksInv, Looks!WornIsStored, Looks!AnnouncedIsSent, LooksWornSkin, LooksWornTheme,
     LooksOnItsWay, LooksActive
<1> QED BY <1>1, LooksInit, LooksNext, PTL DEF Looks!Spec

-----------------------------------------------------------------------------
\* The menus

MenusMenu == [open : BOOLEAN, listens : {0, 1}, kept : BOOLEAN]

\* What is open listens, unless it was kept open.
MenusFollows(m) ==
  \/ m.listens = 0 /\ ~m.open /\ ~m.kept
  \/ m.listens = 0 /\ m.open /\ m.kept
  \/ m.listens = 1 /\ m.open /\ ~m.kept

\* The tab stop is whatever Refreshed found.
MenusPickers(S) ==
  [open : BOOLEAN, listens : {0, 1}, kept : BOOLEAN, unfolded : S, selected : S, stop : S, focus : S]
MenusPickerRecord(p) == \E S : p \in MenusPickers(S)

\* At most one user menu is open, also on a page from the cache, where nothing listens.
MenusInv ==
  /\ menus \in [UserMenus -> MenusMenu] /\ \A u \in UserMenus : MenusFollows(menus[u])
  /\ \A u, v \in UserMenus : menus[u].open /\ menus[v].open => u = v
  /\ MenusPickerRecord(directories) /\ MenusFollows(directories)
  /\ ~connected => directories.listens = 0 /\ \A u \in UserMenus : menus[u].listens = 0
  /\ context \in [open : BOOLEAN, listens : BOOLEAN] /\ context.listens = context.open

\* The picker's changes.
LEMMA MenusPickerSteps ==
  ASSUME NEW p, MenusPickerRecord(p)
  PROVE  /\ MenusPickerRecord(Popups!Refreshed(p)) /\ Popups!Refreshed(p).open = p.open
         /\ Popups!Refreshed(p).listens = p.listens /\ Popups!Refreshed(p).kept = p.kept
         /\ MenusPickerRecord(Popups!Hidden(p)) /\ Popups!Hidden(p).open = FALSE
            /\ Popups!Hidden(p).listens = 0 /\ Popups!Hidden(p).kept = FALSE
         /\ \A o : MenusPickerRecord(Popups!Focused(p, o)) /\ Popups!Focused(p, o).open = p.open
            /\ Popups!Focused(p, o).listens = p.listens /\ Popups!Focused(p, o).kept = p.kept
<1>1. PICK S : p \in MenusPickers(S)
  BY DEF MenusPickerRecord
<1>2. ASSUME NEW x PROVE LET r == [p EXCEPT !.stop = x] IN
        MenusPickerRecord(r) /\ r.open = p.open /\ r.listens = p.listens /\ r.kept = p.kept
  <2>1. [p EXCEPT !.stop = x] \in MenusPickers(S \cup {x})
    BY <1>1 DEF MenusPickers
  <2> QED BY <1>1, <2>1 DEF MenusPickers, MenusPickerRecord
<1>3. ASSUME NEW x PROVE LET r == [p EXCEPT !.stop = x, !.focus = x] IN
        MenusPickerRecord(r) /\ r.open = p.open /\ r.listens = p.listens /\ r.kept = p.kept
  <2>1. [p EXCEPT !.stop = x, !.focus = x] \in MenusPickers(S \cup {x})
    BY <1>1 DEF MenusPickers
  <2> QED BY <1>1, <2>1 DEF MenusPickers, MenusPickerRecord
<1>4. LET r == [p EXCEPT !.open = FALSE, !.listens = 0, !.kept = FALSE, !.unfolded = Unfolded, !.focus = 0] IN
        MenusPickerRecord(r) /\ r.open = FALSE /\ r.listens = 0 /\ r.kept = FALSE
  <2>1. [p EXCEPT !.open = FALSE, !.listens = 0, !.kept = FALSE, !.unfolded = Unfolded, !.focus = 0]
          \in MenusPickers(S \cup {Unfolded, 0})
    BY <1>1 DEF MenusPickers
  <2> QED BY <1>1, <2>1 DEF MenusPickers, MenusPickerRecord
<1> QED BY <1>2, <1>3, <1>4, Zenon DEF Popups!Refreshed, Popups!Hidden, Popups!Focused

LEMMA MenusPickerShown ==
  ASSUME NEW p, MenusPickerRecord(p), MenusFollows(p)
  PROVE  MenusPickerRecord(Popups!Shown(p)) /\ MenusFollows(Popups!Shown(p))
<1> DEFINE n == IF p.open THEN p.listens ELSE p.listens + 1
           q == [p EXCEPT !.open = TRUE, !.listens = n]
<1>0. PICK S : p \in MenusPickers(S)
  BY DEF MenusPickerRecord
<1>1. n \in {0, 1} /\ (n = 0 \/ n = 1)
  BY <1>0 DEF MenusFollows, MenusPickers
<1> HIDE DEF n
<1>2. q \in MenusPickers(S) /\ q.open = TRUE /\ q.listens = n /\ q.kept = p.kept
  BY <1>0, <1>1 DEF MenusPickers
<1>6. p.open \in BOOLEAN /\ p.kept \in BOOLEAN
  BY <1>0 DEF MenusPickers
<1>5. (n = 0 /\ p.kept = TRUE) \/ (n = 1 /\ p.kept = FALSE)
  <2>1. CASE p.open = TRUE
    BY <1>6, <2>1 DEF MenusFollows, n
  <2>2. CASE p.open = FALSE
    <3>1. p.kept = FALSE /\ p.listens = 0
      BY <1>6, <2>2 DEF MenusFollows
    <3> QED BY <3>1, <2>2 DEF n
  <2> QED BY <1>6, <2>1, <2>2
<1>3. Popups!Shown(p) = Popups!Refreshed(q)
  BY DEF Popups!Shown, n
<1> HIDE DEF q
<1>4. MenusPickerRecord(Popups!Refreshed(q)) /\ Popups!Refreshed(q).open = q.open
      /\ Popups!Refreshed(q).listens = q.listens /\ Popups!Refreshed(q).kept = q.kept
  BY <1>2, MenusPickerSteps DEF MenusPickerRecord
<1> QED BY <1>2, <1>3, <1>4, <1>5 DEF MenusFollows

LEMMA MenusInit == ASSUME Popups!Init PROVE MenusInv
<1>1. PICK s : directories = Popups!Refreshed([open |-> FALSE, listens |-> 0, kept |-> FALSE, unfolded |-> Unfolded,
      selected |-> s,
                                   stop |-> 1, focus |-> 0])
  BY DEF Popups!Init
<1> DEFINE p == [open |-> FALSE, listens |-> 0, kept |-> FALSE, unfolded |-> Unfolded, selected |-> s, stop |-> 1,
    focus |-> 0]
<1>2. p \in MenusPickers({Unfolded, s, 0, 1}) /\ p.open = FALSE /\ p.listens = 0 /\ p.kept = FALSE
      /\ directories = Popups!Refreshed(p)
  BY <1>1 DEF MenusPickers
<1> HIDE DEF p
<1>3. MenusPickerRecord(directories) /\ MenusFollows(directories)
  BY <1>2, MenusPickerSteps DEF MenusPickerRecord, MenusFollows
<1>4. menus \in [UserMenus -> MenusMenu] /\ \A u \in UserMenus : menus[u].listens = 0 /\ menus[u].open = FALSE /\ menus[u].kept = FALSE
  BY DEF Popups!Init, MenusMenu, Popups!ClosedMenu
<1>5. context \in [open : BOOLEAN, listens : BOOLEAN] /\ context.listens = context.open
  BY DEF Popups!Init
<1>6. connected = TRUE
  BY DEF Popups!Init
<1> QED BY <1>3, <1>4, <1>5, <1>6 DEF MenusInv, MenusFollows

LEMMA MenusClosed ==
  ASSUME MenusInv
  PROVE  /\ Popups!MenusClosed \in [UserMenus -> MenusMenu]
         /\ \A u \in UserMenus : MenusFollows(Popups!MenusClosed[u])
            /\ (Popups!MenusClosed[u].open => menus[u].open)
         /\ MenusPickerRecord(Popups!PickerClosed) /\ MenusFollows(Popups!PickerClosed)
         /\ Popups!ContextClosed \in [open : BOOLEAN, listens : BOOLEAN]
            /\ Popups!ContextClosed.listens = Popups!ContextClosed.open
<1>1. /\ Popups!MenusClosed \in [UserMenus -> MenusMenu]
      /\ \A u \in UserMenus : MenusFollows(Popups!MenusClosed[u])
         /\ (Popups!MenusClosed[u].open => menus[u].open)
  <2>1. menus \in [UserMenus -> MenusMenu] /\ [open |-> FALSE, listens |-> 0, kept |-> FALSE] \in MenusMenu
    BY DEF MenusInv, MenusMenu
  <2>2. Popups!MenusClosed \in [UserMenus -> MenusMenu]
    BY <2>1 DEF Popups!MenusClosed, Popups!ClosedMenu
  <2>3. \A u \in UserMenus : Popups!MenusClosed[u] = menus[u]
        \/ Popups!MenusClosed[u] = [open |-> FALSE, listens |-> 0, kept |-> FALSE]
    BY DEF Popups!MenusClosed, Popups!ClosedMenu
  <2> QED BY <2>2, <2>3 DEF MenusInv, MenusFollows
<1>2. MenusPickerRecord(Popups!PickerClosed) /\ MenusFollows(Popups!PickerClosed)
  <2>1. MenusPickerRecord(directories) /\ MenusFollows(directories)
    BY DEF MenusInv
  <2>2. MenusPickerRecord(Popups!Hidden(directories)) /\ Popups!Hidden(directories).open = FALSE
        /\ Popups!Hidden(directories).listens = 0 /\ Popups!Hidden(directories).kept = FALSE
    BY <2>1, MenusPickerSteps
  <2>3. MenusFollows(Popups!Hidden(directories))
    BY <2>2 DEF MenusFollows
  <2> QED BY <2>1, <2>2, <2>3 DEF Popups!PickerClosed
<1>3. Popups!ContextClosed \in [open : BOOLEAN, listens : BOOLEAN]
      /\ Popups!ContextClosed.listens = Popups!ContextClosed.open
  BY DEF MenusInv, Popups!ContextClosed
<1> QED BY <1>1, <1>2, <1>3

LEMMA MenusNext == ASSUME MenusInv, [Popups!Next]_(Popups!vars) PROVE MenusInv'
<1>0. /\ MenusPickerRecord(directories) /\ MenusFollows(directories)
      /\ MenusPickerRecord(Popups!Hidden(directories)) /\ MenusFollows(Popups!Hidden(directories))
      /\ MenusPickerRecord(Popups!Shown(directories)) /\ MenusFollows(Popups!Shown(directories))
  <2>1. MenusPickerRecord(directories) /\ MenusFollows(directories)
    BY DEF MenusInv
  <2> QED BY <2>1, MenusPickerSteps, MenusPickerShown DEF MenusFollows
<1>1. ASSUME UNCHANGED <<menus, context>>, MenusPickerRecord(directories'), MenusFollows(directories'),
             connected'
      PROVE  MenusInv'
  BY <1>1 DEF MenusInv
<1>2. CASE Popups!ClickBeside \/ Popups!Escape
  BY <1>2, MenusClosed DEF Popups!ClickBeside, Popups!Escape, MenusInv
<1>16. CASE Popups!EscapeInPanel
  BY <1>0, <1>16, MenusClosed DEF Popups!EscapeInPanel, MenusInv
<1>3. CASE Popups!ScrollOrResize
  BY <1>3, MenusClosed DEF Popups!ScrollOrResize, MenusInv
<1>4. ASSUME NEW u \in UserMenus, Popups!ToggleUserMenu(u) PROVE MenusInv'
  <2> DEFINE none == [open |-> FALSE, listens |-> 0, kept |-> FALSE]
  <2>0. menus \in [UserMenus -> MenusMenu] /\ none \in MenusMenu /\ none.open = FALSE /\ none.listens = 0 /\ none.kept = FALSE
    BY DEF MenusInv, MenusMenu
  <2>1. UNCHANGED <<directories, context>> /\ connected'
    BY <1>4 DEF Popups!ToggleUserMenu
  <2>2. CASE menus[u].open
    <3>1. menus' = [menus EXCEPT ![u] = none]
      BY <1>4, <2>2 DEF Popups!ToggleUserMenu, Popups!ClosedMenu
    <3>2. menus' \in [UserMenus -> MenusMenu] /\ \A v \in UserMenus : menus'[v] = none \/ menus'[v] = menus[v]
      BY <2>0, <3>1
    <3> QED BY <2>0, <2>1, <3>2 DEF MenusInv, MenusFollows
  <2>3. CASE ~menus[u].open
    <3>1. menus[u].listens = 0 /\ menus[u].kept = FALSE /\ menus[u].open = FALSE
      BY <2>0, <2>3 DEF MenusInv, MenusFollows, MenusMenu
    <3>2. \A v \in UserMenus : menus'[v] = IF v = u THEN [open |-> TRUE, listens |-> 1, kept |-> FALSE] ELSE none
      <4>1. menus' = [Popups!OthersClosed(u) EXCEPT ![u] = Popups!Opened(menus[u])]
        BY <1>4, <2>3 DEF Popups!ToggleUserMenu
      <4>2. Popups!OthersClosed(u) = [v \in UserMenus |-> IF v = u THEN menus[v] ELSE none]
        BY DEF Popups!OthersClosed, Popups!ClosedMenu
      <4>3. menus[u] = none
        BY <2>0, <3>1, Zenon DEF MenusMenu
      <4>4. Popups!Opened(none) = [open |-> TRUE, listens |-> 1, kept |-> FALSE]
        <5>1. Popups!Opened(none) = [none EXCEPT !.open = TRUE, !.listens = none.listens + 1]
          BY DEF Popups!Opened
        <5>2. none.listens + 1 = 1
          OBVIOUS
        <5> QED BY <5>1, <5>2
      <4>5. menus' = [Popups!OthersClosed(u) EXCEPT ![u] = [open |-> TRUE, listens |-> 1, kept |-> FALSE]]
        BY <4>1, <4>3, <4>4
      <4> QED BY <4>2, <4>5
    <3>3. [open |-> TRUE, listens |-> 1, kept |-> FALSE] \in MenusMenu
      BY DEF MenusMenu
    <3>4. menus' = [v \in UserMenus |-> menus'[v]]
      BY <1>4, <2>3 DEF Popups!ToggleUserMenu, Popups!OthersClosed
    <3> HIDE DEF none
    <3>5. menus' \in [UserMenus -> MenusMenu]
      BY <2>0, <3>2, <3>3, <3>4
    <3>6. \A v \in UserMenus : MenusFollows(menus'[v]) /\ (menus'[v].open => v = u)
      BY <2>0, <3>2 DEF MenusFollows
    <3> QED BY <2>1, <3>5, <3>6 DEF MenusInv
  <2> QED BY <2>2, <2>3
<1>5. ASSUME NEW u \in UserMenus, Popups!ClickWithinMenu(u) PROVE MenusInv'
  <2>1. menus' = [Popups!MenusClosed EXCEPT ![u] = menus[u]] /\ directories' = Popups!PickerClosed
        /\ context' = Popups!ContextClosed /\ connected'
    BY <1>5 DEF Popups!ClickWithinMenu
  <2>2. /\ menus' \in [UserMenus -> MenusMenu]
        /\ \A v \in UserMenus : MenusFollows(menus'[v]) /\ (menus'[v].open => menus[v].open)
    BY <2>1, MenusClosed DEF MenusInv
  <2> QED BY <2>1, <2>2, MenusClosed DEF MenusInv
<1>6. CASE Popups!TogglePicker
  BY <1>0, <1>1, <1>6 DEF Popups!TogglePicker
<1>7. CASE Popups!ArrowOnButton
  <2>1. PICK o : directories' = [Popups!Shown(directories) EXCEPT !.focus = o]
    BY <1>7 DEF Popups!ArrowOnButton
  <2>2. MenusPickerRecord(directories') /\ directories'.open = Popups!Shown(directories).open
        /\ directories'.listens = Popups!Shown(directories).listens
        /\ directories'.kept = Popups!Shown(directories).kept
    <3>1. PICK S : Popups!Shown(directories) \in MenusPickers(S)
      BY <1>0 DEF MenusPickerRecord
    <3>2. directories' \in MenusPickers(S \cup {o})
      BY <2>1, <3>1 DEF MenusPickers
    <3> QED BY <2>1, <3>1, <3>2 DEF MenusPickers, MenusPickerRecord
  <2> QED BY <1>0, <1>1, <1>7, <2>2 DEF Popups!ArrowOnButton, MenusFollows
<1>8. CASE Popups!ArrowInPanel
  <2>1. PICK o : directories' = Popups!Focused(directories, o)
    BY <1>8 DEF Popups!ArrowInPanel
  <2>2. MenusPickerRecord(directories') /\ directories'.open = directories.open
        /\ directories'.listens = directories.listens /\ directories'.kept = directories.kept
    BY <1>0, <2>1, MenusPickerSteps
  <2> QED BY <1>0, <1>1, <1>8, <2>2 DEF Popups!ArrowInPanel, MenusFollows
<1>9. ASSUME NEW o \in Options, Popups!ToggleBranch(o) PROVE MenusInv'
  <2>0. PICK S : directories \in MenusPickers(S)
    BY <1>0 DEF MenusPickerRecord
  <2> DEFINE x == (directories.unfolded \ {o}) \cup ({o} \ directories.unfolded)
             p == [directories EXCEPT !.unfolded = x]
             y == IF directories.focus \in Popups!Visible(p) THEN directories.focus ELSE 0
             q == [p EXCEPT !.focus = y]
  <2>1. p \in MenusPickers(S \cup {x}) /\ p.focus = directories.focus /\ p.open = directories.open
        /\ p.listens = directories.listens /\ p.kept = directories.kept
    BY <2>0 DEF MenusPickers
  <2>2. MenusPickerRecord(q) /\ q.open = directories.open /\ q.listens = directories.listens
        /\ q.kept = directories.kept
    <3> HIDE DEF p, y
    <3>1. q \in MenusPickers(S \cup {x, y})
      BY <2>1 DEF MenusPickers
    <3> QED BY <2>1, <3>1 DEF MenusPickers, MenusPickerRecord
  <2>3. directories' = Popups!Refreshed(q)
    BY <1>9, <2>1 DEF Popups!ToggleBranch
  <2> HIDE DEF q
  <2>4. MenusPickerRecord(directories') /\ directories'.open = directories.open
        /\ directories'.listens = directories.listens /\ directories'.kept = directories.kept
    BY <2>2, <2>3, MenusPickerSteps
  <2> QED BY <1>0, <1>1, <1>9, <2>4 DEF Popups!ToggleBranch, MenusFollows
<1>10. ASSUME NEW o \in Options, Popups!Select(o) PROVE MenusInv'
  <2> DEFINE q == [directories EXCEPT !.selected = o, !.stop = o]
  <2>0. PICK S : directories \in MenusPickers(S)
    BY <1>0 DEF MenusPickerRecord
  <2>1. q \in MenusPickers(S \cup {o}) /\ directories' = Popups!Hidden(q)
    BY <1>10, <2>0 DEF MenusPickers, Popups!Select
  <2> HIDE DEF q
  <2>2. MenusPickerRecord(directories') /\ directories'.listens = 0 /\ directories'.open = FALSE
        /\ directories'.kept = FALSE
    BY <2>1, MenusPickerSteps DEF MenusPickerRecord
  <2> QED BY <1>1, <1>10, <2>2 DEF Popups!Select, MenusFollows
<1>11. CASE Popups!OpenContextMenu
  BY <1>11 DEF Popups!OpenContextMenu, MenusInv
<1>12. CASE Popups!OpenEditorMenu
  BY <1>0, <1>1, <1>12 DEF Popups!OpenEditorMenu
<1>13. CASE Popups!LeavePage
  <2>1. /\ menus' \in [UserMenus -> MenusMenu]
        /\ \A u \in UserMenus : /\ MenusFollows(menus'[u]) /\ menus'[u].listens = 0
                                /\ menus'[u].open = menus[u].open
    <3>1. menus' = [u \in UserMenus |-> [menus[u] EXCEPT !.listens = 0, !.kept = menus[u].kept \/ menus[u].open]]
      BY <1>13 DEF Popups!LeavePage
    <3>2. ASSUME NEW u \in UserMenus
          PROVE  /\ menus'[u] \in MenusMenu /\ menus'[u].listens = 0 /\ menus'[u].open = menus[u].open
                 /\ menus'[u].kept = (menus[u].kept \/ menus[u].open)
      <4>1. (menus[u].kept \/ menus[u].open) \in BOOLEAN /\ menus[u] \in MenusMenu
        BY DEF MenusInv
      <4> QED BY <3>1, <4>1 DEF MenusMenu
    <3>3. ASSUME NEW u \in UserMenus PROVE MenusFollows(menus'[u])
      <4>1. MenusFollows(menus[u])
        BY DEF MenusInv
      <4> QED BY <3>2, <4>1 DEF MenusFollows
    <3> QED BY <3>1, <3>2, <3>3
  <2>2. MenusPickerRecord(directories') /\ directories'.open = directories.open /\ directories'.listens = 0
        /\ directories'.kept = (directories.kept \/ directories.open)
    <3>1. PICK S : directories \in MenusPickers(S)
      BY <1>0 DEF MenusPickerRecord
    <3>2. directories' = [directories EXCEPT !.listens = 0, !.kept = directories.kept \/ directories.open,
                                             !.focus = 0]
      BY <1>13 DEF Popups!LeavePage
    <3>3. (directories.kept \/ directories.open) \in BOOLEAN
      OBVIOUS
    <3>4. directories' \in MenusPickers(S \cup {0})
      BY <3>1, <3>2, <3>3 DEF MenusPickers
    <3> QED BY <3>1, <3>2, <3>4 DEF MenusPickers, MenusPickerRecord
  <2>4. MenusFollows(directories')
    BY <1>0, <2>2 DEF MenusFollows
  <2>3. context' \in [open : BOOLEAN, listens : BOOLEAN] /\ context'.listens = context'.open
    BY <1>13 DEF Popups!LeavePage
  <2> QED BY <2>1, <2>2, <2>3, <2>4 DEF MenusInv
<1>14. CASE Popups!RestorePage
  <2>1. MenusPickerRecord(directories') /\ directories'.open = directories.open
        /\ directories'.listens = directories.listens /\ directories'.kept = directories.kept
    BY <1>0, <1>14, MenusPickerSteps DEF Popups!RestorePage
  <2> QED BY <1>0, <1>1, <1>14, <2>1 DEF Popups!RestorePage, MenusFollows
<1>15. CASE UNCHANGED Popups!vars
  BY <1>15 DEF Popups!vars, MenusInv
<1> QED BY <1>2, <1>3, <1>4, <1>5, <1>6, <1>7, <1>8, <1>9, <1>10, <1>11, <1>12, <1>13, <1>14, <1>15, <1>16
    DEF Popups!Next

LEMMA MenusAtMostOneOpen ==
  ASSUME NEW S, \A u, v \in S : u = v PROVE Cardinality(S) <= 1
<1>1. CASE S = {}
  <2>1. Cardinality({}) = 0
    BY FS_EmptySet
  <2> QED BY <1>1, <2>1
<1>2. CASE S # {}
  <2>1. PICK u : S = {u}
    BY <1>2
  <2>2. Cardinality({u}) = 1
    BY FS_Singleton
  <2> QED BY <2>1, <2>2
<1> QED BY <1>1, <1>2

\* Whatever is toggled, left and taken from the cache of pages (user_menu, the picker of directories
\* and the memo's context menu): a menu of a page that is shown listens to the document once, exactly
\* while it is open and did not come open out of the cache; and one user menu is open at most.
THEOREM MenusHold == Popups!Spec => []Popups!ListenersFollowMenus
<1>1. ASSUME MenusInv PROVE Popups!ListenersFollowMenus
  <2>1. Cardinality({u \in UserMenus : menus[u].open}) <= 1
    BY <1>1, MenusAtMostOneOpen DEF MenusInv
  <2>2. ASSUME NEW m, MenusFollows(m), ~connected => m.listens = 0
        PROVE  /\ m.listens = IF connected /\ m.open /\ ~m.kept THEN 1 ELSE 0
               /\ m.kept => m.open
    BY <2>2 DEF MenusFollows
  <2>3. \A m \in {menus[u] : u \in UserMenus} \cup {directories} :
          MenusFollows(m) /\ (~connected => m.listens = 0)
    BY <1>1 DEF MenusInv
  <2>4. \A m \in {menus[u] : u \in UserMenus} \cup {directories} :
          /\ m.listens = IF connected /\ m.open /\ ~m.kept THEN 1 ELSE 0
          /\ m.kept => m.open
    BY <2>2, <2>3
  <2>5. context.listens = context.open
    BY <1>1 DEF MenusInv
  <2>6. \A S : Popups!Cardinality(S) = Cardinality(S)
    BY DEF Popups!Cardinality, Cardinality
  <2> QED BY <2>1, <2>4, <2>5, <2>6 DEF Popups!ListenersFollowMenus
<1> QED BY <1>1, MenusInit, MenusNext, PTL DEF Popups!Spec

-----------------------------------------------------------------------------
\* The assistant's panel

Messages == [role : {"user", "assistant"}, turn : Nat]
IsQuestion(q) ==
  q = [turn |-> q.turn, stage |-> q.stage, include |-> q.include, range |-> q.range] /\ q.turn \in Nat

\* A question waits behind its message, or the talk was cleared.
WaitsIn(h, q) == q.stage = "unit" \/ h = <<>> \/ (h[Len(h)].role = "user" /\ h[Len(h)].turn = q.turn)

PanelInv ==
  /\ history \in Seq(Messages) /\ turns \in Nat
  /\ \A i \in 2 .. Len(history) : history[i].role = "assistant" =>
       history[i - 1].role = "user" /\ history[i - 1].turn = history[i].turn
  /\ \A q \in questions : IsQuestion(q) /\ WaitsIn(history, q)
  /\ \A q, r \in questions : q = r
  /\ sending = FALSE => questions = {}

\* A message behind the others
LEMMA Behind ==
  ASSUME NEW h \in Seq(Messages), NEW m \in Messages
  PROVE  /\ Append(h, m) \in Seq(Messages) /\ Len(Append(h, m)) = Len(h) + 1 /\ Append(h, m)[Len(h) + 1] = m
         /\ \A i \in 1 .. Len(h) : Append(h, m)[i] = h[i]
         /\ Append(h, m) # <<>> /\ Len(h) \in Nat /\ (h # <<>> => Len(h) > 0)
<1>1. /\ Append(h, m) \in Seq(Messages) /\ Len(Append(h, m)) = Len(h) + 1 /\ Append(h, m)[Len(h) + 1] = m
      /\ \A i \in 1 .. Len(h) : Append(h, m)[i] = h[i]
  OBVIOUS
<1>2. Len(h) \in Nat /\ (h # <<>> => Len(h) > 0)
  OBVIOUS
<1>3. Append(h, m) # <<>>
  <2>1. Len(<<>>) = 0
    OBVIOUS
  <2>2. Len(Append(h, m)) # 0
    BY <1>1, <1>2
  <2> QED BY <2>1, <2>2, Zenon
<1> QED BY <1>1, <1>2, <1>3

LEMMA SendOK == ASSUME PanelInv, Panel!Send PROVE PanelInv'
<1> DEFINE m == Panel!Message("user", turns + 1)
           q == [turn |-> turns + 1, stage |-> "context", include |-> include, range |-> <<1, 0>>]
           n == Len(history)
<1>1. questions = {} /\ turns \in Nat /\ history \in Seq(Messages)
  BY DEF PanelInv, Panel!Send
<1>2. history' = Append(history, m) /\ sending' = TRUE /\ turns' = turns + 1 /\ questions' = {q}
  BY <1>1 DEF Panel!Send, Panel!Busy
<1>3. m \in Messages /\ m.role = "user" /\ m.turn = turns + 1
  BY <1>1 DEF Panel!Message, Messages
<1>4. IsQuestion(q) /\ q.turn = turns + 1
  BY <1>1 DEF IsQuestion
<1> HIDE DEF m, q
<1>5. /\ history' \in Seq(Messages) /\ Len(history') = n + 1 /\ history'[n + 1] = m /\ n \in Nat
      /\ \A i \in 1 .. n : history'[i] = history[i]
  BY <1>1, <1>2, <1>3, Behind
<1>6. ASSUME NEW i \in 2 .. n + 1, history'[i].role = "assistant"
      PROVE  history'[i - 1].role = "user" /\ history'[i - 1].turn = history'[i].turn
  <2>1. i # n + 1
    BY <1>3, <1>5, <1>6
  <2>2. i \in 2 .. n /\ i \in 1 .. n /\ i - 1 \in 1 .. n
    BY <1>5, <2>1
  <2> QED BY <1>5, <1>6, <2>2 DEF PanelInv
<1>7. WaitsIn(history', q)
  <2>1. history'[Len(history')].role = "user" /\ history'[Len(history')].turn = q.turn
    BY <1>3, <1>4, <1>5
  <2> QED BY <2>1 DEF WaitsIn
<1>8. \A x \in questions' : IsQuestion(x) /\ WaitsIn(history', x)
  BY <1>2, <1>4, <1>7
<1>9. \A i \in 2 .. Len(history') : history'[i].role = "assistant" =>
        history'[i - 1].role = "user" /\ history'[i - 1].turn = history'[i].turn
  BY <1>5, <1>6
<1>10. turns' \in Nat /\ history' \in Seq(Messages) /\ sending' # FALSE /\ \A x, y \in questions' : x = y
  BY <1>1, <1>2, <1>5
<1> QED BY <1>8, <1>9, <1>10 DEF PanelInv

\* An answer comes behind its question.
LEMMA AnswerComes ==
  ASSUME PanelInv, NEW q \in questions, Panel!Answered(q)
  PROVE  /\ history' \in Seq(Messages)
         /\ \A i \in 2 .. Len(history') : history'[i].role = "assistant" =>
              history'[i - 1].role = "user" /\ history'[i - 1].turn = history'[i].turn
<1> DEFINE m == Panel!Message("assistant", q.turn)
           n == Len(history)
<1>1. history \in Seq(Messages) /\ history' = Append(history, m) /\ q.stage = "sent" /\ WaitsIn(history, q)
      /\ q.turn \in Nat
  BY DEF PanelInv, Panel!Answered, IsQuestion
<1>2. m \in Messages /\ m.role = "assistant" /\ m.turn = q.turn
  BY <1>1 DEF Panel!Message, Messages
<1> HIDE DEF m
<1>3. /\ history' \in Seq(Messages) /\ Len(history') = n + 1 /\ history'[n + 1] = m /\ n \in Nat
      /\ \A i \in 1 .. n : history'[i] = history[i]
  BY <1>1, <1>2, Behind
<1>4. ASSUME NEW i \in 2 .. n + 1, history'[i].role = "assistant"
      PROVE  history'[i - 1].role = "user" /\ history'[i - 1].turn = history'[i].turn
  <2>1. CASE i = n + 1
    <3>1. n \in 1 .. n /\ i - 1 = n /\ history # <<>>
      BY <1>3, <2>1
    <3>2. history[n].role = "user" /\ history[n].turn = q.turn
      BY <1>1, <3>1 DEF WaitsIn
    <3> QED BY <1>2, <1>3, <2>1, <3>1, <3>2
  <2>2. CASE i # n + 1
    <3>1. i \in 2 .. n /\ i \in 1 .. n /\ i - 1 \in 1 .. n
      BY <1>3, <2>2
    <3> QED BY <1>3, <1>4, <3>1 DEF PanelInv
  <2> QED BY <2>1, <2>2
<1> QED BY <1>3, <1>4

LEMMA PanelKept == ASSUME PanelInv, Panel!Next \/ UNCHANGED Panel!vars PROVE PanelInv'
<1>1. CASE UNCHANGED <<history, sending, questions, turns>>
  BY <1>1 DEF PanelInv, WaitsIn
<1>2. CASE Panel!Send
  BY <1>2, SendOK
<1>3. ASSUME NEW q \in questions, Panel!Over(q), history' = history \/ Panel!Answered(q), turns' = turns
      PROVE  PanelInv'
  <2>1. questions' = {} /\ sending' = FALSE
    BY <1>3 DEF Panel!Over, PanelInv
  <2>2. /\ history' \in Seq(Messages)
        /\ \A i \in 2 .. Len(history') : history'[i].role = "assistant" =>
             history'[i - 1].role = "user" /\ history'[i - 1].turn = history'[i].turn
    <3>1. CASE history' = history
      BY <3>1 DEF PanelInv
    <3>2. CASE Panel!Answered(q)
      BY <3>2, AnswerComes
    <3> QED BY <1>3, <3>1, <3>2
  <2> QED BY <1>3, <2>1, <2>2 DEF PanelInv
<1>4. ASSUME NEW q \in questions, Panel!Ask(q) PROVE PanelInv'
  <2> DEFINE r == [q EXCEPT !.stage = "sent"]
  <2>1. IsQuestion(r) /\ r.turn = q.turn /\ r.stage = "sent" /\ q.stage = "context"
    <3>1. q = [turn |-> q.turn, stage |-> q.stage, include |-> q.include, range |-> q.range] /\ q.turn \in Nat
      BY DEF PanelInv, IsQuestion
    <3>2. r = [turn |-> q.turn, stage |-> "sent", include |-> q.include, range |-> q.range]
      BY <3>1
    <3>3. q.stage = "context"
      BY <1>4 DEF Panel!Ask
    <3> HIDE DEF r
    <3>4. IsQuestion(r) /\ r.turn = q.turn /\ r.stage = "sent"
      BY <3>1, <3>2 DEF IsQuestion
    <3> QED BY <3>3, <3>4
  <2>2. questions' = {r} /\ UNCHANGED <<history, sending, turns>>
    BY <1>4 DEF Panel!Ask, Panel!Becomes, PanelInv
  <2> HIDE DEF r
  <2>3. sending # FALSE
    BY DEF PanelInv
  <2>4. WaitsIn(history, q)
    BY DEF PanelInv
  <2>5. WaitsIn(history', r)
    BY <2>1, <2>2, <2>4 DEF WaitsIn
  <2>6. \A x \in questions' : IsQuestion(x) /\ WaitsIn(history', x)
    BY <2>1, <2>2, <2>5
  <2>7. sending' # FALSE /\ \A x, y \in questions' : x = y
    BY <2>2, <2>3
  <2> QED BY <2>2, <2>6, <2>7 DEF PanelInv
<1>5. ASSUME NEW q \in questions, Panel!EditUnit(q) PROVE PanelInv'
  <2> DEFINE u == Panel!UnitAt(doc, caret)
             r == [q EXCEPT !.stage = "unit", !.range = u]
  <2>1. questions' = {r} /\ UNCHANGED <<sending, turns>> /\ Panel!Answered(q)
    BY <1>5 DEF Panel!EditUnit, Panel!Becomes, PanelInv
  <2> HIDE DEF u
  <2>2. IsQuestion(r) /\ r.stage = "unit"
    <3>1. q = [turn |-> q.turn, stage |-> q.stage, include |-> q.include, range |-> q.range] /\ q.turn \in Nat
      BY DEF PanelInv, IsQuestion
    <3>2. r = [turn |-> q.turn, stage |-> "unit", include |-> q.include, range |-> u]
      <4> DEFINE p == [q EXCEPT !.stage = "unit"]
      <4>1. p = [turn |-> q.turn, stage |-> "unit", include |-> q.include, range |-> q.range]
        BY <3>1
      <4>2. r = [p EXCEPT !.range = u]
        OBVIOUS
      <4> HIDE DEF p, r
      <4> QED BY <4>1, <4>2
    <3> HIDE DEF r
    <3> QED BY <3>1, <3>2 DEF IsQuestion
  <2> HIDE DEF r
  <2>3. sending # FALSE
    BY DEF PanelInv
  <2>4. WaitsIn(history', r)
    BY <2>2 DEF WaitsIn
  <2>5. \A x \in questions' : IsQuestion(x) /\ WaitsIn(history', x)
    BY <2>1, <2>2, <2>4
  <2>6. sending' # FALSE /\ turns' \in Nat /\ \A x, y \in questions' : x = y
    BY <2>1, <2>3 DEF PanelInv
  <2> QED BY <2>1, <2>5, <2>6, AnswerComes DEF PanelInv
<1>6. CASE Panel!ClearChat
  <2>1. history' = <<>> /\ UNCHANGED <<sending, questions, turns>>
    BY <1>6 DEF Panel!ClearChat
  <2>2. <<>> \in Seq(Messages) /\ Len(<<>>) = 0
    OBVIOUS
  <2> QED BY <2>1, <2>2 DEF PanelInv, WaitsIn
<1>7. ASSUME NEW q \in questions, Panel!Fails(q) \/ Panel!AnsweredOnly(q) \/ Panel!EditSelection(q)
             \/ Panel!EditBody(q) \/ Panel!EditSection(q) \/ Panel!UnitFound(q)
      PROVE  PanelInv'
  BY <1>3, <1>7 DEF Panel!Fails, Panel!AnsweredOnly, Panel!EditSelection, Panel!EditBody, Panel!EditSection,
     Panel!UnitFound
<1>8. ASSUME \/ \E l \in {"=", "a"} : Panel!Type(l)
             \/ \E line \in DOMAIN doc, b \in BOOLEAN : Panel!PointAt(line, b)
             \/ Panel!IncludeSelection \/ \E r \in Roles : Panel!ChooseRole(r)
             \/ \E new \in SUBSET Roles : Panel!RefreshModelOptions(new)
             \/ Panel!StatusTimer
      PROVE  UNCHANGED <<history, sending, questions, turns>>
  BY <1>8 DEF Panel!Type, Panel!PointAt, Panel!IncludeSelection, Panel!ChooseRole, Panel!RefreshModelOptions,
     Panel!StatusTimer, Panel!talk
<1>9. ASSUME Panel!InsertNothing \/ Panel!InsertAtCaret \/ Panel!AppendReply
             \/ (\E ok \in BOOLEAN : Panel!Appended(ok)) \/ UNCHANGED Panel!vars
      PROVE  UNCHANGED <<history, sending, questions, turns>>
  BY <1>9 DEF Panel!InsertNothing, Panel!InsertAtCaret, Panel!AppendReply, Panel!Appended, Panel!talk,
     Panel!vars
<1> QED BY <1>1, <1>2, <1>4, <1>5, <1>6, <1>7, <1>8, <1>9 DEF Panel!Next

\* However often the talk is cleared while an answer is on its way (send and clearChat of
\* memo_ai_panel_controller): every answer stands behind its own question, or first in the talk.
THEOREM PanelHolds == Panel!Spec => []Panel!AnswersFollowQuestions
<1>1. Panel!Init => PanelInv
  <2> SUFFICES ASSUME Panel!Init PROVE PanelInv
    OBVIOUS
  <2>1. history = <<>> /\ questions = {} /\ turns = 0
    BY DEF Panel!Init
  <2>2. <<>> \in Seq(Messages) /\ Len(<<>>) = 0
    OBVIOUS
  <2> QED BY <2>1, <2>2 DEF PanelInv
<1>2. PanelInv /\ [Panel!Next]_(Panel!vars) => PanelInv'
  BY PanelKept
<1>3. PanelInv => Panel!AnswersFollowQuestions
  BY DEF PanelInv, Panel!AnswersFollowQuestions
<1> QED BY <1>1, <1>2, <1>3, PTL DEF Panel!Spec

-----------------------------------------------------------------------------
\* What is stored

\* For any windows, widths, themes and skins: a sidebar has the width and the fold that are stored, as far as
\* the narrowest window since then allowed, the two are together no wider than the window, and the page wears
\* the theme and skin in the storage and sends on what it has announced.
StorageIsShown == Bars!RoomIsShared /\ Looks!WornIsStored /\ Looks!AnnouncedIsSent

\* A page whose sidebars and themes do what their controllers do shows what is stored.
THEOREM StorageHolds ==
  ASSUME Bars!SidebarsAssumption, Looks!ThemesAssumption
  PROVE  Bars!Spec /\ Looks!Spec => []StorageIsShown
<1>1. Bars!Spec => []Bars!RoomIsShared
  BY BarsShareRoom
<1>2. Looks!Spec => [](Looks!WornIsStored /\ Looks!AnnouncedIsSent)
  BY LooksHold
<1>3. Bars!RoomIsShared /\ Looks!WornIsStored /\ Looks!AnnouncedIsSent => StorageIsShown
  BY DEF StorageIsShown
<1> QED BY <1>1, <1>2, <1>3, PTL
=============================================================================
