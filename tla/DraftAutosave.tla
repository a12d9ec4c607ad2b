---------------------------- MODULE DraftAutosave ----------------------------
(***************************************************************************)
(* memo_draft_controller.js: the edit form of a memo in some tabs of one   *)
(* browser.  Edits are debounced, saves run one after the other on a       *)
(* promise chain, a new memo is created by its first save, saved bodies    *)
(* are broadcast to the other tabs, and a commit or a discard is a request *)
(* of its own that waits for no save.  The server is the rows' owner and   *)
(* is kept to what its answers tell the page (see MemoCommit for it).      *)
(***************************************************************************)
EXTENDS Integers, FiniteSets, Sequences

CONSTANTS
  Tabs, Bodies, Tags, Props,
  Derived,        \* the title derived from a body
  Custom,         \* titles a user types
  Blank,          \* the title field is empty
  Untitled,       \* TITLE_PLACEHOLDER
  EmptyBody, NoProps, NoBody, NoForm,
  Scenes,         \* the form the tabs open (NoForm: a new memo), and what is done in each
  MaxEdits, MaxFaults, MaxCalls   \* bounds

Titles == {Derived[b] : b \in Bodies} \cup Custom \cup {Blank, Untitled}
Forms == [body : Bodies, title : Titles, manual : BOOLEAN,
          tags : SUBSET Tags, props : Props]

Ops == {"body", "title", "tags", "props", "suggest", "render", "commit", "discard"}

ASSUME TabsAssumption == Tabs # {} /\ IsFiniteSet(Tabs)
ASSUME DerivedAssumption == Derived \in [Bodies -> Titles]
ASSUME CustomAssumption == Custom \cap ({Derived[b] : b \in Bodies} \cup {Blank, Untitled}) = {}
ASSUME TitleAssumption == Blank # Untitled /\ \A b \in Bodies : Derived[b] # Blank
ASSUME DefaultsAssumption == EmptyBody \in Bodies /\ NoProps \in Props
ASSUME NothingAssumption == NoBody \notin Bodies /\ NoForm \notin Forms
ASSUME ScenesAssumption ==
  Scenes \subseteq [form : Forms \cup {NoForm}, doing : [Tabs -> SUBSET Ops]]
ASSUME BoundAssumption == MaxEdits \in Nat /\ MaxFaults \in Nat /\ MaxCalls \in Nat

IsBlank(title) == title \in {Blank, Untitled}
\* An automatic title is the first line of the body, or is being retyped.
TitleFits(f) == f.manual \/ IsBlank(f.title) \/ f.title = Derived[f.body]

\* prepare_title_from_body_and_manual has seen to the title of a stored memo.
ASSUME StoredTitleAssumption == \A scene \in Scenes : scene.form # NoForm => TitleFits(scene.form)

Kinds == {"patch", "create", "commit", "discard", "late"}
Calls == [tab : Tabs, kind : Kinds, form : Forms,
          stage : {"sent", "ok", "refused", "lost"}]

VARIABLES
  page,    \* tab -> the form and the controller's fields
  calls,   \* requests on their way, with the server's answer once there is one
  mail,    \* tab -> bodies broadcast to it, oldest first
  late,    \* saves still pending in pages the tab has left
  server,  \* the stored form, the committed one, and who wrote last
  made,    \* memos created
  lostCreates, edits, faults, started   \* counters

vars == <<page, calls, mail, late, server, made, lostCreates, edits, faults, started>>

Pages == [form : Forms, memo : BOOLEAN, creating : BOOLEAN, interacted : BOOLEAN,
          channel : BOOLEAN, lastBody : Bodies, lastSnap : Forms,
          pending : Bodies \cup {NoBody}, timer : BOOLEAN, queued : BOOLEAN,
          passed : BOOLEAN,     \* history: text never sent counts as saved
          doing : SUBSET Ops]   \* what its user does; a tab without one is not open

TypeOK ==
  /\ page \in [Tabs -> Pages]
  /\ calls \subseteq Calls
  /\ mail \in [Tabs -> Seq(Bodies)]
  /\ late \subseteq [tab : Tabs, form : Forms]
  /\ server \in [form : Forms \cup {NoForm}, committed : Forms \cup {NoForm},
                 by : Tabs, via : Kinds \cup {"none"}, acked : BOOLEAN]
  /\ {made, lostCreates, edits, faults, started} \subseteq Nat

-----------------------------------------------------------------------------
\* The form

\* syncTitleFromBodyIfBlank, in the microtask after connect.
NeedsTitle(f) == IsBlank(f.title) /\ f.title # Derived[f.body]
TitleSynced(f) ==
  IF NeedsTitle(f) THEN [f EXCEPT !.title = Derived[f.body], !.manual = FALSE] ELSE f

\* bodyInput, once the field holds f.body.
BodyInput(f) ==
  IF ~f.manual \/ IsBlank(f.title)
  THEN [f EXCEPT !.manual = @ /\ ~IsBlank(f.title), !.title = Derived[f.body]]
  ELSE f

\* titleInput.
TitleInput(f, title) == [f EXCEPT !.title = title, !.manual = ~IsBlank(title)]

\* titleBlur: an empty title shows the derived one, but never the placeholder.
TitleBlur(f) ==
  LET shown == IF Derived[f.body] = Untitled THEN Blank ELSE Derived[f.body]
  IN  IF IsBlank(f.title) THEN [f EXCEPT !.manual = FALSE, !.title = shown] ELSE f

\* Mutated: a suggested title does not count as typed.
SuggestedUntyped(f, title, tags) ==
  [f EXCEPT !.title = IF IsBlank(title) THEN @ ELSE title, !.tags = @ \cup tags]

\* applyMetadataSuggestion: a title counts as typed, new tags are appended.
Suggested(f, title, tags) ==
  [f EXCEPT !.title = IF IsBlank(title) THEN @ ELSE title,
            !.manual = @ \/ ~IsBlank(title),
            !.tags = @ \cup tags]

NewForm == [body |-> EmptyBody, title |-> Blank, manual |-> FALSE,
            tags |-> {}, props |-> NoProps]

\* memoPayload: a blank title goes out as the placeholder.
Outgoing(f) == [f EXCEPT !.title = IF @ = Blank THEN Untitled ELSE @]

\* Mutated: filling in the title schedules no save.
NeverSaves(f) == FALSE
\* The title filled in on opening is saved.
SavesFilledTitle(f) == NeedsTitle(f)

\* connect() on a page rendered from f: the snapshot is taken before the title
\* is filled in, so that the filled-in title is saved.
Opened(f, stored, doing) ==
  LET shown == [f EXCEPT !.title = IF @ = Untitled THEN Blank ELSE @]
      form == IF stored THEN TitleSynced(shown) ELSE shown
  IN  [form |-> form, memo |-> stored, creating |-> FALSE, interacted |-> FALSE,
       channel |-> stored /\ doing # {}, lastBody |-> f.body, lastSnap |-> shown,
       pending |-> NoBody, timer |-> stored /\ doing # {} /\ SavesFilledTitle(shown),
       queued |-> FALSE, passed |-> FALSE, doing |-> doing]

Init ==
  \E scene \in Scenes :
    LET f == scene.form
        stored == f # NoForm
        first == IF stored THEN f ELSE NewForm
    IN  /\ page = [t \in Tabs |-> Opened(first, stored, scene.doing[t])]
        /\ server = [form |-> f, committed |-> f, by |-> CHOOSE t \in Tabs : TRUE,
                     via |-> "none", acked |-> FALSE]
        /\ calls = {} /\ late = {} /\ mail = [t \in Tabs |-> <<>>]
        /\ made = 0 /\ lostCreates = 0 /\ edits = 0 /\ faults = 0 /\ started = 0

-----------------------------------------------------------------------------
\* What the user does

Edits(t, form, interacted) ==
  /\ edits < MaxEdits /\ edits' = edits + 1
  /\ page' = [page EXCEPT ![t].form = form, ![t].timer = TRUE,
                          ![t].interacted = @ \/ interacted]
  /\ UNCHANGED <<calls, mail, late, server, made, lostCreates, faults, started>>

TypeBody(t, b) ==
  /\ "body" \in page[t].doing /\ b # page[t].form.body
  /\ Edits(t, BodyInput([page[t].form EXCEPT !.body = b]), TRUE)

TypeTitle(t, title) ==
  /\ "title" \in page[t].doing /\ title # page[t].form.title
  /\ Edits(t, TitleInput(page[t].form, title), TRUE)

LeaveTitle(t) ==
  /\ "title" \in page[t].doing
  /\ TitleBlur(page[t].form).title # page[t].form.title
  /\ Edits(t, TitleBlur(page[t].form), FALSE)

\* commitTagInput, removeTagAt and removeLastTag all end in applyTags.
EditTags(t, tags) ==
  /\ "tags" \in page[t].doing /\ tags # page[t].form.tags
  /\ Edits(t, [page[t].form EXCEPT !.tags = tags], FALSE)

\* propertiesInput and patchProperty.
EditProperties(t, props) ==
  /\ "props" \in page[t].doing /\ props # page[t].form.props
  /\ Edits(t, [page[t].form EXCEPT !.props = props], FALSE)

ApplySuggestion(t, title, tags) ==
  /\ "suggest" \in page[t].doing /\ page[t].memo
  /\ Edits(t, Suggested(page[t].form, title, tags), TRUE)

\* "Load the newest body" in the banner of a remote save.
ApplyRemoteDraft(t) ==
  /\ page[t].pending # NoBody
  /\ LET b == page[t].pending
     IN  page' = [page EXCEPT
           ![t].form = BodyInput([@ EXCEPT !.body = b]), ![t].lastBody = b,
           ![t].pending = NoBody, ![t].interacted = TRUE, ![t].timer = TRUE]
  /\ UNCHANGED <<calls, mail, late, server, made, lostCreates, edits, faults, started>>

\* turbo:render on a form nobody typed a body or a title into: the fields go
\* back to what the page was rendered with.
TurboRender(t) ==
  /\ "render" \in page[t].doing
  /\ ~page[t].memo /\ ~page[t].interacted
  /\ page[t].form # NewForm
  /\ page' = [page EXCEPT ![t].form = NewForm, ![t].lastBody = EmptyBody]
  /\ UNCHANGED <<calls, mail, late, server, made, lostCreates, edits, faults, started>>

-----------------------------------------------------------------------------
\* Saving

\* The debounce runs out: the save joins the chain.  Saves that wait on the
\* chain read the form when their turn comes, so one stands for all of them.
TimerFires(t) ==
  /\ page[t].timer
  /\ page' = [page EXCEPT ![t].timer = FALSE, ![t].queued = TRUE]
  /\ UNCHANGED <<calls, mail, late, server, made, lostCreates, edits, faults, started>>

\* The requests a save of tab t makes and waits for.
Saving(t) == {c \in calls : c.tab = t /\ c.kind \in {"patch", "create"}}

\* persistDraftMerged chains one promise to the other.
ChainBusy(t) == Saving(t) # {}

\* performDraftAutosaveFetch has something to send.
Sends(p) == ~p.creating /\ (~p.memo \/ p.form # p.lastSnap)

Save(t) ==
  LET p == page[t] IN
  /\ p.queued /\ ~ChainBusy(t)
  /\ page' = [page EXCEPT ![t].queued = FALSE,
                          ![t].creating = @ \/ (Sends(p) /\ ~p.memo),
                          ![t].passed = @ /\ ~Sends(p)]
  /\ calls' = calls \cup
       IF Sends(p)
       THEN {[tab |-> t, kind |-> IF p.memo THEN "patch" ELSE "create",
              form |-> p.form, stage |-> "sent"]}
       ELSE {}
  /\ UNCHANGED <<mail, late, server, made, lostCreates, edits, faults, started>>

\* A page that was left saves what it still had pending.
LateSave(l) ==
  /\ late' = late \ {l}
  /\ calls' = calls \cup {[tab |-> l.tab, kind |-> "late", form |-> l.form, stage |-> "sent"]}
  /\ UNCHANGED <<page, mail, server, made, lostCreates, edits, faults, started>>

\* performCommit posts the form as it is, whatever the chain is doing.
Commit(t) ==
  /\ "commit" \in page[t].doing /\ page[t].memo /\ started < MaxCalls
  /\ \A c \in calls : c.tab = t => c.kind # "commit"    \* the button is disabled
  /\ started' = started + 1
  /\ calls' = calls \cup
       {[tab |-> t, kind |-> "commit", form |-> page[t].form, stage |-> "sent"]}
  /\ UNCHANGED <<page, mail, late, server, made, lostCreates, edits, faults>>

\* performDiscardDraft, for a memo that was committed once.
Discard(t) ==
  /\ "discard" \in page[t].doing /\ page[t].memo /\ started < MaxCalls
  /\ server.committed # NoForm
  /\ started' = started + 1
  /\ calls' = calls \cup
       {[tab |-> t, kind |-> "discard", form |-> page[t].form, stage |-> "sent"]}
  /\ UNCHANGED <<page, mail, late, server, made, lostCreates, edits, faults>>

Answer(c, stage) == calls' = (calls \ {c}) \cup {[c EXCEPT !.stage = stage]}

\* The server's part of a request.
ServerApplies(c) ==
  /\ c.stage = "sent"
  /\ Answer(c, "ok")
  /\ server' = [server EXCEPT
       !.form = IF c.kind = "discard" THEN server.committed ELSE Outgoing(c.form),
       !.committed = IF c.kind = "commit" THEN Outgoing(c.form) ELSE @,
       !.by = c.tab, !.via = c.kind, !.acked = FALSE]
  /\ made' = made + (IF c.kind = "create" THEN 1 ELSE 0)
  /\ UNCHANGED <<page, mail, late, lostCreates, edits, faults, started>>

ServerRefuses(c) ==
  /\ c.stage = "sent" /\ faults < MaxFaults /\ faults' = faults + 1
  /\ Answer(c, "refused")
  /\ UNCHANGED <<page, mail, late, server, made, lostCreates, edits, started>>

\* A request, or the answer to it, is lost.
NetworkFails(c) ==
  /\ c.stage \in {"sent", "ok"} /\ faults < MaxFaults /\ faults' = faults + 1
  /\ Answer(c, "lost")
  /\ lostCreates' = lostCreates + (IF c.kind = "create" /\ c.stage = "ok" THEN 1 ELSE 0)
  /\ UNCHANGED <<page, mail, late, server, made, edits, started>>

-----------------------------------------------------------------------------
\* Answers

\* notifyRemoteDraftSaved: every other tab on the memo's channel hears of it.
Broadcast(t, b) ==
  mail' = [u \in Tabs |->
             IF u # t /\ page[t].channel /\ page[u].channel THEN Append(mail[u], b) ELSE mail[u]]

Acked(c) == server' = [server EXCEPT !.acked = @ \/ (server.by = c.tab /\ server.via = c.kind)]

\* Mutated: the snapshot is taken when the answer is there.
SnapshotAtAnswer(c) == page[c.tab].form
\* What a successful save remembers as saved: the snapshot it sent.
SavedSnapshot(c) == c.form

DraftSaved(c) ==
  /\ c.kind = "patch" /\ c.stage = "ok"
  /\ calls' = calls \ {c}
  /\ page' = [page EXCEPT ![c.tab].lastBody = c.form.body,
                          ![c.tab].lastSnap = SavedSnapshot(c)]
  /\ Broadcast(c.tab, c.form.body)
  /\ Acked(c)
  /\ UNCHANGED <<late, made, lostCreates, edits, faults, started>>

\* Mutated: the page still thinks it has no memo.
NotPromoted(p) == [p EXCEPT !.creating = FALSE, !.interacted = TRUE, !.lastSnap = p.form]
\* Mutated: nothing is remembered as saved.
PromotedForgets(p) == [p EXCEPT !.memo = TRUE, !.creating = FALSE, !.interacted = TRUE,
                                !.lastSnap = NoForm]
\* promoteCreatedMemo: the page becomes the edit page of the memo, without a
\* channel, and takes the form as it is by now for saved: what was typed since
\* the create was sent goes out with the next edit, if there is one.
Promoted(p) == [p EXCEPT !.memo = TRUE, !.creating = FALSE, !.interacted = TRUE,
                         !.lastSnap = p.form]

MemoCreated(c) ==
  /\ c.kind = "create" /\ c.stage = "ok"
  /\ calls' = calls \ {c}
  /\ page' = [page EXCEPT ![c.tab] = Promoted(@),
                          ![c.tab].passed = page[c.tab].form # c.form]
  /\ Acked(c)
  /\ UNCHANGED <<mail, late, made, lostCreates, edits, faults, started>>

\* A save that failed is not tried again before the next edit.
SaveFailed(c) ==
  /\ c.kind \in {"patch", "create", "late", "commit", "discard"}
  /\ c.stage \in {"refused", "lost"}
  /\ calls' = calls \ {c}
  /\ page' = [page EXCEPT ![c.tab].creating = @ /\ c.kind # "create"]
  /\ UNCHANGED <<mail, late, server, made, lostCreates, edits, faults, started>>

\* The commit's stream replaces the show pane and the URL, never the form.
CommitDone(c) ==
  /\ c.kind \in {"commit", "late"} /\ c.stage = "ok"
  /\ calls' = calls \ {c}
  /\ UNCHANGED <<page, mail, late, server, made, lostCreates, edits, faults, started>>

\* The tab visits the edit page again. The controller it leaves keeps its
\* timer and its chain.
DiscardDone(c) ==
  LET p == page[c.tab] IN
  /\ c.kind = "discard" /\ c.stage = "ok"
  /\ calls' = {IF d.tab = c.tab /\ d.kind = "patch" THEN [d EXCEPT !.kind = "late"] ELSE d
                : d \in calls \ {c}}
  /\ late' = late \cup
       IF (p.timer \/ p.queued) /\ Sends(p) THEN {[tab |-> c.tab, form |-> p.form]} ELSE {}
  /\ page' = [page EXCEPT ![c.tab] = Opened(server.form, TRUE, @.doing)]
  /\ mail' = [mail EXCEPT ![c.tab] = <<>>]
  /\ UNCHANGED <<server, made, lostCreates, edits, faults, started>>

\* Mutated: a message is applied whatever the user typed meanwhile.
NeverDirty(p) == FALSE
\* The body holds text that was not saved from here or received.
Dirty(p) == p.form.body # p.lastBody

\* _onRemoteDraftMessage: into the form when it holds no unsaved text (and the
\* input event of that schedules a save here too), else behind a banner.
RemoteDraft(t) ==
  LET b == Head(mail[t]) IN
  /\ mail[t] # <<>>
  /\ mail' = [mail EXCEPT ![t] = Tail(@)]
  /\ page' = IF Dirty(page[t])
             THEN [page EXCEPT ![t].pending = b]
             ELSE [page EXCEPT ![t].form = BodyInput([@ EXCEPT !.body = b]),
                               ![t].lastBody = b, ![t].interacted = TRUE,
                               ![t].timer = TRUE]
  /\ UNCHANGED <<calls, late, server, made, lostCreates, edits, faults, started>>

-----------------------------------------------------------------------------
User(t) ==
  \/ \E b \in Bodies : TypeBody(t, b)
  \/ \E title \in Custom \cup {Blank} : TypeTitle(t, title)
  \/ LeaveTitle(t)
  \/ \E tags \in SUBSET Tags : EditTags(t, tags)
  \/ \E props \in Props : EditProperties(t, props)
  \/ \E title \in Custom \cup {Blank}, tags \in SUBSET Tags : ApplySuggestion(t, title, tags)
  \/ ApplyRemoteDraft(t) \/ TurboRender(t) \/ Commit(t) \/ Discard(t)

Browser(t) == TimerFires(t) \/ Save(t) \/ RemoteDraft(t)
Response(c) == DraftSaved(c) \/ MemoCreated(c) \/ SaveFailed(c) \/ CommitDone(c) \/ DiscardDone(c)
Page == (\E t \in Tabs : Browser(t)) \/ (\E l \in late : LateSave(l))
        \/ (\E c \in calls : Response(c))
Server == \E c \in calls : ServerApplies(c)

Next == \/ \E t \in Tabs : User(t)
        \/ Page \/ Server
        \/ \E c \in calls : ServerRefuses(c) \/ NetworkFails(c)

Spec == Init /\ [][Next]_vars
\* Timers run out, promises resume, and the server answers what reaches it.
Fairness == \A t \in Tabs : WF_vars(Browser(t)) /\ WF_vars(Page) /\ WF_vars(Server)
FairSpec == Spec /\ Fairness

-----------------------------------------------------------------------------
OpenTabs == {t \in Tabs : page[t].doing # {}}

\* Text typed here and not saved yet is replaced by a broadcast body only when
\* the user asks for it (_onRemoteDraftMessage, applyRemoteDraft).
UnsavedTextKept ==
  [][\A t \in Tabs :
       (page'[t].form.body # page[t].form.body /\ page[t].form.body # page[t].lastBody)
         => \/ edits' # edits
            \/ page[t].pending = page'[t].form.body
            \/ \E c \in calls : c.tab = t /\ c.kind = "discard"]_vars

\* One page makes one memo: a second one only after the answer to a create was
\* lost (_creating, shouldUseCreateEndpoint).
OneMemoPerPage == made <= Cardinality(OpenTabs) * (1 + lostCreates)

\* Once the page has heard that its draft was stored, what it compares later
\* edits with is what the server holds, so no edit is mistaken for a saved one.
\* The answer to the create is not among these (see `passed`).
AckedDraftIsSnapshot ==
  \A t \in Tabs :
    (server.by = t /\ server.via = "patch" /\ server.acked)
      => Outgoing(page[t].lastSnap) = server.form

\* Typing, remote bodies, suggestions, blurs and promotions keep an automatic
\* title and the body together (title_manual).
TitleFollowsBody == \A t \in Tabs : TitleFits(page[t].form)

AtRest(t) == ~page[t].timer /\ ~page[t].queued /\ Saving(t) = {}

\* The server has the form as it is on the page, or there is nothing to save.
\* Two things the code does are excluded, each by name: `passed`, and that a
\* request which waits for no save, a commit or what a page left behind, was
\* the last to write and carried an older form.
ServerHoldsForm(t) ==
  \/ server.form = Outgoing(page[t].form)
  \/ ~page[t].memo /\ page[t].form = NewForm
  \/ page[t].passed
  \/ server.via \in {"commit", "late"}

\* In one tab autosave comes to rest, and by then the server holds every edit,
\* and the title filled in on opening: those made while a save was under way
\* too, but for those made while the memo was being created, which the page
\* takes for saved when the answer comes (promoteCreatedMemo).  A save that
\* failed waits for the next edit.  Two tabs may go on exchanging their bodies.
AutosaveSettles ==
  []<>(\A t \in Tabs : OpenTabs = {t} => AtRest(t) /\ (faults > 0 \/ ServerHoldsForm(t)))

=============================================================================
