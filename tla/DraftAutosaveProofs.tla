------------------------ MODULE DraftAutosaveProofs ------------------------
(* Proofs about DraftAutosave for any tabs, forms, scenes, edits and faults. *)
EXTENDS DraftAutosave, FiniteSetTheorems, TLAPS

-----------------------------------------------------------------------------
\* The invariant

\* What the server has committed it has stored, and a draft it got from a patch
\* came from a page of the memo and has a title.
ServerOK ==
  /\ server.committed # NoForm => server.form # NoForm
  /\ server.via = "patch" => page[server.by].memo /\ server.form.title # Blank

\* Only a page of a memo patches and discards, only one without creates, and
\* what the server took last from a patch is what that patch sent.
CallOK(c) ==
  /\ c.kind = "discard" => server.committed # NoForm
  /\ c.kind \in {"patch", "discard"} => page[c.tab].memo
  /\ c.kind = "create" => ~page[c.tab].memo /\ page[c.tab].creating /\ page[c.tab].doing # {}
  /\ c.kind = "patch" /\ c.stage = "ok" /\ server.by = c.tab /\ server.via = "patch"
       => server.form = Outgoing(c.form)
CallsOK == \A c \in calls : CallOK(c)

\* The chain of a tab waits for one request at a time.
OneSave == \A t \in Tabs : \A c, d \in Saving(t) : c = d

\* In a tab that is not open nothing happens, and a new memo's body that nobody
\* typed is as it was put there.
PageOK(p) ==
  /\ p.doing = {} => ~p.timer /\ ~p.queued /\ ~p.channel /\ p.pending = NoBody
  /\ ~p.memo /\ ~p.interacted => p.form.body = p.lastBody
PagesOK == \A t \in Tabs : PageOK(page[t]) /\ (page[t].doing = {} => mail[t] = <<>>)

\* A memo that was made is that of an open tab, or is made and the tab will hear
\* of it, or the answer was lost.
Holders == {t \in OpenTabs : page[t].memo \/ \E c \in Saving(t) : c.kind = "create" /\ c.stage = "ok"}
MadeOK == /\ made <= Cardinality(Holders) + lostCreates
          /\ lostCreates > 0 => OpenTabs # {}

Inv == TypeOK /\ ServerOK /\ CallsOK /\ OneSave /\ PagesOK /\ MadeOK /\ AckedDraftIsSnapshot

\* Every form there is has a title that fits.
Fits(f) == f = NoForm \/ TitleFits(f)
TitlesFit ==
  /\ TitleFollowsBody
  /\ \A c \in calls : TitleFits(c.form)
  /\ \A l \in late : TitleFits(l.form)
  /\ Fits(server.form) /\ Fits(server.committed)

-----------------------------------------------------------------------------
\* Forms

\* What the handlers make of a form is a form.
LEMMA FormTypes ==
  ASSUME NEW f \in Forms
  PROVE  /\ TitleSynced(f) \in Forms /\ TitleSynced(f).body = f.body
         /\ BodyInput(f) \in Forms /\ BodyInput(f).body = f.body
         /\ TitleBlur(f) \in Forms /\ TitleBlur(f).body = f.body
         /\ Outgoing(f) \in Forms /\ Outgoing(f).title # Blank
<1>1. Derived[f.body] \in Titles /\ Blank \in Titles /\ Untitled \in Titles
  BY DEF Titles, Forms
<1>2. (f.manual /\ ~IsBlank(f.title)) \in BOOLEAN
  OBVIOUS
<1>3. TitleSynced(f) \in Forms /\ TitleSynced(f).body = f.body
  BY <1>1 DEF TitleSynced, Forms
<1>4. BodyInput(f) \in Forms /\ BodyInput(f).body = f.body
  BY <1>1, <1>2 DEF BodyInput, Forms
<1>5. TitleBlur(f) \in Forms /\ TitleBlur(f).body = f.body
  BY <1>1 DEF TitleBlur, Forms
<1>6. Outgoing(f) \in Forms /\ Outgoing(f).title # Blank
  BY <1>1, TitleAssumption DEF Outgoing, Forms
<1> QED BY <1>3, <1>4, <1>5, <1>6

LEMMA TypedTitle ==
  ASSUME NEW f \in Forms, NEW title \in Titles, NEW tags \in SUBSET Tags
  PROVE  /\ TitleInput(f, title) \in Forms /\ TitleInput(f, title).body = f.body
         /\ Suggested(f, title, tags) \in Forms /\ Suggested(f, title, tags).body = f.body
<1>1. (~IsBlank(title)) \in BOOLEAN /\ (f.manual \/ ~IsBlank(title)) \in BOOLEAN
  OBVIOUS
<1>2. TitleInput(f, title) \in Forms /\ TitleInput(f, title).body = f.body
  BY <1>1 DEF TitleInput, Forms
<1>3. f.tags \cup tags \in SUBSET Tags /\ (IF IsBlank(title) THEN f.title ELSE title) \in Titles
  BY DEF Forms
<1>4. Suggested(f, title, tags) \in Forms /\ Suggested(f, title, tags).body = f.body
  BY <1>1, <1>3 DEF Suggested, Forms
<1> QED BY <1>2, <1>4

\* A form whose fields are replaced is a form.
LEMMA FieldTypes ==
  ASSUME NEW f \in Forms
  PROVE  /\ \A b \in Bodies : [f EXCEPT !.body = b] \in Forms /\ [f EXCEPT !.body = b].body = b
         /\ \A tags \in SUBSET Tags : [f EXCEPT !.tags = tags] \in Forms
                                      /\ [f EXCEPT !.tags = tags].body = f.body
         /\ \A props \in Props : [f EXCEPT !.props = props] \in Forms
                                 /\ [f EXCEPT !.props = props].body = f.body
BY DEF Forms

\* A page opened on a stored or a new memo has saved what it shows, but for the
\* title it fills in, and what it sends of it is what is stored.
LEMMA OpenedType ==
  ASSUME NEW f \in Forms, NEW stored \in BOOLEAN, NEW doing \in SUBSET Ops
  PROVE  LET p == Opened(f, stored, doing)
         IN  /\ p \in Pages /\ PageOK(p) /\ p.memo = stored /\ p.doing = doing
             /\ ~p.creating
             /\ f.title # Blank => Outgoing(p.lastSnap) = f
<1> DEFINE shown == [f EXCEPT !.title = IF @ = Untitled THEN Blank ELSE @]
           form == IF stored THEN TitleSynced(shown) ELSE shown
<1>1. shown \in Forms /\ shown.body = f.body
  <2>1. (IF f.title = Untitled THEN Blank ELSE f.title) \in Titles
    BY DEF Titles, Forms
  <2> QED BY <2>1 DEF Forms
<1>2. form \in Forms /\ form.body = f.body
  BY <1>1, FormTypes
<1>3. (stored /\ doing # {}) \in BOOLEAN /\ (stored /\ doing # {} /\ SavesFilledTitle(shown)) \in BOOLEAN
  OBVIOUS
<1>4. Opened(f, stored, doing) =
        [form |-> form, memo |-> stored, creating |-> FALSE, interacted |-> FALSE,
         channel |-> stored /\ doing # {}, lastBody |-> f.body, lastSnap |-> shown,
         pending |-> NoBody, timer |-> stored /\ doing # {} /\ SavesFilledTitle(shown),
         queued |-> FALSE, passed |-> FALSE, doing |-> doing]
  BY DEF Opened
<1>5. f.title # Blank => Outgoing(shown) = f
  <2> SUFFICES ASSUME f.title # Blank PROVE Outgoing(shown) = f
    OBVIOUS
  <2>1. CASE f.title = Untitled
    BY <2>1, TitleAssumption DEF Outgoing, Forms
  <2>2. CASE f.title # Untitled
    BY <2>2 DEF Outgoing, Forms
  <2> QED BY <2>1, <2>2
<1>6. f.body \in Bodies
  BY DEF Forms
<1> HIDE DEF shown, form
<1>7. Opened(f, stored, doing) \in Pages
  BY <1>1, <1>2, <1>3, <1>4, <1>6 DEF Pages
<1>8. PageOK(Opened(f, stored, doing))
  <2> DEFINE p == Opened(f, stored, doing)
  <2>1. p.form.body = p.lastBody /\ ~p.queued /\ p.pending = NoBody /\ p.doing = doing
    BY <1>2, <1>4
  <2>2. /\ p.timer = (stored /\ doing # {} /\ SavesFilledTitle(shown))
        /\ p.channel = (stored /\ doing # {})
    BY <1>4
  <2>3. doing = {} => ~p.timer /\ ~p.channel
    BY <2>2
  <2> QED BY <2>1, <2>3 DEF PageOK
<1> QED BY <1>4, <1>5, <1>7, <1>8

LEMMA NewFormType == NewForm \in Forms /\ NewForm.body = EmptyBody
BY DefaultsAssumption DEF NewForm, Forms, Titles

-----------------------------------------------------------------------------
\* Steps that leave the requests alone

\* The invariant but for types and pages, for steps that change forms and timers only.
LEMMA RestKept ==
  ASSUME Inv, UNCHANGED <<calls, server, made, lostCreates>>,
         \A t \in Tabs : /\ page'[t].memo = page[t].memo /\ page'[t].creating = page[t].creating
                         /\ page'[t].doing = page[t].doing /\ page'[t].lastSnap = page[t].lastSnap
  PROVE  ServerOK' /\ CallsOK' /\ OneSave' /\ MadeOK' /\ AckedDraftIsSnapshot'
<1>1. server.by \in Tabs /\ \A c \in calls : c.tab \in Tabs
  BY DEF Inv, TypeOK, Calls
<1>2. ServerOK' /\ CallsOK'
  BY <1>1 DEF Inv, ServerOK, CallsOK, CallOK
<1>3. OneSave' /\ AckedDraftIsSnapshot'
  BY DEF Inv, OneSave, Saving, AckedDraftIsSnapshot
<1>4. OpenTabs' = OpenTabs /\ Holders' = Holders
  BY DEF Holders, OpenTabs, Saving
<1>5. MadeOK'
  BY <1>4 DEF Inv, MadeOK
<1> QED BY <1>2, <1>3, <1>5

\* One page changes its form and its timers.
LEMMA LocalStep ==
  ASSUME Inv, NEW t \in Tabs, NEW q \in Pages, page' = [page EXCEPT ![t] = q],
         q.memo = page[t].memo, q.creating = page[t].creating, q.doing = page[t].doing,
         q.lastSnap = page[t].lastSnap, PageOK(q),
         UNCHANGED <<calls, late, server, made, lostCreates, faults, started>>,
         edits' \in Nat, mail' \in [Tabs -> Seq(Bodies)],
         \A u \in Tabs : page[u].doing = {} => mail'[u] = <<>>
  PROVE  Inv'
<1>1. page \in [Tabs -> Pages]
  BY DEF Inv, TypeOK
<1>2. \A u \in Tabs : page'[u] = IF u = t THEN q ELSE page[u]
  BY <1>1
<1>3. TypeOK'
  BY <1>1 DEF Inv, TypeOK
<1>4. ServerOK' /\ CallsOK' /\ OneSave' /\ MadeOK' /\ AckedDraftIsSnapshot'
  BY <1>2, RestKept
<1>5. PagesOK'
  BY <1>2 DEF Inv, PagesOK
<1> QED BY <1>3, <1>4, <1>5 DEF Inv

\* The mail of tabs that are not open is empty.
LEMMA MailKept == Inv => /\ mail \in [Tabs -> Seq(Bodies)] /\ page \in [Tabs -> Pages] /\ edits \in Nat
                         /\ \A u \in Tabs : page[u].doing = {} => mail[u] = <<>>
                         /\ \A u \in Tabs : PageOK(page[u])
BY DEF Inv, TypeOK, PagesOK

\* An edit in an open tab.
LEMMA EditKeeps ==
  ASSUME Inv, NEW t \in Tabs, page[t].doing # {}, NEW form \in Forms, NEW typed \in BOOLEAN,
         form.body # page[t].form.body => typed,
         Edits(t, form, typed)
  PROVE  Inv'
<1> DEFINE q == [page[t] EXCEPT !.form = form, !.timer = TRUE, !.interacted = @ \/ typed]
<1>1. page[t] \in Pages /\ PageOK(page[t])
  BY MailKept
<1>2. (page[t].interacted \/ typed) \in BOOLEAN
  OBVIOUS
<1>3. q \in Pages /\ q.memo = page[t].memo /\ q.creating = page[t].creating
      /\ q.doing = page[t].doing /\ q.lastSnap = page[t].lastSnap
  BY <1>1, <1>2 DEF Pages
<1>4. PageOK(q)
  BY <1>1 DEF PageOK, Pages
<1>5. page' = [page EXCEPT ![t] = q]
  BY MailKept DEF Edits
<1>6. UNCHANGED <<calls, mail, late, server, made, lostCreates, faults, started>> /\ edits' \in Nat
  BY MailKept DEF Edits
<1> HIDE DEF q
<1> QED BY <1>3, <1>4, <1>5, <1>6, MailKept, LocalStep

\* The body of a remote save goes into the form.
LEMMA RemoteBody ==
  ASSUME NEW p \in Pages, NEW b \in Bodies, PageOK(p), p.doing # {}, NEW pending \in {NoBody, p.pending}
  PROVE  LET q == [p EXCEPT !.form = BodyInput([p.form EXCEPT !.body = b]), !.lastBody = b,
                            !.pending = pending, !.interacted = TRUE, !.timer = TRUE]
         IN  /\ q \in Pages /\ PageOK(q) /\ q.memo = p.memo /\ q.creating = p.creating
             /\ q.doing = p.doing /\ q.lastSnap = p.lastSnap
<1>1. BodyInput([p.form EXCEPT !.body = b]) \in Forms
  BY FieldTypes, FormTypes DEF Pages
<1>2. pending \in Bodies \cup {NoBody}
  BY DEF Pages
<1> QED BY <1>1, <1>2 DEF Pages, PageOK

LEMMA UserKeeps ==
  ASSUME Inv, NEW t \in Tabs, User(t), ~Commit(t), ~Discard(t) PROVE Inv'
<1> DEFINE p == page[t]
<1>1. page \in [Tabs -> Pages] /\ p \in Pages /\ p.form \in Forms /\ PageOK(p)
  BY MailKept DEF Pages
<1>2. Custom \cup {Blank} \subseteq Titles
  BY DEF Titles
<1>3. ASSUME NEW b \in Bodies, TypeBody(t, b) PROVE Inv'
  <2>1. BodyInput([p.form EXCEPT !.body = b]) \in Forms
    BY <1>1, FieldTypes, FormTypes
  <2> QED BY <1>3, <2>1, EditKeeps DEF TypeBody
<1>4. ASSUME NEW title \in Custom \cup {Blank}, TypeTitle(t, title) PROVE Inv'
  <2>1. TitleInput(p.form, title) \in Forms
    BY <1>1, <1>2, TypedTitle
  <2> QED BY <1>4, <2>1, EditKeeps DEF TypeTitle
<1>5. CASE LeaveTitle(t)
  <2>1. TitleBlur(p.form) \in Forms /\ TitleBlur(p.form).body = p.form.body
    BY <1>1, FormTypes
  <2> QED BY <1>5, <2>1, EditKeeps DEF LeaveTitle
<1>6. ASSUME NEW tags \in SUBSET Tags, EditTags(t, tags) PROVE Inv'
  BY <1>1, <1>6, FieldTypes, EditKeeps DEF EditTags
<1>7. ASSUME NEW props \in Props, EditProperties(t, props) PROVE Inv'
  BY <1>1, <1>7, FieldTypes, EditKeeps DEF EditProperties
<1>8. ASSUME NEW title \in Custom \cup {Blank}, NEW tags \in SUBSET Tags, ApplySuggestion(t, title, tags)
      PROVE  Inv'
  <2>1. Suggested(p.form, title, tags) \in Forms
    BY <1>1, <1>2, TypedTitle
  <2> QED BY <1>8, <2>1, EditKeeps DEF ApplySuggestion
<1>9. CASE ApplyRemoteDraft(t)
  <2> DEFINE b == p.pending
             q == [p EXCEPT !.form = BodyInput([p.form EXCEPT !.body = b]), !.lastBody = b,
                            !.pending = NoBody, !.interacted = TRUE, !.timer = TRUE]
  <2>1. b \in Bodies /\ p.doing # {}
    BY <1>1, <1>9 DEF ApplyRemoteDraft, PageOK, Pages
  <2>2. /\ q \in Pages /\ PageOK(q) /\ q.memo = p.memo /\ q.creating = p.creating
        /\ q.doing = p.doing /\ q.lastSnap = p.lastSnap
    BY <1>1, <2>1, RemoteBody
  <2>3. page' = [page EXCEPT ![t] = q]
    BY <1>1, <1>9 DEF ApplyRemoteDraft
  <2>4. UNCHANGED <<calls, mail, late, server, made, lostCreates, edits, faults, started>>
    BY <1>9 DEF ApplyRemoteDraft
  <2> HIDE DEF q
  <2> QED BY <2>2, <2>3, <2>4, MailKept, LocalStep
<1>10. CASE TurboRender(t)
  <2> DEFINE q == [p EXCEPT !.form = NewForm, !.lastBody = EmptyBody]
  <2>1. /\ q \in Pages /\ PageOK(q) /\ q.memo = p.memo /\ q.creating = p.creating
        /\ q.doing = p.doing /\ q.lastSnap = p.lastSnap
    BY <1>1, NewFormType, DefaultsAssumption DEF Pages, PageOK
  <2>2. page' = [page EXCEPT ![t] = q]
    BY <1>1, <1>10 DEF TurboRender
  <2>3. UNCHANGED <<calls, mail, late, server, made, lostCreates, edits, faults, started>>
    BY <1>10 DEF TurboRender
  <2> HIDE DEF q
  <2> QED BY <2>1, <2>2, <2>3, MailKept, LocalStep
<1> QED BY <1>3, <1>4, <1>5, <1>6, <1>7, <1>8, <1>9, <1>10 DEF User

LEMMA TimerFiresKeeps == ASSUME Inv, NEW t \in Tabs, TimerFires(t) PROVE Inv'
<1> DEFINE p == page[t]
           q == [p EXCEPT !.timer = FALSE, !.queued = TRUE]
<1>1. page \in [Tabs -> Pages] /\ p \in Pages /\ PageOK(p)
  BY MailKept
<1>2. /\ q \in Pages /\ PageOK(q) /\ q.memo = p.memo /\ q.creating = p.creating
      /\ q.doing = p.doing /\ q.lastSnap = p.lastSnap
  BY <1>1 DEF Pages, PageOK, TimerFires
<1>3. page' = [page EXCEPT ![t] = q]
  BY <1>1 DEF TimerFires
<1>4. UNCHANGED <<calls, mail, late, server, made, lostCreates, edits, faults, started>>
  BY DEF TimerFires
<1> HIDE DEF q
<1> QED BY <1>2, <1>3, <1>4, MailKept, LocalStep

LEMMA RemoteDraftKeeps == ASSUME Inv, NEW t \in Tabs, RemoteDraft(t) PROVE Inv'
<1> DEFINE p == page[t]
           b == Head(mail[t])
           received == [p EXCEPT !.form = BodyInput([p.form EXCEPT !.body = b]), !.lastBody = b,
                                 !.pending = p.pending, !.interacted = TRUE, !.timer = TRUE]
           behind == [p EXCEPT !.pending = b]
           q == IF Dirty(p) THEN behind ELSE received
<1>1. page \in [Tabs -> Pages] /\ p \in Pages /\ PageOK(p)
  BY MailKept
<1>2. mail[t] \in Seq(Bodies) /\ mail[t] # <<>> /\ p.doing # {}
  BY MailKept DEF RemoteDraft
<1>3. b \in Bodies /\ Tail(mail[t]) \in Seq(Bodies)
  BY <1>2
<1>4. /\ received \in Pages /\ PageOK(received) /\ received.memo = p.memo
      /\ received.creating = p.creating /\ received.doing = p.doing /\ received.lastSnap = p.lastSnap
  BY <1>1, <1>2, <1>3, RemoteBody
<1>5. /\ behind \in Pages /\ PageOK(behind) /\ behind.memo = p.memo
      /\ behind.creating = p.creating /\ behind.doing = p.doing /\ behind.lastSnap = p.lastSnap
  BY <1>1, <1>2, <1>3 DEF Pages, PageOK
<1>6. page' = [page EXCEPT ![t] = q]
  <2>1. received = [p EXCEPT !.form = BodyInput([p.form EXCEPT !.body = b]), !.lastBody = b,
                             !.interacted = TRUE, !.timer = TRUE]
    BY <1>1 DEF Pages
  <2>2. CASE Dirty(p)
    BY <1>1, <2>2 DEF RemoteDraft
  <2>3. CASE ~Dirty(p)
    BY <1>1, <2>1, <2>3 DEF RemoteDraft
  <2> QED BY <2>2, <2>3
<1>7. /\ mail' \in [Tabs -> Seq(Bodies)]
      /\ \A u \in Tabs : page[u].doing = {} => mail'[u] = <<>>
  BY <1>2, <1>3, MailKept DEF RemoteDraft
<1>8. UNCHANGED <<calls, late, server, made, lostCreates, edits, faults, started>>
  BY DEF RemoteDraft
<1> HIDE DEF received, behind
<1> QED BY <1>4, <1>5, <1>6, <1>7, <1>8, MailKept, LocalStep

-----------------------------------------------------------------------------
\* Requests go out

\* A request that is sent: the pages keep what the invariant says of them, but
\* for the mark that a memo is being made.
LEMMA NewCall ==
  ASSUME Inv, NEW c \in Calls, c.stage = "sent", calls' = calls \cup {c},
         UNCHANGED <<server, made, lostCreates>>,
         \A t \in Tabs : /\ page'[t].memo = page[t].memo /\ page'[t].doing = page[t].doing
                         /\ page'[t].lastSnap = page[t].lastSnap
                         /\ page[t].creating => page'[t].creating,
         c.kind \in {"patch", "create"} => Saving(c.tab) = {},
         c.kind = "discard" => server.committed # NoForm,
         c.kind \in {"patch", "discard"} => page[c.tab].memo,
         c.kind = "create" => ~page[c.tab].memo /\ page'[c.tab].creating /\ page[c.tab].doing # {}
  PROVE  ServerOK' /\ CallsOK' /\ OneSave' /\ MadeOK' /\ AckedDraftIsSnapshot' /\ calls' \subseteq Calls
<1>1. server.by \in Tabs /\ c.tab \in Tabs /\ calls \subseteq Calls /\ \A d \in calls : d.tab \in Tabs
  BY DEF Inv, TypeOK, Calls
<1>2. ServerOK'
  BY <1>1 DEF Inv, ServerOK
<1>3. CallsOK'
  BY <1>1 DEF Inv, CallsOK, CallOK
<1>4. OneSave'
  BY DEF Inv, OneSave, Saving
<1>5. AckedDraftIsSnapshot'
  BY DEF Inv, AckedDraftIsSnapshot
<1>6. OpenTabs' = OpenTabs
  BY DEF OpenTabs
<1>7. Holders' = Holders
  BY <1>6 DEF Holders, Saving, OpenTabs
<1>8. MadeOK'
  BY <1>6, <1>7 DEF Inv, MadeOK
<1> QED BY <1>1, <1>2, <1>3, <1>4, <1>5, <1>8

LEMMA SaveKeeps == ASSUME Inv, NEW t \in Tabs, Save(t) PROVE Inv'
<1> DEFINE p == page[t]
           q == [p EXCEPT !.queued = FALSE, !.creating = @ \/ (Sends(p) /\ ~p.memo),
                          !.passed = @ /\ ~Sends(p)]
           c == [tab |-> t, kind |-> IF p.memo THEN "patch" ELSE "create",
                 form |-> p.form, stage |-> "sent"]
<1>1. page \in [Tabs -> Pages] /\ p \in Pages /\ PageOK(p) /\ p.queued /\ p.doing # {}
  BY MailKept DEF Save, PageOK
<1>2. (p.creating \/ (Sends(p) /\ ~p.memo)) \in BOOLEAN /\ (p.passed /\ ~Sends(p)) \in BOOLEAN
  OBVIOUS
<1>3. /\ q \in Pages /\ PageOK(q) /\ q.memo = p.memo /\ q.doing = p.doing /\ q.lastSnap = p.lastSnap
      /\ q.creating = (p.creating \/ (Sends(p) /\ ~p.memo))
  BY <1>1, <1>2 DEF Pages, PageOK
<1>4. page' = [page EXCEPT ![t] = q]
  BY <1>1 DEF Save
<1>5. UNCHANGED <<mail, late, server, made, lostCreates, edits, faults, started>>
  BY DEF Save
<1>6. CASE ~Sends(p)
  <2>1. calls' = calls
    BY <1>6 DEF Save
  <2>2. q.creating = p.creating
    BY <1>1, <1>3, <1>6 DEF Pages
  <2> HIDE DEF q
  <2> QED BY <1>3, <1>4, <1>5, <2>1, <2>2, MailKept, LocalStep
<1>7. CASE Sends(p)
  <2>1. calls' = calls \cup {c} /\ Saving(t) = {}
    BY <1>7 DEF Save, ChainBusy
  <2>2. c \in Calls /\ c.tab = t /\ c.stage = "sent" /\ c.kind = IF p.memo THEN "patch" ELSE "create"
    BY <1>1 DEF Calls, Kinds, Pages
  <2>3. ~p.memo => q.creating
    BY <1>3, <1>7
  <2>4. p.creating => q.creating
    BY <1>3
  <2>5. \A u \in Tabs : page'[u] = IF u = t THEN q ELSE page[u]
    BY <1>1, <1>4
  <2> HIDE DEF q, c
  <2>6. ServerOK' /\ CallsOK' /\ OneSave' /\ MadeOK' /\ AckedDraftIsSnapshot' /\ calls' \subseteq Calls
    BY <1>1, <1>3, <1>5, <2>1, <2>2, <2>3, <2>4, <2>5, NewCall
  <2>7. TypeOK'
    BY <1>1, <1>3, <1>4, <1>5, <2>6 DEF Inv, TypeOK
  <2>8. PagesOK'
    BY <1>3, <1>5, <2>5 DEF Inv, PagesOK
  <2> QED BY <2>6, <2>7, <2>8 DEF Inv
<1> QED BY <1>6, <1>7

\* A request that waits for no save and changes no page.
LEMMA SentKeeps ==
  ASSUME Inv, NEW c \in Calls, c.stage = "sent", c.kind \in {"commit", "discard", "late"},
         c.kind = "discard" => server.committed # NoForm /\ page[c.tab].memo,
         calls' = calls \cup {c}, late' \subseteq late, started' \in Nat,
         UNCHANGED <<page, mail, server, made, lostCreates, edits, faults>>
  PROVE  Inv'
<1>1. ServerOK' /\ CallsOK' /\ OneSave' /\ MadeOK' /\ AckedDraftIsSnapshot' /\ calls' \subseteq Calls
  BY NewCall
<1>2. TypeOK' /\ PagesOK'
  BY <1>1 DEF Inv, TypeOK, PagesOK
<1> QED BY <1>1, <1>2 DEF Inv

LEMMA CommitKeeps == ASSUME Inv, NEW t \in Tabs, Commit(t) PROVE Inv'
<1>1. page[t].form \in Forms /\ started \in Nat
  BY MailKept DEF Pages, Inv, TypeOK
<1>2. [tab |-> t, kind |-> "commit", form |-> page[t].form, stage |-> "sent"] \in Calls
  BY <1>1 DEF Calls, Kinds
<1> QED BY <1>1, <1>2, SentKeeps DEF Commit

LEMMA DiscardKeeps == ASSUME Inv, NEW t \in Tabs, Discard(t) PROVE Inv'
<1>1. page[t].form \in Forms /\ started \in Nat
  BY MailKept DEF Pages, Inv, TypeOK
<1>2. [tab |-> t, kind |-> "discard", form |-> page[t].form, stage |-> "sent"] \in Calls
  BY <1>1 DEF Calls, Kinds
<1> QED BY <1>1, <1>2, SentKeeps DEF Discard

LEMMA LateSaveKeeps == ASSUME Inv, NEW l \in late, LateSave(l) PROVE Inv'
<1>1. [tab |-> l.tab, kind |-> "late", form |-> l.form, stage |-> "sent"] \in Calls /\ started \in Nat
  BY DEF Calls, Kinds, Inv, TypeOK
<1> QED BY <1>1, SentKeeps DEF LateSave

-----------------------------------------------------------------------------
\* What becomes of a request

\* Sets of tabs are finite, and counted.
LEMMA Counted ==
  ASSUME NEW S \in SUBSET Tabs, NEW T \in SUBSET Tabs
  PROVE  /\ Cardinality(S) \in Nat /\ Cardinality(T) \in Nat
         /\ S \subseteq T => Cardinality(S) <= Cardinality(T)
         /\ \A x : S \subseteq T \cup {x} => Cardinality(S) <= Cardinality(T) + 1
         /\ \A x \in T \ S : S \subseteq T => Cardinality(S) + 1 <= Cardinality(T)
<1>1. IsFiniteSet(S) /\ IsFiniteSet(T)
  BY TabsAssumption, FS_Subset
<1>2. Cardinality(S) \in Nat /\ Cardinality(T) \in Nat
  BY <1>1, FS_CardinalityType
<1>3. S \subseteq T => Cardinality(S) <= Cardinality(T)
  BY <1>1, FS_Subset
<1>4. ASSUME NEW x, S \subseteq T \cup {x} PROVE Cardinality(S) <= Cardinality(T) + 1
  <2>1. /\ IsFiniteSet(T \cup {x})
        /\ Cardinality(T \cup {x}) = IF x \in T THEN Cardinality(T) ELSE Cardinality(T) + 1
    BY <1>1, FS_AddElement
  <2>2. Cardinality(S) <= Cardinality(T \cup {x})
    BY <1>4, <2>1, FS_Subset
  <2> QED BY <1>2, <2>1, <2>2
<1>5. ASSUME NEW x \in T \ S, S \subseteq T PROVE Cardinality(S) + 1 <= Cardinality(T)
  <2>1. IsFiniteSet(S \cup {x}) /\ Cardinality(S \cup {x}) = Cardinality(S) + 1
    BY <1>1, <1>5, FS_AddElement
  <2>2. Cardinality(S \cup {x}) <= Cardinality(T)
    BY <1>1, <1>5, FS_Subset
  <2> QED BY <2>1, <2>2
<1> QED BY <1>2, <1>3, <1>4, <1>5

LEMMA HoldersCounted ==
  Inv => Holders \in SUBSET Tabs /\ made \in Nat /\ lostCreates \in Nat
BY DEF Inv, TypeOK, Holders, OpenTabs

\* One request is replaced by what became of it: tabs still wait for one save.
LEMMA Answered ==
  ASSUME Inv, NEW c \in calls, NEW stage \in {"ok", "refused", "lost"}, Answer(c, stage),
         UNCHANGED <<page, mail, late>>
  PROVE  LET d == [c EXCEPT !.stage = stage]
         IN  /\ calls' = (calls \ {c}) \cup {d} /\ d \in Calls
             /\ d.tab = c.tab /\ d.kind = c.kind /\ d.form = c.form /\ d.stage = stage
             /\ calls' \subseteq Calls /\ OneSave' /\ PagesOK' /\ OpenTabs' = OpenTabs
<1> DEFINE d == [c EXCEPT !.stage = stage]
<1>1. c \in Calls
  BY DEF Inv, TypeOK
<1>2. d \in Calls /\ d.tab = c.tab /\ d.kind = c.kind /\ d.form = c.form /\ d.stage = stage
  BY <1>1 DEF Calls
<1>3. calls' = (calls \ {c}) \cup {d}
  BY DEF Answer
<1> HIDE DEF d
<1>4. calls' \subseteq Calls
  BY <1>2, <1>3 DEF Inv, TypeOK
<1>5. OneSave'
  BY <1>2, <1>3 DEF Inv, OneSave, Saving
<1>6. PagesOK' /\ OpenTabs' = OpenTabs
  BY DEF Inv, PagesOK, OpenTabs
<1> QED BY <1>2, <1>3, <1>4, <1>5, <1>6 DEF d

LEMMA ServerAppliesKeeps == ASSUME Inv, NEW c \in calls, ServerApplies(c) PROVE Inv'
<1> DEFINE d == [c EXCEPT !.stage = "ok"]
<1>1. /\ calls' = (calls \ {c}) \cup {d} /\ d \in Calls
      /\ d.tab = c.tab /\ d.kind = c.kind /\ d.form = c.form /\ d.stage = "ok"
      /\ calls' \subseteq Calls /\ OneSave' /\ PagesOK' /\ OpenTabs' = OpenTabs
  BY Answered DEF ServerApplies
<1>2. /\ c \in Calls /\ c.stage = "sent" /\ c.tab \in Tabs /\ c.kind \in Kinds /\ CallOK(c)
      /\ Outgoing(c.form) \in Forms /\ Outgoing(c.form).title # Blank /\ Outgoing(c.form) # NoForm
  BY FormTypes, NothingAssumption DEF ServerApplies, Inv, TypeOK, Calls, CallsOK
<1>3. UNCHANGED <<page, mail, late, lostCreates, edits, faults, started>>
  BY DEF ServerApplies
<1> HIDE DEF d
<1>4. /\ server' \in [form : Forms \cup {NoForm}, committed : Forms \cup {NoForm},
                      by : Tabs, via : Kinds \cup {"none"}, acked : BOOLEAN]
      /\ server'.form = (IF c.kind = "discard" THEN server.committed ELSE Outgoing(c.form))
      /\ server'.committed = (IF c.kind = "commit" THEN Outgoing(c.form) ELSE server.committed)
      /\ server'.by = c.tab /\ server'.via = c.kind /\ ~server'.acked
  BY <1>2 DEF ServerApplies, Inv, TypeOK
<1>5. made' = made + (IF c.kind = "create" THEN 1 ELSE 0) /\ made' \in Nat
  BY HoldersCounted DEF ServerApplies
<1>6. TypeOK'
  BY <1>1, <1>3, <1>4, <1>5 DEF Inv, TypeOK
<1>7. ServerOK'
  BY <1>2, <1>3, <1>4 DEF CallOK, ServerOK, Inv
<1>8. CallsOK'
  <2> SUFFICES ASSUME NEW e \in calls' PROVE CallOK(e)'
    BY DEF CallsOK
  <2>1. server.committed # NoForm => server'.committed # NoForm
    BY <1>2, <1>4
  <2>2. CASE e = d
    BY <1>1, <1>2, <1>3, <1>4, <2>1, <2>2 DEF CallOK
  <2>3. CASE e \in calls /\ e # c
    <3>1. CallOK(e)
      BY <2>3 DEF Inv, CallsOK
    <3>2. ~(e.kind = "patch" /\ c.kind = "patch" /\ e.tab = c.tab)
      BY <1>2, <2>3 DEF Inv, OneSave, Saving
    <3> QED BY <1>3, <1>4, <2>1, <3>1, <3>2 DEF CallOK
  <2> QED BY <1>1, <2>2, <2>3
<1>9. AckedDraftIsSnapshot'
  BY <1>4 DEF AckedDraftIsSnapshot
<1>10. MadeOK'
  <2>1. Holders' \in SUBSET Tabs /\ Holders \in SUBSET Tabs
    BY DEF Holders, OpenTabs
  <2>2. Holders \subseteq Holders'
    BY <1>1, <1>2, <1>3 DEF Holders, Saving
  <2>3. CASE c.kind = "create"
    <3>1. c.tab \in Holders' \ Holders
      <4>1. c.tab \in OpenTabs /\ ~page[c.tab].memo
        BY <1>2, <2>3 DEF CallOK, OpenTabs
      <4>2. c.tab \notin Holders
        BY <1>2, <2>3, <4>1 DEF Holders, Inv, OneSave, Saving
      <4>3. d \in Saving(c.tab)'
        BY <1>1, <2>3 DEF Saving
      <4>4. c.tab \in Holders'
        BY <1>1, <1>3, <2>3, <4>1, <4>3 DEF Holders
      <4> QED BY <4>2, <4>4
    <3>2. Cardinality(Holders) + 1 <= Cardinality(Holders')
      BY <2>1, <2>2, <3>1, Counted
    <3>3. Cardinality(Holders) \in Nat /\ Cardinality(Holders') \in Nat
      BY <2>1, Counted
    <3> QED BY <1>1, <1>3, <1>5, <2>3, <3>2, <3>3, HoldersCounted DEF Inv, MadeOK
  <2>4. CASE c.kind # "create"
    <3>1. Cardinality(Holders) <= Cardinality(Holders')
          /\ Cardinality(Holders) \in Nat /\ Cardinality(Holders') \in Nat
      BY <2>1, <2>2, Counted
    <3> QED BY <1>1, <1>3, <1>5, <2>4, <3>1, HoldersCounted DEF Inv, MadeOK
  <2> QED BY <2>3, <2>4
<1> QED BY <1>1, <1>6, <1>7, <1>8, <1>9, <1>10 DEF Inv

\* A request fails, or its answer is lost: a memo that was made may be one that
\* no page will hear of.
LEMMA FailsKeeps ==
  ASSUME Inv, NEW c \in calls, NEW stage \in {"refused", "lost"}, Answer(c, stage),
         UNCHANGED <<page, mail, late, server, made, edits, started>>, faults' \in Nat,
         lostCreates' = lostCreates + (IF c.kind = "create" /\ c.stage = "ok" THEN 1 ELSE 0)
  PROVE  Inv'
<1> DEFINE d == [c EXCEPT !.stage = stage]
<1>0. stage \in {"ok", "refused", "lost"}
  OBVIOUS
<1>1. /\ calls' = (calls \ {c}) \cup {d} /\ d \in Calls
      /\ d.tab = c.tab /\ d.kind = c.kind /\ d.form = c.form /\ d.stage = stage
      /\ calls' \subseteq Calls /\ OneSave' /\ PagesOK' /\ OpenTabs' = OpenTabs
  BY <1>0, Answered
<1> HIDE DEF d
<1>2. lostCreates' \in Nat /\ c \in Calls /\ c.tab \in Tabs /\ CallOK(c)
  BY DEF Inv, TypeOK, CallsOK, Calls
<1>3. TypeOK'
  BY <1>1, <1>2 DEF Inv, TypeOK
<1>4. ServerOK' /\ AckedDraftIsSnapshot'
  BY DEF Inv, ServerOK, AckedDraftIsSnapshot
<1>5. CallsOK'
  BY <1>1 DEF Inv, CallsOK, CallOK
<1>6. MadeOK'
  <2>1. /\ Holders \subseteq Holders' \cup {c.tab}
        /\ ~(c.kind = "create" /\ c.stage = "ok") => Holders \subseteq Holders'
    BY <1>1 DEF Holders, Saving
  <2>2. Holders' \in SUBSET Tabs /\ Holders \in SUBSET Tabs
    BY DEF Holders, OpenTabs
  <2>3. /\ Cardinality(Holders) <= Cardinality(Holders') + 1
        /\ ~(c.kind = "create" /\ c.stage = "ok") => Cardinality(Holders) <= Cardinality(Holders')
        /\ Cardinality(Holders) \in Nat /\ Cardinality(Holders') \in Nat
    BY <2>1, <2>2, Counted
  <2>4. lostCreates' > 0 => OpenTabs' # {}
    BY <1>1, <1>2, HoldersCounted DEF Inv, MadeOK, CallOK, OpenTabs
  <2> QED BY <2>3, <2>4, HoldersCounted DEF Inv, MadeOK
<1> QED BY <1>1, <1>3, <1>4, <1>5, <1>6 DEF Inv

LEMMA ServerRefusesKeeps == ASSUME Inv, NEW c \in calls, ServerRefuses(c) PROVE Inv'
<1>1. faults' \in Nat /\ lostCreates' = lostCreates + 0 /\ c.stage # "ok"
  BY HoldersCounted DEF ServerRefuses, Inv, TypeOK
<1>2. Answer(c, "refused") /\ UNCHANGED <<page, mail, late, server, made, edits, started>>
  BY DEF ServerRefuses
<1> QED BY <1>1, <1>2, FailsKeeps

LEMMA NetworkFailsKeeps == ASSUME Inv, NEW c \in calls, NetworkFails(c) PROVE Inv'
<1>1. faults' \in Nat
  BY DEF NetworkFails, Inv, TypeOK
<1> QED BY <1>1, FailsKeeps DEF NetworkFails

-----------------------------------------------------------------------------
\* Answers

\* A request is gone: tabs still wait for one save.
LEMMA Removed ==
  ASSUME Inv, NEW c \in calls, calls' = calls \ {c}
  PROVE  calls' \subseteq Calls /\ OneSave' /\ c \in Calls /\ c.tab \in Tabs /\ CallOK(c)
BY DEF Inv, TypeOK, OneSave, Saving, Calls, CallsOK

LEMMA DraftSavedKeeps == ASSUME Inv, NEW c \in calls, DraftSaved(c) PROVE Inv'
<1> DEFINE q == [page[c.tab] EXCEPT !.lastBody = c.form.body, !.lastSnap = c.form]
<1>1. /\ calls' = calls \ {c} /\ c.kind = "patch" /\ c.stage = "ok"
      /\ UNCHANGED <<late, made, lostCreates, edits, faults, started>>
  BY DEF DraftSaved
<1>2. calls' \subseteq Calls /\ OneSave' /\ c \in Calls /\ c.tab \in Tabs /\ CallOK(c)
  BY <1>1, Removed
<1>3. c.form \in Forms /\ c.form.body \in Bodies
  BY <1>2 DEF Calls, Forms
<1>4. page[c.tab] \in Pages /\ page[c.tab].memo /\ PageOK(page[c.tab])
  BY <1>1, <1>2, MailKept DEF CallOK
<1>5. /\ q \in Pages /\ PageOK(q) /\ q.memo = page[c.tab].memo /\ q.doing = page[c.tab].doing
      /\ q.creating = page[c.tab].creating /\ q.lastSnap = c.form
  BY <1>3, <1>4 DEF Pages, PageOK
<1>6. page' = [page EXCEPT ![c.tab] = q]
  BY MailKept DEF DraftSaved, SavedSnapshot
<1> HIDE DEF q
<1>7. \A u \in Tabs : page'[u] = IF u = c.tab THEN q ELSE page[u]
  BY <1>6, MailKept
<1>8. /\ server' \in [form : Forms \cup {NoForm}, committed : Forms \cup {NoForm},
                      by : Tabs, via : Kinds \cup {"none"}, acked : BOOLEAN]
      /\ server'.form = server.form /\ server'.committed = server.committed
      /\ server'.by = server.by /\ server'.via = server.via
      /\ server'.acked = (server.acked \/ (server.by = c.tab /\ server.via = c.kind))
  <2>1. (server.acked \/ (server.by = c.tab /\ server.via = c.kind)) \in BOOLEAN
    OBVIOUS
  <2> QED BY <2>1 DEF DraftSaved, Acked, Inv, TypeOK
<1>9. /\ mail' \in [Tabs -> Seq(Bodies)]
      /\ \A u \in Tabs : page[u].doing = {} => mail'[u] = <<>>
  <2>1. \A u \in Tabs : Append(mail[u], c.form.body) \in Seq(Bodies)
    BY <1>3, MailKept
  <2>2. \A u \in Tabs : page[u].doing = {} => ~page[u].channel
    BY MailKept DEF PageOK
  <2> QED BY <2>1, <2>2, MailKept DEF DraftSaved, Broadcast
<1>10. TypeOK'
  BY <1>1, <1>2, <1>5, <1>6, <1>8, <1>9 DEF Inv, TypeOK
<1>11. ServerOK' /\ CallsOK'
  <2>1. server.by \in Tabs /\ \A d \in calls : d.tab \in Tabs
    BY DEF Inv, TypeOK, Calls
  <2> QED BY <1>1, <1>5, <1>7, <1>8, <2>1 DEF Inv, ServerOK, CallsOK, CallOK
<1>12. PagesOK'
  BY <1>5, <1>7, <1>9 DEF Inv, PagesOK
<1>13. Holders' = Holders /\ OpenTabs' = OpenTabs
  <2>1. OpenTabs' = OpenTabs
    BY <1>5, <1>7 DEF OpenTabs
  <2>2. \A t \in Tabs : page'[t].memo = page[t].memo
    BY <1>5, <1>7
  <2> QED BY <1>1, <2>1, <2>2 DEF Holders, Saving, OpenTabs
<1>14. MadeOK'
  BY <1>1, <1>13 DEF Inv, MadeOK
<1>15. AckedDraftIsSnapshot'
  <2> SUFFICES ASSUME NEW t \in Tabs, server'.by = t, server'.via = "patch", server'.acked
               PROVE  Outgoing(page'[t].lastSnap) = server'.form
    BY DEF AckedDraftIsSnapshot
  <2>1. CASE t = c.tab
    BY <1>1, <1>2, <1>5, <1>7, <1>8, <2>1 DEF CallOK
  <2>2. CASE t # c.tab
    BY <1>7, <1>8, <2>2 DEF Inv, AckedDraftIsSnapshot
  <2> QED BY <2>1, <2>2
<1> QED BY <1>2, <1>10, <1>11, <1>12, <1>14, <1>15 DEF Inv

LEMMA MemoCreatedKeeps == ASSUME Inv, NEW c \in calls, MemoCreated(c) PROVE Inv'
<1> DEFINE q == [Promoted(page[c.tab]) EXCEPT !.passed = page[c.tab].form # c.form]
<1>1. /\ calls' = calls \ {c} /\ c.kind = "create" /\ c.stage = "ok"
      /\ UNCHANGED <<mail, late, made, lostCreates, edits, faults, started>>
  BY DEF MemoCreated
<1>2. calls' \subseteq Calls /\ OneSave' /\ c \in Calls /\ c.tab \in Tabs /\ CallOK(c)
  BY <1>1, Removed
<1>3. page[c.tab] \in Pages /\ ~page[c.tab].memo /\ PageOK(page[c.tab])
  BY <1>1, <1>2, MailKept DEF CallOK
<1>4. q \in Pages /\ PageOK(q) /\ q.memo /\ q.doing = page[c.tab].doing
  <2>1. (page[c.tab].form # c.form) \in BOOLEAN
    OBVIOUS
  <2> QED BY <1>3, <2>1 DEF Pages, PageOK, Promoted
<1>5. page' = [page EXCEPT ![c.tab] = q]
  BY <1>2, MailKept DEF MemoCreated
<1> HIDE DEF q
<1>6. \A u \in Tabs : page'[u] = IF u = c.tab THEN q ELSE page[u]
  BY <1>5, MailKept
<1>7. /\ server' \in [form : Forms \cup {NoForm}, committed : Forms \cup {NoForm},
                      by : Tabs, via : Kinds \cup {"none"}, acked : BOOLEAN]
      /\ server'.form = server.form /\ server'.committed = server.committed
      /\ server'.by = server.by /\ server'.via = server.via
      /\ server.via = "patch" => server'.acked = server.acked
  <2>1. (server.acked \/ (server.by = c.tab /\ server.via = c.kind)) \in BOOLEAN
    OBVIOUS
  <2>2. server.acked \in BOOLEAN
    BY DEF Inv, TypeOK
  <2> QED BY <1>1, <2>1, <2>2 DEF MemoCreated, Acked, Inv, TypeOK
<1>8. TypeOK'
  BY <1>1, <1>2, <1>4, <1>5, <1>7 DEF Inv, TypeOK
<1>9. ServerOK'
  BY <1>4, <1>6, <1>7 DEF Inv, TypeOK, ServerOK
<1>10. CallsOK'
  <2> SUFFICES ASSUME NEW d \in calls' PROVE CallOK(d)'
    BY DEF CallsOK
  <2>1. d \in calls /\ d # c /\ d.tab \in Tabs /\ CallOK(d)
    BY <1>1 DEF Inv, TypeOK, Calls, CallsOK
  <2>2. d.tab = c.tab => d.kind # "create"
    BY <1>1, <1>2, <2>1 DEF Inv, OneSave, Saving
  <2> QED BY <1>4, <1>6, <1>7, <2>1, <2>2 DEF CallOK
<1>11. PagesOK'
  BY <1>1, <1>4, <1>6 DEF Inv, PagesOK
<1>12. OpenTabs' = OpenTabs /\ Holders \subseteq Holders'
  <2>1. OpenTabs' = OpenTabs
    BY <1>4, <1>6 DEF OpenTabs
  <2>2. \A t \in Tabs : page[t].memo => page'[t].memo
    BY <1>4, <1>6
  <2>3. page'[c.tab].memo
    BY <1>2, <1>4, <1>6
  <2> QED BY <1>1, <2>1, <2>2, <2>3 DEF Holders, Saving, OpenTabs
<1>13. MadeOK'
  <2>1. Holders' \in SUBSET Tabs /\ Holders \in SUBSET Tabs
    BY DEF Holders, OpenTabs
  <2>2. Cardinality(Holders) <= Cardinality(Holders')
        /\ Cardinality(Holders) \in Nat /\ Cardinality(Holders') \in Nat
    BY <1>12, <2>1, Counted
  <2> QED BY <1>1, <1>12, <2>2, HoldersCounted DEF Inv, MadeOK
<1>14. AckedDraftIsSnapshot'
  <2> SUFFICES ASSUME NEW t \in Tabs, server'.by = t, server'.via = "patch", server'.acked
               PROVE  Outgoing(page'[t].lastSnap) = server'.form
    BY DEF AckedDraftIsSnapshot
  <2>1. t # c.tab
    BY <1>3, <1>7 DEF Inv, ServerOK
  <2> QED BY <1>6, <1>7, <2>1 DEF Inv, AckedDraftIsSnapshot
<1> QED BY <1>2, <1>8, <1>9, <1>10, <1>11, <1>13, <1>14 DEF Inv

LEMMA SaveFailedKeeps == ASSUME Inv, NEW c \in calls, SaveFailed(c) PROVE Inv'
<1> DEFINE q == [page[c.tab] EXCEPT !.creating = @ /\ c.kind # "create"]
<1>1. /\ calls' = calls \ {c} /\ c.stage \in {"refused", "lost"}
      /\ UNCHANGED <<mail, late, server, made, lostCreates, edits, faults, started>>
  BY DEF SaveFailed
<1>2. calls' \subseteq Calls /\ OneSave' /\ c \in Calls /\ c.tab \in Tabs /\ CallOK(c)
  BY <1>1, Removed
<1>3. page[c.tab] \in Pages /\ PageOK(page[c.tab])
  BY <1>2, MailKept
<1>4. (page[c.tab].creating /\ c.kind # "create") \in BOOLEAN
  OBVIOUS
<1>5. /\ q \in Pages /\ PageOK(q) /\ q.memo = page[c.tab].memo /\ q.doing = page[c.tab].doing
      /\ q.lastSnap = page[c.tab].lastSnap
      /\ q.creating = (page[c.tab].creating /\ c.kind # "create")
  BY <1>3, <1>4 DEF Pages, PageOK
<1>6. page' = [page EXCEPT ![c.tab] = q]
  BY MailKept DEF SaveFailed
<1> HIDE DEF q
<1>7. \A u \in Tabs : page'[u] = IF u = c.tab THEN q ELSE page[u]
  BY <1>6, MailKept
<1>8. TypeOK'
  BY <1>1, <1>2, <1>5, <1>6 DEF Inv, TypeOK
<1>9. ServerOK' /\ AckedDraftIsSnapshot'
  <2>1. server.by \in Tabs
    BY DEF Inv, TypeOK
  <2>2. \A u \in Tabs : page'[u].memo = page[u].memo /\ page'[u].lastSnap = page[u].lastSnap
    BY <1>5, <1>7
  <2>3. ServerOK'
    BY <1>1, <2>1, <2>2 DEF Inv, ServerOK
  <2>4. AckedDraftIsSnapshot'
    BY <1>1, <2>2 DEF Inv, AckedDraftIsSnapshot
  <2> QED BY <2>3, <2>4
<1>10. CallsOK'
  <2> SUFFICES ASSUME NEW d \in calls' PROVE CallOK(d)'
    BY DEF CallsOK
  <2>1. d \in calls /\ d # c /\ d.tab \in Tabs /\ CallOK(d)
    BY <1>1 DEF Inv, TypeOK, Calls, CallsOK
  <2>2. d.tab = c.tab /\ d.kind = "create" => c.kind # "create"
    BY <1>2, <2>1 DEF Inv, OneSave, Saving
  <2> QED BY <1>1, <1>5, <1>7, <2>1, <2>2 DEF CallOK
<1>11. PagesOK'
  BY <1>1, <1>5, <1>7 DEF Inv, PagesOK
<1>12. OpenTabs' = OpenTabs /\ Holders' = Holders
  <2>1. OpenTabs' = OpenTabs
    BY <1>5, <1>7 DEF OpenTabs
  <2>2. \A t \in Tabs : page'[t].memo = page[t].memo
    BY <1>5, <1>7
  <2> QED BY <1>1, <2>1, <2>2 DEF Holders, Saving, OpenTabs
<1>13. MadeOK'
  BY <1>1, <1>12 DEF Inv, MadeOK
<1> QED BY <1>2, <1>8, <1>9, <1>10, <1>11, <1>13 DEF Inv

LEMMA CommitDoneKeeps == ASSUME Inv, NEW c \in calls, CommitDone(c) PROVE Inv'
<1>1. /\ calls' = calls \ {c} /\ c.kind \in {"commit", "late"}
      /\ UNCHANGED <<page, mail, late, server, made, lostCreates, edits, faults, started>>
  BY DEF CommitDone
<1>2. calls' \subseteq Calls /\ OneSave'
  BY <1>1, Removed
<1>3. Holders' = Holders /\ OpenTabs' = OpenTabs
  BY <1>1 DEF Holders, Saving, OpenTabs
<1> QED BY <1>1, <1>2, <1>3
        DEF Inv, TypeOK, ServerOK, CallsOK, CallOK, PagesOK, MadeOK, AckedDraftIsSnapshot

LEMMA DiscardDoneKeeps == ASSUME Inv, NEW c \in calls, DiscardDone(c) PROVE Inv'
<1> DEFINE p == page[c.tab]
           q == Opened(server.form, TRUE, p.doing)
           left(d) == IF d.tab = c.tab /\ d.kind = "patch" THEN [d EXCEPT !.kind = "late"] ELSE d
<1>1. /\ calls' = {left(d) : d \in calls \ {c}} /\ c.kind = "discard"
      /\ UNCHANGED <<server, made, lostCreates, edits, faults, started>>
  BY DEF DiscardDone
<1>2. c \in Calls /\ c.tab \in Tabs /\ CallOK(c) /\ p \in Pages /\ p.doing \in SUBSET Ops
  BY MailKept DEF Inv, TypeOK, Calls, CallsOK, Pages
<1>3. server.form \in Forms /\ server.committed # NoForm /\ p.memo
  BY <1>1, <1>2 DEF CallOK, Inv, TypeOK, ServerOK
<1>4. /\ q \in Pages /\ PageOK(q) /\ q.memo = TRUE /\ q.doing = p.doing
      /\ server.form.title # Blank => Outgoing(q.lastSnap) = server.form
  BY <1>2, <1>3, OpenedType
<1>5. page' = [page EXCEPT ![c.tab] = q]
  BY MailKept DEF DiscardDone
<1> HIDE DEF q
<1>6. \A u \in Tabs : page'[u] = IF u = c.tab THEN q ELSE page[u]
  BY <1>5, MailKept
<1>7. \A d \in calls : /\ left(d) \in Calls /\ left(d).tab = d.tab /\ left(d).stage = d.stage
                       /\ left(d).form = d.form
                       /\ left(d).kind = IF d.tab = c.tab /\ d.kind = "patch" THEN "late" ELSE d.kind
  BY DEF Inv, TypeOK, Calls, Kinds
<1>8. \A d \in calls : d.tab = c.tab => d.kind # "create"
  BY <1>3 DEF Inv, CallsOK, CallOK
<1>9. \A d \in calls : left(d).kind \in {"patch", "create"} => left(d) = d /\ d.tab # c.tab
  BY <1>7, <1>8
<1> HIDE DEF left
<1>10. calls' \subseteq Calls
  BY <1>1, <1>7
<1>11. TypeOK'
  <2>1. mail' \in [Tabs -> Seq(Bodies)]
    <3>1. <<>> \in Seq(Bodies)
      OBVIOUS
    <3> QED BY <3>1, MailKept DEF DiscardDone
  <2>2. late' \subseteq [tab : Tabs, form : Forms]
    BY <1>2 DEF DiscardDone, Inv, TypeOK, Pages
  <2> QED BY <1>1, <1>4, <1>5, <1>10, <2>1, <2>2 DEF Inv, TypeOK
<1>12. ServerOK'
  BY <1>1, <1>4, <1>6 DEF Inv, TypeOK, ServerOK
<1>13. CallsOK'
  <2> SUFFICES ASSUME NEW d \in calls, CallOK(d) PROVE CallOK(left(d))'
    BY <1>1 DEF Inv, CallsOK
  <2>1. d.tab \in Tabs
    BY DEF Inv, TypeOK, Calls
  <2> QED BY <1>1, <1>3, <1>4, <1>6, <1>7, <1>8, <2>1 DEF CallOK
<1>14. OneSave'
  <2>1. \A t \in Tabs : Saving(t)' \subseteq Saving(t)
    BY <1>1, <1>9 DEF Saving
  <2> QED BY <2>1 DEF Inv, OneSave
<1>15. PagesOK'
  <2>1. \A u \in Tabs : mail'[u] = IF u = c.tab THEN <<>> ELSE mail[u]
    BY MailKept DEF DiscardDone
  <2> QED BY <1>4, <1>6, <2>1 DEF Inv, PagesOK
<1>16. OpenTabs' = OpenTabs /\ Holders \subseteq Holders'
  <2>1. OpenTabs' = OpenTabs
    BY <1>4, <1>6 DEF OpenTabs
  <2>2. \A t \in Tabs : page[t].memo => page'[t].memo
    BY <1>4, <1>6
  <2>3. \A t \in Tabs : \A d \in Saving(t) : d.kind = "create" => d \in Saving(t)'
    <3> SUFFICES ASSUME NEW t \in Tabs, NEW d \in Saving(t), d.kind = "create" PROVE d \in Saving(t)'
      OBVIOUS
    <3>1. d \in calls /\ d.tab = t /\ d # c
      BY <1>1 DEF Saving
    <3>2. left(d) = d
      BY <3>1 DEF left
    <3> QED BY <1>1, <3>1, <3>2 DEF Saving
  <2> QED BY <2>1, <2>2, <2>3 DEF Holders, OpenTabs
<1>17. MadeOK'
  <2>1. Holders' \in SUBSET Tabs /\ Holders \in SUBSET Tabs
    BY DEF Holders, OpenTabs
  <2>2. Cardinality(Holders) <= Cardinality(Holders')
        /\ Cardinality(Holders) \in Nat /\ Cardinality(Holders') \in Nat
    BY <1>16, <2>1, Counted
  <2> QED BY <1>1, <1>16, <2>2, HoldersCounted DEF Inv, MadeOK
<1>18. AckedDraftIsSnapshot'
  <2> SUFFICES ASSUME NEW t \in Tabs, server.by = t, server.via = "patch", server.acked
               PROVE  Outgoing(page'[t].lastSnap) = server.form
    BY <1>1 DEF AckedDraftIsSnapshot
  <2>1. CASE t = c.tab
    BY <1>4, <1>6, <2>1 DEF Inv, ServerOK
  <2>2. CASE t # c.tab
    BY <1>6, <2>2 DEF Inv, AckedDraftIsSnapshot
  <2> QED BY <2>1, <2>2
<1> QED BY <1>11, <1>12, <1>13, <1>14, <1>15, <1>17, <1>18 DEF Inv

-----------------------------------------------------------------------------
\* The theorems

LEMMA InitInv == Init => Inv
<1> SUFFICES ASSUME Init PROVE Inv
  OBVIOUS
<1> DEFINE first(scene) == IF scene.form # NoForm THEN scene.form ELSE NewForm
<1>1. PICK scene \in Scenes :
        /\ page = [t \in Tabs |-> Opened(first(scene), scene.form # NoForm, scene.doing[t])]
        /\ server = [form |-> scene.form, committed |-> scene.form, by |-> CHOOSE t \in Tabs : TRUE,
                     via |-> "none", acked |-> FALSE]
        /\ calls = {} /\ late = {} /\ mail = [t \in Tabs |-> <<>>]
        /\ made = 0 /\ lostCreates = 0 /\ edits = 0 /\ faults = 0 /\ started = 0
  BY DEF Init
<1>2. scene.form \in Forms \cup {NoForm} /\ \A t \in Tabs : scene.doing[t] \in SUBSET Ops
  BY ScenesAssumption
<1>3. first(scene) \in Forms /\ (scene.form # NoForm) \in BOOLEAN
  BY <1>2, NewFormType
<1> HIDE DEF first
<1>4. \A t \in Tabs : LET p == page[t] IN p \in Pages /\ PageOK(p)
  BY <1>1, <1>2, <1>3, OpenedType
<1>5. (CHOOSE t \in Tabs : TRUE) \in Tabs
  BY TabsAssumption
<1>6. <<>> \in Seq(Bodies)
  OBVIOUS
<1>7. page \in [Tabs -> Pages]
  BY <1>1, <1>4
<1>8. TypeOK
  BY <1>1, <1>2, <1>5, <1>6, <1>7 DEF TypeOK
<1>9. ServerOK /\ CallsOK /\ OneSave /\ PagesOK /\ AckedDraftIsSnapshot
  BY <1>1, <1>4 DEF ServerOK, CallsOK, OneSave, Saving, PagesOK, AckedDraftIsSnapshot
<1>10. MadeOK
  <2>1. Holders \in SUBSET Tabs
    BY DEF Holders, OpenTabs
  <2>2. Cardinality(Holders) \in Nat
    BY <2>1, Counted
  <2> QED BY <1>1, <2>2 DEF MadeOK
<1> QED BY <1>8, <1>9, <1>10 DEF Inv

LEMMA NextKeeps == Inv /\ [Next]_vars => Inv'
<1> SUFFICES ASSUME Inv, [Next]_vars PROVE Inv'
  OBVIOUS
<1>1. ASSUME NEW t \in Tabs, User(t) PROVE Inv'
  BY <1>1, UserKeeps, CommitKeeps, DiscardKeeps
<1>2. ASSUME NEW t \in Tabs, Browser(t) PROVE Inv'
  BY <1>2, TimerFiresKeeps, SaveKeeps, RemoteDraftKeeps DEF Browser
<1>3. ASSUME NEW c \in calls, Response(c) PROVE Inv'
  BY <1>3, DraftSavedKeeps, MemoCreatedKeeps, SaveFailedKeeps, CommitDoneKeeps, DiscardDoneKeeps
     DEF Response
<1>4. CASE Page
  BY <1>2, <1>3, <1>4, LateSaveKeeps DEF Page
<1>5. CASE Server
  BY <1>5, ServerAppliesKeeps DEF Server
<1>6. CASE UNCHANGED vars
  <2>1. ServerOK' /\ CallsOK' /\ OneSave' /\ MadeOK' /\ AckedDraftIsSnapshot'
    BY <1>6, RestKept DEF vars
  <2>2. TypeOK' /\ PagesOK'
    BY <1>6 DEF vars, Inv, TypeOK, PagesOK
  <2> QED BY <2>1, <2>2 DEF Inv
<1> QED BY <1>1, <1>4, <1>5, <1>6, ServerRefusesKeeps, NetworkFailsKeeps DEF Next

LEMMA Always == Spec => []Inv
BY InitInv, NextKeeps, PTL DEF Spec

\* The fields of the controller in every tab, the requests and the server keep
\* their types; above all a page is opened again after a discard only on a memo
\* the server still has.
THEOREM TypeCorrect == Spec => []TypeOK
<1>1. Inv => TypeOK
  BY DEF Inv
<1> QED BY <1>1, Always, PTL

\* One page makes one memo, and a second one only after the answer to a create
\* was lost (_creating, shouldUseCreateEndpoint): however saves, commits, broadcasts
\* and faults interleave, a tab that waits for its memo sends no second create.
THEOREM OneMemo == Spec => []OneMemoPerPage
<1>1. Inv => OneMemoPerPage
  <2> SUFFICES ASSUME Inv PROVE OneMemoPerPage
    OBVIOUS
  <2> DEFINE n == Cardinality(OpenTabs)
             l == lostCreates
  <2>1. OpenTabs \in SUBSET Tabs /\ Holders \in SUBSET Tabs /\ Holders \subseteq OpenTabs
    BY DEF OpenTabs, Holders
  <2>2. n \in Nat /\ Cardinality(Holders) \in Nat /\ Cardinality(Holders) <= n
    BY <2>1, Counted
  <2>3. l \in Nat /\ made \in Nat /\ made <= n + l
    BY <2>2, HoldersCounted DEF Inv, MadeOK
  <2>4. l > 0 => n # 0
    <3>1. IsFiniteSet(OpenTabs)
      BY <2>1, TabsAssumption, FS_Subset
    <3> QED BY <3>1, FS_EmptySet DEF Inv, MadeOK
  <2> HIDE DEF n, l
  <2>5. n + l <= n * (1 + l)
    <3>1. CASE l = 0
      BY <2>2, <3>1
    <3>2. CASE l # 0
      <4>1. n >= 1 /\ l >= 1
        BY <2>2, <2>3, <2>4, <3>2
      <4>2. n * (1 + l) = n + n * l
        BY <2>2, <2>3
      <4>3. n * l >= l
        BY <2>2, <2>3, <4>1
      <4> QED BY <2>2, <2>3, <4>2, <4>3
    <3> QED BY <3>1, <3>2
  <2>6. n * (1 + l) \in Nat
    BY <2>2, <2>3
  <2>7. made <= n * (1 + l)
    BY <2>2, <2>3, <2>5, <2>6
  <2> QED BY <2>7 DEF OneMemoPerPage, n, l
<1> QED BY <1>1, Always, PTL

\* A page that has heard that its draft was stored compares later edits with what
\* the server holds (the snapshot of performDraftAutosaveFetch), whatever other tabs,
\* discards and faults did meanwhile.
THEOREM AckedIsSnapshot == Spec => []AckedDraftIsSnapshot
<1>1. Inv => AckedDraftIsSnapshot
  BY DEF Inv
<1> QED BY <1>1, Always, PTL

\* No answer but that of a discard touches a form.
LEMMA AnswerKeepsForms ==
  ASSUME Inv, NEW c \in calls, DraftSaved(c) \/ MemoCreated(c) \/ SaveFailed(c) \/ CommitDone(c)
  PROVE  \A t \in Tabs : page'[t].form = page[t].form
<1>1. page \in [Tabs -> Pages] /\ c.tab \in Tabs
  BY MailKept DEF Inv, TypeOK, Calls
<1>2. CASE DraftSaved(c)
  BY <1>1, <1>2 DEF DraftSaved, Pages
<1>3. CASE MemoCreated(c)
  BY <1>1, <1>3 DEF MemoCreated, Promoted, Pages
<1>4. CASE SaveFailed(c)
  BY <1>1, <1>4 DEF SaveFailed, Pages
<1>5. CASE CommitDone(c)
  BY <1>5 DEF CommitDone
<1> QED BY <1>2, <1>3, <1>4, <1>5

\* Text that was typed and not saved is replaced by a broadcast body only when the
\* user asks for it (_onRemoteDraftMessage, applyRemoteDraft).
THEOREM UnsavedTextStays == Spec => UnsavedTextKept
<1> DEFINE Kept(t) == (page'[t].form.body # page[t].form.body /\ page[t].form.body # page[t].lastBody)
                        => \/ edits' # edits
                           \/ page[t].pending = page'[t].form.body
                           \/ \E c \in calls : c.tab = t /\ c.kind = "discard"
<1>1. Inv /\ [Next]_vars => [\A t \in Tabs : Kept(t)]_vars
  <2> SUFFICES ASSUME Inv, Next, NEW t \in Tabs PROVE Kept(t)
    OBVIOUS
  <2>1. page \in [Tabs -> Pages] /\ page[t] \in Pages /\ PageOK(page[t]) /\ edits \in Nat
    BY MailKept
  <2>2. ASSUME NEW u \in Tabs, User(u) PROVE Kept(t)
    <3>1. CASE \E form, typed : Edits(u, form, typed)
      BY <2>1, <3>1 DEF Edits
    <3>2. CASE ApplyRemoteDraft(u)
      <4>1. page[u].pending \in Bodies /\ page[u].form \in Forms
        BY <3>2, MailKept DEF ApplyRemoteDraft, Pages
      <4>2. BodyInput([page[u].form EXCEPT !.body = page[u].pending]).body = page[u].pending
        BY <4>1, FieldTypes, FormTypes
      <4> QED BY <2>1, <3>2, <4>2 DEF ApplyRemoteDraft
    <3>3. CASE TurboRender(u)
      BY <2>1, <3>3 DEF TurboRender, PageOK
    <3>4. CASE Commit(u) \/ Discard(u)
      BY <3>4 DEF Commit, Discard
    <3> QED BY <2>2, <3>1, <3>2, <3>3, <3>4
            DEF User, TypeBody, TypeTitle, LeaveTitle, EditTags, EditProperties, ApplySuggestion
  <2>3. ASSUME NEW u \in Tabs, Browser(u) PROVE Kept(t)
    <3>1. CASE TimerFires(u) \/ Save(u)
      <4>1. page'[t].form = page[t].form
        BY <2>1, <3>1 DEF TimerFires, Save, Pages
      <4> QED BY <4>1
    <3>2. CASE RemoteDraft(u)
      BY <2>1, <3>2 DEF RemoteDraft, Dirty
    <3> QED BY <2>3, <3>1, <3>2 DEF Browser
  <2>4. ASSUME NEW c \in calls, Response(c) PROVE Kept(t)
    <3>1. c.tab \in Tabs /\ page[c.tab] \in Pages
      BY MailKept DEF Inv, TypeOK, Calls
    <3>2. CASE DiscardDone(c)
      <4>1. CASE c.tab = t
        BY <3>2, <4>1 DEF DiscardDone
      <4>2. CASE c.tab # t
        BY <2>1, <3>2, <4>2 DEF DiscardDone
      <4> QED BY <4>1, <4>2
    <3>3. CASE ~DiscardDone(c)
      <4>1. page'[t].form = page[t].form
        BY <2>4, <3>3, AnswerKeepsForms DEF Response
      <4> QED BY <4>1
    <3> QED BY <3>2, <3>3
  <2>5. CASE \E l \in late : LateSave(l)
    BY <2>5 DEF LateSave
  <2>6. CASE \E c \in calls : ServerApplies(c) \/ ServerRefuses(c) \/ NetworkFails(c)
    BY <2>6 DEF ServerApplies, ServerRefuses, NetworkFails
  <2> QED BY <2>2, <2>3, <2>4, <2>5, <2>6 DEF Next, Page, Server
<1> QED BY <1>1, Always, PTL DEF Spec, UnsavedTextKept

-----------------------------------------------------------------------------
\* Titles

\* What the handlers do to a form leaves a title that fits.
LEMMA TitlesMade ==
  ASSUME NEW f \in Forms
  PROVE  /\ TitleFits(BodyInput(f)) /\ (TitleFits(f) => TitleFits(TitleBlur(f)))
         /\ \A title \in Titles : TitleFits(TitleInput(f, title))
         /\ TitleFits(f) => TitleFits(Outgoing(f)) /\ TitleFits(TitleSynced(f))
<1>1. TitleFits(BodyInput(f))
  BY DEF TitleFits, BodyInput, IsBlank, Forms
<1>2. TitleFits(f) => TitleFits(TitleBlur(f))
  BY DEF TitleFits, TitleBlur, IsBlank, Forms
<1>3. \A title \in Titles : TitleFits(TitleInput(f, title))
  BY DEF TitleFits, TitleInput, IsBlank, Forms
<1>4. TitleFits(f) => TitleFits(Outgoing(f)) /\ TitleFits(TitleSynced(f))
  BY DEF TitleFits, Outgoing, TitleSynced, NeedsTitle, IsBlank, Forms
<1> QED BY <1>1, <1>2, <1>3, <1>4

LEMMA SuggestedFits ==
  ASSUME NEW f \in Forms, NEW title \in Titles, NEW tags \in SUBSET Tags, TitleFits(f)
  PROVE  TitleFits(Suggested(f, title, tags))
<1>1. CASE IsBlank(title)
  BY <1>1 DEF TitleFits, Suggested, Forms
<1>2. CASE ~IsBlank(title)
  BY <1>2 DEF TitleFits, Suggested, Forms
<1> QED BY <1>1, <1>2

\* A page opened on a form whose title fits shows one that fits.
LEMMA OpenedFits ==
  ASSUME NEW f \in Forms, TitleFits(f), NEW stored \in BOOLEAN, NEW doing
  PROVE  TitleFits(Opened(f, stored, doing).form)
<1> DEFINE shown == [f EXCEPT !.title = IF @ = Untitled THEN Blank ELSE @]
<1>1. shown \in Forms
  <2>1. (IF f.title = Untitled THEN Blank ELSE f.title) \in Titles
    BY DEF Titles, Forms
  <2> QED BY <2>1 DEF Forms
<1>2. TitleFits(shown)
  BY DEF TitleFits, IsBlank, Forms
<1>3. Opened(f, stored, doing).form = IF stored THEN TitleSynced(shown) ELSE shown
  BY DEF Opened
<1> HIDE DEF shown
<1> QED BY <1>1, <1>2, <1>3, TitlesMade

LEMMA InitTitles == Init => TitlesFit
<1> SUFFICES ASSUME Init PROVE TitlesFit
  OBVIOUS
<1> DEFINE first(scene) == IF scene.form # NoForm THEN scene.form ELSE NewForm
<1>1. PICK scene \in Scenes :
        /\ page = [t \in Tabs |-> Opened(first(scene), scene.form # NoForm, scene.doing[t])]
        /\ server.form = scene.form /\ server.committed = scene.form
        /\ calls = {} /\ late = {}
  BY DEF Init
<1>2. scene.form \in Forms \cup {NoForm} /\ Fits(scene.form)
  BY ScenesAssumption, StoredTitleAssumption DEF Fits
<1>3. TitleFits(NewForm)
  BY DEF TitleFits, NewForm, IsBlank
<1>4. first(scene) \in Forms /\ TitleFits(first(scene)) /\ (scene.form # NoForm) \in BOOLEAN
  BY <1>2, <1>3, NewFormType DEF Fits
<1> HIDE DEF first
<1>5. TitleFollowsBody
  BY <1>1, <1>4, OpenedFits DEF TitleFollowsBody
<1> QED BY <1>1, <1>2, <1>5 DEF TitlesFit

LEMMA NextTitles == Inv /\ TitlesFit /\ [Next]_vars => TitlesFit'
<1> SUFFICES ASSUME Inv, TitlesFit, [Next]_vars PROVE TitlesFit'
  OBVIOUS
<1>1. /\ page \in [Tabs -> Pages] /\ \A t \in Tabs : page[t].form \in Forms /\ TitleFits(page[t].form)
      /\ \A c \in calls : c.tab \in Tabs /\ c.form \in Forms /\ TitleFits(c.form)
      /\ \A l \in late : l.form \in Forms /\ TitleFits(l.form)
  BY DEF Inv, TypeOK, Pages, Calls, TitlesFit, TitleFollowsBody
\* Only the form of one page changes, and its title fits.
<1>2. ASSUME NEW t \in Tabs, TitleFits(page'[t].form),
             \A u \in Tabs \ {t} : page'[u].form = page[u].form, UNCHANGED <<calls, late, server>>
      PROVE  TitlesFit'
  <2>1. TitleFollowsBody'
    BY <1>1, <1>2 DEF TitleFollowsBody
  <2> QED BY <1>2, <2>1 DEF TitlesFit
\* Forms go out that are those of pages, or of saves that were late.
<1>3. ASSUME \A t \in Tabs : page'[t].form = page[t].form, UNCHANGED server, late' \subseteq late,
             \A c \in calls' : \/ c \in calls \/ \E t \in Tabs : c.form = page[t].form
                               \/ \E d \in calls \cup late : c.form = d.form
      PROVE  TitlesFit'
  <2>1. TitleFollowsBody'
    BY <1>1, <1>3 DEF TitleFollowsBody
  <2> QED BY <1>1, <1>3, <2>1 DEF TitlesFit
<1>4. ASSUME NEW t \in Tabs, User(t) PROVE TitlesFit'
  <2>1. ASSUME NEW form, NEW typed, Edits(t, form, typed), TitleFits(form) PROVE TitlesFit'
    BY <1>1, <1>2, <2>1 DEF Edits
  <2>2. Custom \cup {Blank} \subseteq Titles
    BY DEF Titles
  <2>3. ASSUME NEW b \in Bodies, TypeBody(t, b) PROVE TitlesFit'
    BY <1>1, <2>1, <2>3, FieldTypes, TitlesMade DEF TypeBody
  <2>4. ASSUME NEW title \in Custom \cup {Blank}, TypeTitle(t, title) PROVE TitlesFit'
    BY <1>1, <2>1, <2>2, <2>4, TitlesMade DEF TypeTitle
  <2>5. CASE LeaveTitle(t)
    BY <1>1, <2>1, <2>5, TitlesMade DEF LeaveTitle
  <2>6. ASSUME NEW tags \in SUBSET Tags, EditTags(t, tags) PROVE TitlesFit'
    <3>1. TitleFits([page[t].form EXCEPT !.tags = tags])
      BY <1>1 DEF TitleFits, Forms
    <3> QED BY <2>1, <2>6, <3>1 DEF EditTags
  <2>7. ASSUME NEW props \in Props, EditProperties(t, props) PROVE TitlesFit'
    <3>1. TitleFits([page[t].form EXCEPT !.props = props])
      BY <1>1 DEF TitleFits, Forms
    <3> QED BY <2>1, <2>7, <3>1 DEF EditProperties
  <2>8. ASSUME NEW title \in Custom \cup {Blank}, NEW tags \in SUBSET Tags, ApplySuggestion(t, title, tags)
        PROVE  TitlesFit'
    BY <1>1, <2>1, <2>2, <2>8, SuggestedFits DEF ApplySuggestion
  <2>9. CASE ApplyRemoteDraft(t)
    <3>1. page[t].pending \in Bodies
      BY <1>1, <2>9 DEF ApplyRemoteDraft, Pages
    <3>2. TitleFits(BodyInput([page[t].form EXCEPT !.body = page[t].pending]))
      BY <1>1, <3>1, FieldTypes, TitlesMade
    <3> QED BY <1>1, <1>2, <2>9, <3>2 DEF ApplyRemoteDraft
  <2>10. CASE TurboRender(t)
    <3>1. TitleFits(NewForm)
      BY DEF TitleFits, NewForm, IsBlank
    <3> QED BY <1>1, <1>2, <2>10, <3>1 DEF TurboRender
  <2>11. CASE Commit(t) \/ Discard(t)
    BY <1>3, <2>11 DEF Commit, Discard
  <2> QED BY <1>4, <2>3, <2>4, <2>5, <2>6, <2>7, <2>8, <2>9, <2>10, <2>11 DEF User
<1>5. ASSUME NEW t \in Tabs, Browser(t) PROVE TitlesFit'
  <2>1. CASE TimerFires(t)
    BY <1>1, <1>3, <2>1 DEF TimerFires
  <2>2. CASE Save(t)
    BY <1>1, <1>3, <2>2 DEF Save
  <2>3. CASE RemoteDraft(t)
    <3>1. CASE Dirty(page[t])
      BY <1>1, <1>3, <2>3, <3>1 DEF RemoteDraft
    <3>2. CASE ~Dirty(page[t])
      <4>1. Head(mail[t]) \in Bodies
        BY <2>3, MailKept DEF RemoteDraft
      <4>2. TitleFits(BodyInput([page[t].form EXCEPT !.body = Head(mail[t])]))
        BY <1>1, <4>1, FieldTypes, TitlesMade
      <4> QED BY <1>1, <1>2, <2>3, <3>2, <4>2 DEF RemoteDraft
    <3> QED BY <3>1, <3>2
  <2> QED BY <1>5, <2>1, <2>2, <2>3 DEF Browser
<1>6. CASE \E l \in late : LateSave(l)
  BY <1>1, <1>3, <1>6 DEF LateSave
<1>7. ASSUME NEW c \in calls, ServerApplies(c) PROVE TitlesFit'
  <2>1. TitleFits(Outgoing(c.form))
    BY <1>1, TitlesMade
  <2>2. Fits(server'.form) /\ Fits(server'.committed)
    BY <1>7, <2>1 DEF ServerApplies, TitlesFit, Fits, Inv, TypeOK
  <2>3. \A d \in calls' : d \in calls \/ d.form = c.form
    BY <1>7 DEF ServerApplies, Answer, Inv, TypeOK, Calls
  <2> QED BY <1>1, <1>7, <2>2, <2>3 DEF ServerApplies, TitlesFit, TitleFollowsBody
<1>8. ASSUME NEW c \in calls, ServerRefuses(c) \/ NetworkFails(c) PROVE TitlesFit'
  <2>1. \A d \in calls' : d \in calls \/ d.form = c.form
    BY <1>8 DEF ServerRefuses, NetworkFails, Answer, Inv, TypeOK, Calls
  <2> QED BY <1>3, <1>8, <2>1 DEF ServerRefuses, NetworkFails
<1>9. ASSUME NEW c \in calls, Response(c) PROVE TitlesFit'
  <2>1. CASE DraftSaved(c) \/ MemoCreated(c)
    <3>1. \A t \in Tabs : page'[t].form = page[t].form
      BY <2>1, AnswerKeepsForms
    <3>2. TitleFollowsBody'
      BY <1>1, <3>1 DEF TitleFollowsBody
    <3>3. server'.form = server.form /\ server'.committed = server.committed
      BY <2>1 DEF DraftSaved, MemoCreated, Acked, Inv, TypeOK
    <3> QED BY <2>1, <3>2, <3>3 DEF DraftSaved, MemoCreated, TitlesFit
  <2>2. CASE SaveFailed(c) \/ CommitDone(c)
    <3>1. \A t \in Tabs : page'[t].form = page[t].form
      BY <2>2, AnswerKeepsForms
    <3> QED BY <1>3, <2>2, <3>1 DEF SaveFailed, CommitDone
  <2>3. CASE DiscardDone(c)
    <3>1. server.form \in Forms /\ TitleFits(server.form)
      BY <2>3 DEF DiscardDone, Inv, CallsOK, CallOK, ServerOK, TypeOK, TitlesFit, Fits
    <3>2. TitleFits(Opened(server.form, TRUE, page[c.tab].doing).form)
      BY <3>1, OpenedFits
    <3>3. TitleFollowsBody'
      BY <1>1, <2>3, <3>2 DEF DiscardDone, TitleFollowsBody
    <3>4. \A d \in calls' : \E e \in calls : d.form = e.form
      BY <2>3 DEF DiscardDone, Inv, TypeOK, Calls
    <3>5. \A l \in late' : l \in late \/ l.form = page[c.tab].form
      BY <2>3 DEF DiscardDone
    <3> QED BY <1>1, <2>3, <3>3, <3>4, <3>5 DEF DiscardDone, TitlesFit
  <2> QED BY <1>9, <2>1, <2>2, <2>3 DEF Response
<1>10. CASE UNCHANGED vars
  BY <1>10 DEF vars, TitlesFit, TitleFollowsBody
<1> QED BY <1>4, <1>5, <1>6, <1>7, <1>8, <1>9, <1>10 DEF Next, Page, Server

\* An automatic title stays the first line of its body, in every tab and in every
\* form on its way or stored: typing, remote bodies, suggestions, blurs, discards
\* and promotions keep the two together (title_manual).
THEOREM TitleFollows == Spec => []TitleFollowsBody
<1>1. TitlesFit => TitleFollowsBody
  BY DEF TitlesFit
<1>2. Spec => []TitlesFit
  BY InitTitles, NextTitles, Always, PTL DEF Spec
<1> QED BY <1>1, <1>2, PTL
=============================================================================
