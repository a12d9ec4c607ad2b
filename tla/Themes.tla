------------------------------- MODULE Themes -------------------------------
(***************************************************************************)
(* Themes of the application and skins of a memo's text: what the page     *)
(* wears, what the browser stores, what the account has on the server, and *)
(* the studio where they are made.  A change of the active theme or skin   *)
(* is sent after a pause (theme_sync); a page that is loaded takes over    *)
(* the account's state and asks for it once more.                          *)
(***************************************************************************)
EXTENDS Integers, FiniteSets

CONSTANTS
  Themes, Skins,      \* built in
  OwnThemes, OwnSkins,\* ids a user's own may get
  Contents,           \* variables and rules of a theme, or the text of a skin
  Default, Auto,      \* the theme and the skin to fall back to
  None,
  MaxEdits,           \* bound of this model: changes a user makes
  MaxFaults           \* bound of this model: failed requests and other devices

ThemesAssumption ==
  /\ Default \in Themes /\ Auto \in Skins /\ None \notin Contents
  /\ Themes \cap OwnThemes = {} /\ Skins \cap OwnSkins = {}
  /\ {MaxEdits, MaxFaults} \subseteq Nat

VARIABLES
  local,     \* localStorage: active theme, own themes, active skin, own skins
  server,    \* the account's
  worn,      \* what the page wears: a base and a style, a skin and a style
  draft,     \* the studio's theme and its contents, or <<>>
  editing,   \* the studio's skin, or None
  timer,     \* the pause runs
  queue,     \* saves waiting in the chain
  patch,     \* the save in flight and whether it is the second try, or <<>>
  late,      \* saves in flight of a page that was left
  asked,     \* the state asked for at the start has not come
  pull,      \* that state, once the server has read it
  told,      \* a change was announced and nothing has interfered since
  edits, faults

vars == <<local, server, worn, draft, editing, timer, queue, patch, late, asked, pull, told, edits, faults>>

States == [theme : Themes \cup OwnThemes, themes : [OwnThemes -> Contents \cup {None}],
           skin : Skins \cup OwnSkins, skins : [OwnSkins -> Contents \cup {None}]]

TypeOK ==
  /\ {local, server} \subseteq States
  /\ worn \in [base : Themes, style : Contents \cup {None}, skin : Skins \cup OwnSkins,
               text : Contents \cup {None}]
  /\ draft = <<>> \/ draft \in OwnThemes \X Contents
  /\ editing \in OwnSkins \cup {None}
  /\ timer \in BOOLEAN /\ queue \in Nat /\ told \in BOOLEAN
  /\ patch = <<>> \/ patch \in States \X BOOLEAN
  /\ late \subseteq States
  /\ asked \in BOOLEAN /\ pull \subseteq States
  /\ edits \in 0 .. MaxEdits /\ faults \in 0 .. MaxFaults

-----------------------------------------------------------------------------
\* What a state looks like

HasTheme(s, id) == id \in OwnThemes /\ s.themes[id] # None
HasSkin(s, id) == id \in OwnSkins /\ s.skins[id] # None

\* The theme a page falls back to when the stored one is gone.
StoredTheme(s) == IF HasTheme(s, s.theme) \/ s.theme \in Themes THEN s.theme ELSE Default
StoredSkin(s) == IF HasSkin(s, s.skin) \/ s.skin \in Skins THEN s.skin ELSE Auto

\* The base of an own theme is Default here.
Base(id) == IF id \in Themes THEN id ELSE Default
Style(s, id) == IF HasTheme(s, id) THEN s.themes[id] ELSE None
Text(s, id) == IF HasSkin(s, id) THEN s.skins[id] ELSE None

WithTheme(w, s, id) == [w EXCEPT !.base = Base(id), !.style = Style(s, id)]

\* Mutated: a skin that is already worn is left alone.
WithOtherSkin(w, s, id) == IF w.skin = id THEN w ELSE [w EXCEPT !.skin = id, !.text = Text(s, id)]
WithSkin(w, s, id) == [w EXCEPT !.skin = id, !.text = Text(s, id)]

\* applyTheme: wears it, stores it as active, and announces a change of the active one.
ActiveTheme(s, id) == IF HasTheme(s, id) \/ id \in Themes THEN id ELSE Default
ActiveSkin(s, id) == IF HasSkin(s, id) \/ id \in Skins THEN id ELSE Auto

Announced(change) ==
  IF change THEN timer' = TRUE /\ told' = TRUE ELSE UNCHANGED <<timer, told>>

\* A page that is loaded: the account's state, its skin, and a theme without its style.
Loaded(s) ==
  /\ local' = s /\ asked' = TRUE /\ pull' = {}
  /\ worn' = [base |-> Base(StoredTheme(s)), style |-> None,
              skin |-> StoredSkin(s), text |-> Text(s, StoredSkin(s))]

Empty == [theme |-> Default, themes |-> [t \in OwnThemes |-> None],
          skin |-> Auto, skins |-> [k \in OwnSkins |-> None]]

Init ==
  /\ server = Empty /\ local = Empty /\ asked = TRUE /\ pull = {}
  /\ worn = [base |-> Default, style |-> None, skin |-> Auto, text |-> None]
  /\ draft = <<>> /\ editing = None /\ timer = FALSE /\ queue = 0 /\ patch = <<>> /\ late = {}
  /\ told = FALSE /\ edits = 0 /\ faults = 0

Edits == edits < MaxEdits /\ edits' = edits + 1
Faults == faults < MaxFaults /\ faults' = faults + 1

-----------------------------------------------------------------------------
\* The menu of the page

\* An option may name a theme that was deleted after the menu was filled.
ChangeTheme(id) ==
  /\ Edits
  /\ worn' = WithTheme(worn, local, id)
  /\ local' = [local EXCEPT !.theme = ActiveTheme(local, id)]
  /\ Announced(local.theme # ActiveTheme(local, id))
  /\ UNCHANGED <<server, draft, editing, queue, patch, late, asked, pull, faults>>

ChangeSkin(id) ==
  /\ Edits
  /\ worn' = WithSkin(worn, local, ActiveSkin(local, id))
  /\ local' = [local EXCEPT !.skin = ActiveSkin(local, id)]
  /\ Announced(local.skin # ActiveSkin(local, id))
  /\ UNCHANGED <<server, draft, editing, queue, patch, late, asked, pull, faults>>

-----------------------------------------------------------------------------
\* The studio

\* applyDraftPreview: the draft is stored as one of the user's themes and worn.
Previewed(id, c) ==
  /\ draft' = <<id, c>> /\ local' = [local EXCEPT !.themes[id] = c]
  /\ worn' = WithTheme(worn, local', id)

\* An id nobody has had: createCustomTheme.
Unused(id) == id \in OwnThemes /\ ~HasTheme(local, id) /\ ~HasTheme(server, id) /\ (draft # <<>> => draft[1] # id)

OpenStudio ==
  /\ draft = <<>> /\ Edits
  /\ \E id \in OwnThemes :
       \/ HasTheme(local, id) /\ Previewed(id, local.themes[id])
       \/ Unused(id) /\ \E c \in Contents : Previewed(id, c)
  /\ UNCHANGED <<server, editing, timer, queue, patch, late, asked, pull, told, faults>>

\* A property, a rule, a token, the base theme or a preset.
EditTheme ==
  /\ draft # <<>> /\ Edits /\ \E c \in Contents \ {draft[2]} : Previewed(draft[1], c)
  /\ UNCHANGED <<server, editing, timer, queue, patch, late, asked, pull, told, faults>>

NewTheme ==
  /\ draft # <<>> /\ Edits
  /\ \E id \in OwnThemes, c \in Contents : Unused(id) /\ Previewed(id, c)
  /\ UNCHANGED <<server, editing, timer, queue, patch, late, asked, pull, told, faults>>

\* An imported theme brings its id, or gets one.
ImportTheme ==
  /\ draft # <<>> /\ Edits /\ \E id \in OwnThemes, c \in Contents : Previewed(id, c)
  /\ UNCHANGED <<server, editing, timer, queue, patch, late, asked, pull, told, faults>>

SaveTheme ==
  /\ draft # <<>> /\ local' = [local EXCEPT !.themes[draft[1]] = draft[2]]
  /\ UNCHANGED <<server, worn, draft, editing, timer, queue, patch, late, asked, pull, told, edits, faults>>

\* Saves, then applies.
ApplyDraft ==
  /\ draft # <<>> /\ Edits
  /\ local' = [local EXCEPT !.themes[draft[1]] = draft[2], !.theme = draft[1]]
  /\ worn' = WithTheme(worn, local', draft[1])
  /\ Announced(local.theme # draft[1])
  /\ UNCHANGED <<server, draft, editing, queue, patch, late, asked, pull, faults>>

\* The active theme falls back without being announced; the draft starts anew
\* and is not stored before the next edit.
DeleteTheme(id) ==
  /\ draft # <<>> /\ HasTheme(local, id) /\ Edits
  /\ local' = [local EXCEPT !.themes[id] = None, !.theme = IF @ = id THEN Default ELSE StoredTheme(local)]
  /\ worn' = WithTheme(worn, local', StoredTheme(local'))
  /\ draft' \in IF draft[1] = id THEN {<<n, c>> : n \in {n \in OwnThemes : Unused(n)}, c \in Contents}
               ELSE {draft}
  /\ told' = (told /\ local'.theme = local.theme)
  /\ timer' = (timer \/ (local.theme # id /\ local'.theme # local.theme))
  /\ UNCHANGED <<server, editing, queue, patch, late, asked, pull, faults>>

\* Leaving the studio puts on the stored theme.
LeaveStudio ==
  /\ draft # <<>> /\ draft' = <<>> /\ editing' = None
  /\ worn' = WithTheme(worn, local, StoredTheme(local))
  /\ local' = [local EXCEPT !.theme = StoredTheme(local)]
  /\ Announced(local'.theme # local.theme)
  /\ UNCHANGED <<server, queue, patch, late, asked, pull, edits, faults>>

-----------------------------------------------------------------------------
\* The studio's skins

EditSkin(id) ==
  /\ draft # <<>> /\ (id = None \/ HasSkin(local, id)) /\ editing # id /\ editing' = id
  /\ UNCHANGED <<local, server, worn, draft, timer, queue, patch, late, asked, pull, told, edits, faults>>

\* A skin that is saved is applied; a change of the active one is announced.
SaveSkin(c) ==
  /\ draft # <<>> /\ Edits
  /\ \E id \in IF editing # None THEN {editing}
              ELSE {k \in OwnSkins : ~HasSkin(local, k) /\ ~HasSkin(server, k)} :
       /\ local' = [local EXCEPT !.skins[id] = c, !.skin = id]
       /\ editing' = id /\ worn' = WithSkin(worn, local', id)
       /\ Announced(local.skin # id)
  /\ UNCHANGED <<server, draft, queue, patch, late, asked, pull, faults>>

DeleteSkin(id) ==
  /\ draft # <<>> /\ HasSkin(local, id) /\ Edits
  /\ local' = [local EXCEPT !.skins[id] = None, !.skin = IF @ = id THEN Auto ELSE StoredSkin(local)]
  /\ worn' = WithSkin(worn, local', StoredSkin(local'))
  /\ editing' = IF editing = id THEN None ELSE editing
  /\ told' = (told /\ local'.skin = local.skin)
  /\ timer' = (timer \/ (local.skin # id /\ local'.skin # local.skin))
  /\ UNCHANGED <<server, draft, queue, patch, late, asked, pull, faults>>

-----------------------------------------------------------------------------
\* Saving to the account

\* Mutated: a save that comes while another is in flight is dropped.
QueuedUnlessSaving == IF patch = <<>> THEN queue + 1 ELSE queue
\* The chain takes every save.
Queued == queue + 1

TimerFires ==
  /\ timer /\ timer' = FALSE /\ queue' = Queued
  /\ UNCHANGED <<local, server, worn, draft, editing, patch, late, asked, pull, told, edits, faults>>

\* One at a time; what is stored is read when its turn comes.
SendPatch ==
  /\ queue > 0 /\ patch = <<>>
  /\ queue' = queue - 1 /\ patch' = <<local, FALSE>>
  /\ UNCHANGED <<local, server, worn, draft, editing, timer, late, asked, pull, told, edits, faults>>

PatchDone ==
  /\ patch # <<>> /\ server' = patch[1] /\ patch' = <<>>
  /\ UNCHANGED <<local, worn, draft, editing, timer, queue, late, asked, pull, told, edits, faults>>

\* A stale token is refused once; the second try reads what is stored again.
PatchRefused ==
  /\ patch # <<>> /\ ~patch[2] /\ Faults /\ patch' = <<local, TRUE>>
  /\ UNCHANGED <<local, server, worn, draft, editing, timer, queue, late, asked, pull, told, edits>>

PatchFails ==
  /\ patch # <<>> /\ Faults /\ patch' = <<>> /\ told' = FALSE
  /\ UNCHANGED <<local, server, worn, draft, editing, timer, queue, late, asked, pull, edits>>

-----------------------------------------------------------------------------
\* Loading a page

\* A full load forgets what had to be sent; a save in flight may still land.
Load ==
  /\ Edits /\ Cardinality(late) < 1 /\ Loaded(server)
  /\ draft' = <<>> /\ editing' = None /\ timer' = FALSE /\ queue' = 0 /\ patch' = <<>>
  /\ late' = IF patch = <<>> THEN late ELSE late \cup {patch[1]}
  /\ told' = FALSE
  /\ UNCHANGED <<server, faults>>

LatePatchLands ==
  /\ \E s \in late : server' = s /\ late' = late \ {s}
  /\ told' = FALSE
  /\ UNCHANGED <<local, worn, draft, editing, timer, queue, patch, asked, pull, edits, faults>>

PullRead ==
  /\ asked /\ pull = {} /\ pull' = {server}
  /\ UNCHANGED <<local, server, worn, draft, editing, timer, queue, patch, late, asked, told, edits, faults>>

\* What comes replaces what is stored, and is worn.
Pulled(s) ==
  /\ local' = [s EXCEPT !.theme = StoredTheme(s), !.skin = StoredSkin(s)]
  /\ worn' = WithSkin(WithTheme(worn, s, StoredTheme(s)), s, StoredSkin(s))
  /\ timer' = (timer \/ local' # s) /\ told' = FALSE

PullArrives ==
  /\ \E s \in pull : Pulled(s)
  /\ asked' = FALSE /\ pull' = {}
  /\ UNCHANGED <<server, draft, editing, queue, patch, late, edits, faults>>

PullFails ==
  /\ asked /\ Faults /\ asked' = FALSE /\ pull' = {}
  /\ worn' = WithSkin(WithTheme(worn, local, StoredTheme(local)), local, StoredSkin(local))
  /\ local' = [local EXCEPT !.theme = StoredTheme(local), !.skin = StoredSkin(local)]
  /\ Announced(local' # local)
  /\ UNCHANGED <<server, draft, editing, queue, patch, late, edits>>

\* Another device saves.
OtherDevice(id) ==
  /\ Faults /\ id # server.theme /\ server' = [server EXCEPT !.theme = id] /\ told' = FALSE
  /\ UNCHANGED <<local, worn, draft, editing, timer, queue, patch, late, asked, pull, edits>>

Next ==
  \/ \E id \in Themes \cup OwnThemes : ChangeTheme(id)
  \/ \E id \in Skins \cup OwnSkins : ChangeSkin(id)
  \/ OpenStudio \/ EditTheme \/ NewTheme \/ ImportTheme \/ SaveTheme \/ ApplyDraft \/ LeaveStudio
  \/ \E id \in OwnThemes : DeleteTheme(id)
  \/ \E id \in OwnSkins \cup {None} : EditSkin(id)
  \/ \E c \in Contents : SaveSkin(c)
  \/ \E id \in OwnSkins : DeleteSkin(id)
  \/ TimerFires \/ SendPatch \/ PatchDone \/ PatchRefused \/ PatchFails
  \/ Load \/ LatePatchLands \/ PullRead \/ PullArrives \/ PullFails
  \/ \E id \in Themes : OtherDevice(id)

Spec == Init /\ [][Next]_vars

-----------------------------------------------------------------------------
\* Whatever is chosen, saved, deleted, pulled and left: the page wears the skin
\* that is stored, in the text it has now, and outside the studio the theme that
\* is stored, once the state asked for at the start has come.
WornIsStored ==
  /\ worn.skin = StoredSkin(local) /\ worn.text = Text(local, StoredSkin(local))
  /\ draft = <<>> /\ ~asked =>
       worn.base = Base(StoredTheme(local)) /\ worn.style = Style(local, StoredTheme(local))

\* A change that was announced is on its way or has arrived: through the pause,
\* the chain, a refused token and a change made while another is being sent.
AnnouncedIsSent ==
  told => timer \/ queue > 0 \/ patch # <<>> \/ <<server.theme, server.skin>> = <<local.theme, local.skin>>
=============================================================================
