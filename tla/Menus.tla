------------------------------- MODULE Menus -------------------------------
(***************************************************************************)
(* What opens on a page and closes by a click beside it or by Escape: the  *)
(* user menus (user_menu), the tree of directories below a field           *)
(* (memo_directory_parent_picker), the context menu of a memo              *)
(* (memo_show_context_menu) and that of the editor (editorContextMenu).    *)
(* They meet at the document, which some of them listen to only while      *)
(* open; a handler may keep an event from reaching it.  Turbo takes a page *)
(* from its cache as it was left.                                          *)
(***************************************************************************)
EXTENDS Integers, FiniteSets

CONSTANTS
  UserMenus,   \* the user menus of the page (the header's, for wide and narrow windows)
  Options,     \* the directories a picker lists, in order: 1 .. n
  Below,       \* Below[o]: the option o is a child of, or 0
  Unfolded     \* the branches that are open when the page is drawn

MenusAssumption ==
  /\ Options = 1 .. Cardinality(Options) /\ Options # {} /\ 0 \notin UserMenus
  /\ Below \in [Options -> {0} \cup Options] /\ \A o \in Options : Below[o] < o
  /\ Unfolded \subseteq Options

VARIABLES
  menus,      \* of each user menu: open, and how many listeners it has on the document
  picker,     \* the picker: open, listeners, branches unfolded, selected, tab stop, focus
              \* (history, of both: kept, it was open when the page went into the cache)
  context,    \* the memo's context menu: open, and whether it listens
  editor,     \* the editor's context menu is open; it listens all the time
  connected   \* the controllers are connected: the page is not in the cache

vars == <<menus, picker, context, editor, connected>>

TypeOK ==
  /\ menus \in [UserMenus -> [open : BOOLEAN, listens : 0 .. 2, kept : BOOLEAN]]
  /\ picker \in [open : BOOLEAN, listens : 0 .. 2, kept : BOOLEAN, unfolded : SUBSET Options,
                 selected : {0} \cup Options, stop : Options, focus : {0} \cup Options]
  /\ context \in [open : BOOLEAN, listens : BOOLEAN] /\ editor \in BOOLEAN /\ connected \in BOOLEAN

-----------------------------------------------------------------------------
ClosedMenu == [open |-> FALSE, listens |-> 0, kept |-> FALSE]

\* The picker's tree

Least(S) == CHOOSE o \in S : \A p \in S : o <= p
Most(S) == CHOOSE o \in S : \A p \in S : o >= p

\* visibleOptionTargets: every branch above is unfolded.
VisibleIn(unfolded) ==
  LET seen[o \in Options] == Below[o] = 0 \/ (Below[o] \in unfolded /\ seen[Below[o]])
  IN  {o \in Options : seen[o]}
Visible(p) == VisibleIn(p.unfolded)

\* Mutated: the tab stop stays where it is.
KeptStop(p) == p
\* refreshOptionTabindexes: the selected option, or the first that is visible.
Refreshed(p) == [p EXCEPT !.stop = IF p.selected # 0 THEN p.selected ELSE Least(Visible(p))]

Focused(p, o) == [p EXCEPT !.stop = o, !.focus = o]

\* Mutated: an open picker listens once more.
ListensAgain(p) == Refreshed([p EXCEPT !.open = TRUE, !.listens = @ + 1])
\* show
Shown(p) ==
  Refreshed([p EXCEPT !.open = TRUE, !.listens = IF p.open THEN @ ELSE @ + 1])

\* hide: the branches fold as they were at first.
Hidden(p) == [p EXCEPT !.open = FALSE, !.listens = 0, !.kept = FALSE, !.unfolded = Unfolded, !.focus = 0]

-----------------------------------------------------------------------------
Init ==
  /\ menus = [u \in UserMenus |-> ClosedMenu]
  /\ \E s \in {0} \cup Options :
       picker = Refreshed([open |-> FALSE, listens |-> 0, kept |-> FALSE, unfolded |-> Unfolded,
                           selected |-> s, stop |-> 1, focus |-> 0])
  /\ context = [open |-> FALSE, listens |-> FALSE] /\ editor = FALSE /\ connected = TRUE

\* A click that reaches the document, and what it closes there.
MenusClosed == [u \in UserMenus |-> IF menus[u].listens > 0 THEN ClosedMenu ELSE menus[u]]
PickerClosed == IF picker.listens > 0 THEN Hidden(picker) ELSE picker
ContextClosed == IF context.listens THEN [open |-> FALSE, listens |-> FALSE] ELSE context

ClickBeside ==
  /\ connected /\ menus' = MenusClosed /\ picker' = PickerClosed /\ context' = ContextClosed /\ editor' = FALSE
  /\ UNCHANGED connected

Escape ==
  /\ connected /\ menus' = MenusClosed /\ picker' = PickerClosed /\ context' = ContextClosed /\ editor' = FALSE
  /\ UNCHANGED connected

ScrollOrResize ==
  /\ connected /\ context' = ContextClosed /\ editor' = FALSE /\ UNCHANGED <<menus, picker, connected>>

\* Mutated: the other user menus stay open.
OthersStay(u) == menus
\* The event user-menu:close reaches the others.
OthersClosed(u) == [v \in UserMenus |-> IF v = u THEN menus[v] ELSE ClosedMenu]

Opened(m) == [m EXCEPT !.open = TRUE, !.listens = @ + 1]

\* toggle keeps its click from the document.
ToggleUserMenu(u) ==
  /\ connected
  /\ menus' = IF menus[u].open THEN [menus EXCEPT ![u] = ClosedMenu]
              ELSE [OthersClosed(u) EXCEPT ![u] = Opened(menus[u])]
  /\ UNCHANGED <<picker, context, editor, connected>>

\* A click within a user menu or the picker reaches the document.
ClickWithinMenu(u) ==
  /\ connected /\ menus[u].open
  /\ menus' = [MenusClosed EXCEPT ![u] = menus[u]] /\ picker' = PickerClosed
  /\ context' = ContextClosed /\ editor' = FALSE /\ UNCHANGED connected

-----------------------------------------------------------------------------
\* The picker.  Its own clicks do not reach the document, its Escape does.

TogglePicker ==
  /\ connected /\ picker' = IF picker.open THEN Hidden(picker) ELSE Shown(picker)
  /\ UNCHANGED <<menus, context, editor, connected>>

\* toggleKeydown: an arrow on the button opens the picker at what is selected;
\* the focus does not go to an option that is not visible.
ArrowOnButton ==
  /\ connected
  /\ LET p == Shown(picker)
     IN  picker' = [p EXCEPT !.focus = IF p.stop \in Visible(p) THEN p.stop ELSE 0]
  /\ UNCHANGED <<menus, context, editor, connected>>

\* panelKeydown: the arrows go around, Home and End to the ends.
ArrowInPanel ==
  /\ connected /\ picker.open
  /\ \E o \in Visible(picker) :
       /\ \/ picker.focus \notin Visible(picker)
          \/ o \in {Least(Visible(picker)), Most(Visible(picker))}
          \/ /\ o > picker.focus /\ \A v \in Visible(picker) : v <= picker.focus \/ v >= o
          \/ /\ o < picker.focus /\ \A v \in Visible(picker) : v >= picker.focus \/ v <= o
       /\ picker' = Focused(picker, o)
  /\ UNCHANGED <<menus, context, editor, connected>>

\* panelKeydown's own Escape closes a picker that does not listen, too, and goes
\* on to the document.
EscapeInPanel ==
  /\ connected /\ picker.open /\ picker' = Hidden(picker)
  /\ menus' = MenusClosed /\ context' = ContextClosed /\ editor' = FALSE /\ UNCHANGED connected

ToggleBranch(o) ==
  /\ connected /\ picker.open /\ o \in Visible(picker) /\ \E c \in Options : Below[c] = o
  /\ LET p == [picker EXCEPT !.unfolded = (@ \ {o}) \cup ({o} \ @)]
     IN  picker' = Refreshed([p EXCEPT !.focus = IF @ \in Visible(p) THEN @ ELSE 0])
  /\ UNCHANGED <<menus, context, editor, connected>>

Select(o) ==
  /\ connected /\ picker.open /\ o \in Visible(picker)
  /\ picker' = Hidden([picker EXCEPT !.selected = o, !.stop = o])
  /\ UNCHANGED <<menus, context, editor, connected>>

-----------------------------------------------------------------------------
\* The context menus: a right click reaches neither the document nor the others.

OpenContextMenu ==
  /\ connected /\ context' = [open |-> TRUE, listens |-> TRUE]
  /\ UNCHANGED <<menus, picker, editor, connected>>

OpenEditorMenu ==
  /\ connected /\ editor' = TRUE /\ UNCHANGED <<menus, picker, context, connected>>

-----------------------------------------------------------------------------
\* Turbo leaves the page: disconnect takes the listeners away, and the page goes
\* into the cache with what is open on it, but for the memo's context menu.
LeavePage ==
  /\ connected /\ connected' = FALSE
  /\ menus' = [u \in UserMenus |-> [menus[u] EXCEPT !.listens = 0, !.kept = @ \/ menus[u].open]]
  /\ picker' = [picker EXCEPT !.listens = 0, !.kept = @ \/ picker.open, !.focus = 0]
  /\ context' = [open |-> FALSE, listens |-> FALSE] /\ UNCHANGED editor

\* connect: refreshOptionTabindexes
RestorePage ==
  /\ ~connected /\ connected' = TRUE /\ picker' = Refreshed(picker)
  /\ UNCHANGED <<menus, context, editor>>

Next ==
  \/ ClickBeside \/ Escape \/ ScrollOrResize
  \/ \E u \in UserMenus : ToggleUserMenu(u) \/ ClickWithinMenu(u)
  \/ TogglePicker \/ ArrowOnButton \/ ArrowInPanel \/ EscapeInPanel
  \/ \E o \in Options : ToggleBranch(o) \/ Select(o)
  \/ OpenContextMenu \/ OpenEditorMenu \/ LeavePage \/ RestorePage

Spec == Init /\ [][Next]_vars

-----------------------------------------------------------------------------
\* Whatever is toggled, left and taken from the cache: a menu of a page that is
\* shown listens to the document once exactly while it is open, but for one that
\* came open out of the cache, which is deaf until it is closed (by its button,
\* or in the picker by its own Escape); one user menu is open at most.
ListenersFollowMenus ==
  /\ \A m \in {menus[u] : u \in UserMenus} \cup {picker} :
       /\ m.listens = IF connected /\ m.open /\ ~m.kept THEN 1 ELSE 0
       /\ m.kept => m.open
  /\ context.listens = context.open
  /\ Cardinality({u \in UserMenus : menus[u].open}) <= 1

\* The one tab stop of the picker's tree is an option that is shown, but when the
\* selected one is in a folded branch: then it is that one, and Tab reaches none
\* of the options (refreshOptionTabindexes, restoreInitialDetailsState).  The
\* focus is on none that is hidden.
TabStopIsThere ==
  picker.open =>
    /\ \/ picker.stop \in Visible(picker)
       \/ picker.selected \in Options \ Visible(picker) /\ picker.stop = picker.selected
    /\ picker.focus \in Visible(picker) \cup {0}
=============================================================================
