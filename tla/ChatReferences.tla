--------------------------- MODULE ChatReferences ---------------------------
(***************************************************************************)
(* The memos a chat refers to: the dialog that searches and chooses them,  *)
(* the chips below the conversation, and the copy the server keeps.  The   *)
(* page sends its list after every change once the conversation exists,    *)
(* and with every question; only the answer to the last list sent counts.  *)
(***************************************************************************)
EXTENDS Integers, Sequences, FiniteSets, SequencesExt

CONSTANTS
  Memos,
  Queries,            \* what a user looks for; "" is among them
  Found,              \* Found[q]: the memos the server lists
  Chars,              \* Chars[m]: the length of its body
  MaxRefs,            \* memos a chat may refer to (5)
  MaxBody, MaxTotal,  \* characters of one body, and of all, a question takes along
  MaxEdits, MaxCalls, MaxFaults   \* bounds of this model

ReferencesAssumption ==
  /\ "" \in Queries /\ Found \in [Queries -> Seq(Memos)] /\ Chars \in [Memos -> Nat]
  /\ {MaxRefs, MaxBody, MaxTotal, MaxEdits, MaxCalls, MaxFaults} \subseteq Nat

VARIABLES
  refs,      \* pendingMemoReferences
  dialog,    \* open; chosen; drawn: what was chosen when the boxes were drawn; results;
             \* field; timer
  searches,  \* searches not answered
  known,     \* the page knows its conversation
  version, saves, sync,   \* lists sent: the last one's number, those not answered, what is said of it
  turn,      \* the question under way
  stored,    \* the list the server keeps for the conversation
  alive,     \* memos that still exist
  doubt,     \* requests have crossed, or an answer was lost, since a list was last accepted alone
  edits, faults   \* counters

page == <<refs, known, version, saves, sync>>
vars == <<page, dialog, searches, turn, stored, alive, doubt, edits, faults>>

Lists == {l \in SeqOf(Memos, MaxRefs) : IsInjective(l)}
NoTurn == [stage |-> "none", ids |-> <<>>]
\* What the server makes of a list: the memos that exist, the first MaxRefs.
Resolve(l) == SelectSeq(l, LAMBDA m : m \in alive)

TypeOK ==
  /\ refs \in Lists /\ stored \in Lists /\ alive \subseteq Memos
  /\ dialog.open \in BOOLEAN /\ dialog.timer \in BOOLEAN /\ dialog.field \in Queries
  /\ {ToSet(dialog.chosen), ToSet(dialog.drawn), ToSet(dialog.results)} \subseteq SUBSET Memos
  /\ searches \in Seq(Queries) /\ {known, doubt} \subseteq BOOLEAN
  /\ \A s \in saves : s.version \in 1 .. version /\ s.ids \in Lists /\ s.got \in Lists
                      /\ s.result \in {"waiting", "ok", "refused"} /\ {s.here, s.alone} \subseteq BOOLEAN
  /\ sync \in {"none", "pending", "complete", "error"}
  /\ turn.stage \in {"none", "asked", "working"} /\ turn.ids \in Lists

\* An old conversation with its list, or a new one, opened from a memo or not.
Init ==
  /\ known \in BOOLEAN /\ refs \in Lists /\ (~known => Len(refs) <= 1)
  /\ stored = IF known THEN refs ELSE <<>>
  /\ dialog = [open |-> FALSE, chosen |-> <<>>, drawn |-> <<>>, results |-> <<>>,
               field |-> "", timer |-> FALSE]
  /\ searches = <<>> /\ version = 0 /\ saves = {} /\ sync = "none" /\ turn = NoTurn
  /\ alive = Memos /\ doubt = FALSE /\ edits = 0 /\ faults = 0

-----------------------------------------------------------------------------
\* The list and the server

Waiting == {s \in saves : s.result = "waiting"}
Alone == Waiting = {} /\ turn.stage # "asked"

\* Mutated: every answer is taken.
Whichever(s) == TRUE
IsLatest(s) == s.version = version

\* persistMemoReferences: nothing is sent before the conversation exists.
Persist(l) ==
  /\ refs' = l
  /\ IF ~known THEN UNCHANGED <<version, saves, sync, doubt>>
     ELSE /\ version' = version + 1 /\ sync' = "pending"
          /\ saves' = saves \cup {[version |-> version + 1, ids |-> l, got |-> <<>>,
                                   result |-> "waiting", here |-> TRUE, alone |-> Alone]}
          /\ doubt' = (doubt \/ ~Alone)

\* A chip's cross.
RemoveReference(i) ==
  /\ edits < MaxEdits /\ edits' = edits + 1 /\ Persist(RemoveAt(refs, i))
  /\ UNCHANGED <<known, dialog, searches, turn, stored, alive, faults>>

\* confirmMemoSelection: a chosen memo that is neither referred to nor listed
\* any more is left out.
Confirmed(chosen, results) ==
  LET known_ == SelectSeq(chosen, LAMBDA m : m \in ToSet(refs) \cup ToSet(results))
  IN  SubSeq(known_, 1, IF Len(known_) < MaxRefs THEN Len(known_) ELSE MaxRefs)

ConfirmSelection ==
  /\ dialog.open /\ dialog.drawn # <<>> /\ edits < MaxEdits /\ edits' = edits + 1
  /\ Persist(Confirmed(dialog.chosen, dialog.results))
  /\ dialog' = [dialog EXCEPT !.open = FALSE]
  /\ UNCHANGED <<known, searches, turn, stored, alive, faults>>

\* The server replaces the list and answers with what it has kept.
ServerSaves(s) ==
  /\ s.result = "waiting"
  /\ stored' = IF s.here THEN Resolve(s.ids) ELSE stored
  /\ saves' = (saves \ {s}) \cup {[s EXCEPT !.result = "ok", !.got = Resolve(s.ids)]}
  /\ UNCHANGED <<refs, known, version, sync, dialog, searches, turn, alive, doubt, faults, edits>>

ServerRefuses(s) ==
  /\ s.result = "waiting" /\ faults < MaxFaults /\ faults' = faults + 1
  /\ saves' = (saves \ {s}) \cup {[s EXCEPT !.result = "refused"]}
  /\ UNCHANGED <<refs, known, version, sync, dialog, searches, turn, stored, alive, doubt, edits>>

\* Only the answer to the last list counts.
Saved(s) ==
  /\ s.result # "waiting" /\ saves' = saves \ {s}
  /\ IF ~IsLatest(s) THEN UNCHANGED <<refs, sync, doubt>>
     ELSE IF s.result = "refused" THEN sync' = "error" /\ UNCHANGED <<refs, doubt>>
     ELSE /\ refs' = s.got /\ sync' = "complete"
          /\ doubt' = (doubt /\ ~s.alone)
  /\ UNCHANGED <<known, version, dialog, searches, turn, stored, alive, faults, edits>>

\* The network fails, before the server read the list or after.
SaveLost(s) ==
  /\ faults < MaxFaults /\ faults' = faults + 1 /\ saves' = saves \ {s}
  /\ sync' = IF IsLatest(s) THEN "error" ELSE sync
  /\ UNCHANGED <<refs, known, version, dialog, searches, turn, stored, alive, doubt, edits>>

-----------------------------------------------------------------------------
\* Questions

\* send: the list goes along; the chips stay.
Send ==
  /\ turn = NoTurn /\ turn' = [stage |-> "asked", ids |-> refs]
  /\ saves' = {[s EXCEPT !.alone = @ /\ s \notin Waiting] : s \in saves}
  /\ doubt' = (doubt \/ Waiting # {})
  /\ UNCHANGED <<refs, known, version, sync, dialog, searches, stored, alive, faults, edits>>

\* create: the conversation, new or not, refers to what the question brought.
ServerAsked ==
  /\ turn.stage = "asked" /\ turn' = [turn EXCEPT !.stage = "working"]
  /\ stored' = Resolve(turn.ids)
  /\ UNCHANGED <<page, dialog, searches, alive, doubt, faults, edits>>

\* The first event of the turn, or its answer, names the conversation.
TurnAnswered ==
  /\ turn.stage = "working" /\ turn' = NoTurn /\ known' = TRUE
  /\ doubt' = (doubt \/ ~known)
  /\ UNCHANGED <<refs, version, saves, sync, dialog, searches, stored, alive, faults, edits>>

TurnLost ==
  /\ turn # NoTurn /\ faults < MaxFaults /\ faults' = faults + 1 /\ turn' = NoTurn
  /\ UNCHANGED <<page, dialog, searches, stored, alive, doubt, edits>>

\* clearChat, when the conversation is new or could not be deleted: the lists
\* under way are the old conversation's.
ClearChat ==
  /\ faults < MaxFaults /\ faults' = faults + 1
  /\ refs' = <<>> /\ known' = FALSE
  /\ saves' = {[s EXCEPT !.here = FALSE, !.alone = FALSE] : s \in saves} /\ doubt' = TRUE
  /\ UNCHANGED <<version, sync, dialog, searches, turn, stored, alive, edits>>

\* Somewhere a memo is deleted.
Deleted(m) ==
  /\ m \in alive /\ faults < MaxFaults /\ faults' = faults + 1 /\ alive' = alive \ {m}
  /\ UNCHANGED <<page, dialog, searches, turn, stored, doubt, edits>>

-----------------------------------------------------------------------------
\* The dialog

\* openMemoPicker: what is referred to is chosen; every memo is asked for,
\* whatever the field still says, and the boxes of before stand until then.
OpenPicker ==
  /\ ~dialog.open /\ Len(searches) < MaxCalls /\ edits < MaxEdits /\ edits' = edits + 1
  /\ dialog' = [dialog EXCEPT !.open = TRUE, !.chosen = refs] /\ searches' = Append(searches, "")
  /\ UNCHANGED <<page, turn, stored, alive, doubt, faults>>

ClosePicker ==
  /\ dialog.open /\ dialog' = [dialog EXCEPT !.open = FALSE]
  /\ UNCHANGED <<page, searches, turn, stored, alive, doubt, faults, edits>>

SearchMemos(q) ==
  /\ dialog.open /\ dialog' = [dialog EXCEPT !.field = q, !.timer = TRUE]
  /\ UNCHANGED <<page, searches, turn, stored, alive, doubt, faults, edits>>

TimerFires ==
  /\ dialog.timer /\ Len(searches) < MaxCalls
  /\ dialog' = [dialog EXCEPT !.timer = FALSE] /\ searches' = Append(searches, dialog.field)
  /\ UNCHANGED <<page, turn, stored, alive, doubt, faults, edits>>

\* loadMemoReferences: answers come in any order, and each is listed.
Loaded(i) ==
  /\ searches' = RemoveAt(searches, i)
  /\ dialog' = [dialog EXCEPT !.results = Resolve(Found[searches[i]]), !.drawn = dialog.chosen]
  /\ UNCHANGED <<page, turn, stored, alive, doubt, faults, edits>>

LoadFails(i) ==
  /\ searches' = RemoveAt(searches, i)
  /\ UNCHANGED <<page, dialog, turn, stored, alive, doubt, faults, edits>>

\* A box can be clicked when it was drawn checked, or fewer than MaxRefs were.
Enabled(m) == m \in ToSet(dialog.drawn) \/ Len(dialog.drawn) < MaxRefs

\* A box: what it showed decides whether the memo is chosen or dropped.
Click(m) ==
  /\ dialog.open /\ m \in ToSet(dialog.results) /\ Enabled(m)
  /\ edits < MaxEdits /\ edits' = edits + 1
  /\ LET chosen == IF m \in ToSet(dialog.drawn)
                   THEN SelectSeq(dialog.chosen, LAMBDA n : n # m)
                   ELSE IF m \in ToSet(dialog.chosen) THEN dialog.chosen
                   ELSE Append(dialog.chosen, m)
     IN  dialog' = [dialog EXCEPT !.chosen = chosen, !.drawn = chosen]
  /\ UNCHANGED <<page, searches, turn, stored, alive, doubt, faults>>

-----------------------------------------------------------------------------
\* What a question takes along

Least(S) == CHOOSE n \in S : \A k \in S : n <= k
Sum(f, n) == FoldLeft(LAMBDA a, i : a + f[i], 0, [i \in 1 .. n |-> i])

\* Mutated: the limit of one body is forgotten.
WholeBodies(l, i) ==
  LET used == Sum([k \in 1 .. Len(l) |-> Chars[l[k]]], i - 1)
  IN  Least({Chars[l[i]], MaxBody, IF used > MaxTotal THEN 0 ELSE MaxTotal - used})
\* memoReferenceUsageLabel: the characters the chip says will go along.
Usage(l, i) ==
  LET used == Sum([k \in 1 .. Len(l) |-> Least({Chars[l[k]], MaxBody})], i - 1)
  IN  Least({Chars[l[i]], MaxBody, IF used > MaxTotal THEN 0 ELSE MaxTotal - used})

\* MemoReferences.resolve: each body takes from what those before have left.
Included(l) ==
  FoldLeft(LAMBDA a, m : LET n == Least({Chars[m], MaxBody, a.left})
                         IN  [left |-> a.left - n, parts |-> Append(a.parts, n)],
           [left |-> MaxTotal, parts |-> <<>>], l).parts

-----------------------------------------------------------------------------
Next ==
  \/ \E i \in DOMAIN refs : RemoveReference(i)
  \/ ConfirmSelection \/ OpenPicker \/ ClosePicker \/ TimerFires
  \/ \E q \in Queries : SearchMemos(q)
  \/ \E i \in DOMAIN searches : Loaded(i) \/ LoadFails(i)
  \/ \E m \in Memos : Click(m) \/ Deleted(m)
  \/ \E s \in saves : ServerSaves(s) \/ ServerRefuses(s) \/ Saved(s) \/ SaveLost(s)
  \/ Send \/ ServerAsked \/ TurnAnswered \/ TurnLost \/ ClearChat

Spec == Init /\ [][Next]_vars

-----------------------------------------------------------------------------
\* When the page says that its list is saved and nothing is under way that
\* could change it, the server refers to the same memos, save those that are
\* gone (persistMemoReferences, create).
SavedListIsServers ==
  known /\ sync = "complete" /\ saves = {} /\ turn = NoTurn /\ ~doubt
    => Resolve(refs) = Resolve(stored)

\* A chip says exactly how much of its memo the server will put into the
\* question (memoReferenceUsageLabel and MemoReferences.resolve count apart).
ChipsSayWhatIsSent == \A i \in DOMAIN refs : Usage(refs, i) = Included(refs)[i]
=============================================================================
