----------------------------- MODULE ChatTools -----------------------------
(***************************************************************************)
(* Which tools of the MCP server a chat may use: a choice kept in the      *)
(* browser, shown as boxes once the list of tools has been fetched, and    *)
(* taken along with every question.                                        *)
(***************************************************************************)
EXTENDS Integers, FiniteSets

CONSTANTS
  Tools,
  None,              \* no choice has been made
  MaxPages, MaxFaults  \* bounds of this model

ToolsAssumption == None \notin SUBSET Tools /\ {MaxPages, MaxFaults} \subseteq Nat

VARIABLES
  stored,    \* what the storage holds
  enabled,   \* enabledMcpTools
  offered,   \* the tools the server has
  boxes,     \* the boxes drawn: tools and those checked, none before the first list
  fetching,
  pages, faults   \* counters

vars == <<stored, enabled, offered, boxes, fetching, pages, faults>>

Choices == (SUBSET Tools) \cup {None}
NoBoxes == [drawn |-> {}, checked |-> {}]

TypeOK ==
  /\ {stored, enabled} \subseteq Choices
  /\ {offered, boxes.drawn} \subseteq SUBSET Tools /\ boxes.checked \subseteq boxes.drawn
  /\ fetching \in BOOLEAN

\* connect: the stored choice is read, and the list asked for where the
\* server is configured.
Init ==
  /\ stored \in Choices /\ enabled = stored /\ offered \in SUBSET Tools
  /\ boxes = NoBoxes /\ fetching \in BOOLEAN
  /\ pages = 0 /\ faults = 0

Reload ==
  /\ pages < MaxPages /\ pages' = pages + 1
  /\ enabled' = stored /\ boxes' = NoBoxes /\ fetching' \in BOOLEAN
  /\ UNCHANGED <<stored, offered, faults>>

\* writeEnabledMcpTools
Write(tools) == enabled' = tools /\ stored' = tools

Fetch ==
  /\ ~fetching /\ fetching' = TRUE
  /\ UNCHANGED <<stored, enabled, offered, boxes, pages, faults>>

\* Mutated: tools that are gone stay enabled.
Unpruned(tools) == enabled
\* pruneUnavailableMcpTools
Pruned(tools) == IF enabled = None \/ tools = {} THEN enabled ELSE enabled \cap tools

\* The list comes: tools that are gone are dropped, and the boxes drawn; with
\* no choice made yet, all are chosen.  An empty list draws no box.
Fetched ==
  LET kept == Pruned(offered)
      choice == IF kept = None /\ offered # {} THEN offered ELSE kept
  IN  /\ fetching /\ fetching' = FALSE
      /\ Write(choice)
      /\ boxes' = IF offered = {} THEN NoBoxes
                  ELSE [drawn |-> offered, checked |-> choice \cap offered]
      /\ UNCHANGED <<offered, pages, faults>>

FetchFails ==
  /\ fetching /\ faults < MaxFaults /\ faults' = faults + 1 /\ fetching' = FALSE
  /\ UNCHANGED <<stored, enabled, offered, boxes, pages>>

\* A box: all boxes are read.
Click(t) ==
  LET checked == IF t \in boxes.checked THEN boxes.checked \ {t} ELSE boxes.checked \cup {t}
  IN  /\ t \in boxes.drawn /\ boxes' = [boxes EXCEPT !.checked = checked] /\ Write(checked)
      /\ UNCHANGED <<offered, fetching, pages, faults>>

\* send reads the boxes too, drawn or not.
Send ==
  /\ Write(boxes.checked)
  /\ UNCHANGED <<offered, boxes, fetching, pages, faults>>

\* The server gains or loses tools.
Offers(tools) ==
  /\ faults < MaxFaults /\ faults' = faults + 1 /\ offered' = tools
  /\ UNCHANGED <<stored, enabled, boxes, fetching, pages>>

Next ==
  \/ Reload \/ Fetch \/ Fetched \/ FetchFails \/ Send
  \/ \E t \in Tools : Click(t)
  \/ \E tools \in SUBSET Tools : Offers(tools)

Spec == Init /\ [][Next]_vars

-----------------------------------------------------------------------------
\* Once boxes are drawn they show the choice that is stored and that the next
\* question will carry, whatever was dropped from the list or chosen before
\* (pruneUnavailableMcpTools, renderMcpToolsList, syncEnabledMcpTools, send).
BoxesShowChoice == boxes.drawn # {} => boxes.checked = enabled /\ enabled = stored
=============================================================================
