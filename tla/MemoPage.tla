------------------------------ MODULE MemoPage ------------------------------
(***************************************************************************)
(* The tags, the directory and the checklist of a memo that is shown, not  *)
(* edited.  Each change appears at once and is sent; a refused or failed   *)
(* one is taken back to what was there before it, a successful one         *)
(* replaces the whole content by what the server renders.  Requests may    *)
(* overlap, and answers come in any order.                                 *)
(***************************************************************************)
EXTENDS Integers, FiniteSets

CONSTANTS
  Tags,
  Lower,          \* Lower[t]: a tag's name without regard to case
  Boxes,          \* the checklist's marks
  Directories,
  MaxCalls, MaxFaults   \* bounds of this model

PageAssumption == Lower \in [Tags -> Tags] /\ MaxCalls \in Nat /\ MaxFaults \in Nat

VARIABLES
  server,   \* the memo as the server has it
  page,     \* what is shown, what it takes for saved, and which rendering it is
  calls,    \* requests sent and not answered
  sent, faults,   \* how many so far
  doubt     \* requests have crossed, or an answer was lost, since the last
            \* success of a request that was alone

vars == <<server, page, calls, sent, faults, doubt>>

Memo == [tags : SUBSET Tags, dir : Directories, checks : SUBSET Boxes]
Distinct(tags) == \A t, u \in tags : Lower[t] = Lower[u] => t = u

TypeOK ==
  /\ server \in Memo
  /\ page \in [shown : Memo, savedTags : SUBSET Tags, savedDir : Directories, gen : Nat]
  /\ Distinct(server.tags) /\ Distinct(page.shown.tags)
  /\ \A c \in calls : /\ c.kind \in {"tags", "dir", "check"} /\ c.gen <= page.gen
                      /\ c.stage \in {"sent", "ok", "failed"} /\ c.seen \in Memo
  /\ sent \in Nat /\ faults \in Nat /\ doubt \in BOOLEAN

\* connect: what the page was rendered with is what it takes for saved.
Fresh(m, n) == [shown |-> m, savedTags |-> m.tags, savedDir |-> m.dir, gen |-> n]

Init ==
  /\ server \in {m \in Memo : Distinct(m.tags)}
  /\ page = Fresh(server, 0) /\ calls = {} /\ sent = 0 /\ faults = 0 /\ doubt = FALSE

-----------------------------------------------------------------------------
\* Changes

\* A request goes out; those under way are no longer alone.
Send(c) ==
  /\ sent < MaxCalls /\ sent' = sent + 1
  /\ calls' = {[d EXCEPT !.alone = FALSE] : d \in calls}
                \cup {[kind |-> c.kind, what |-> c, n |-> sent, gen |-> page.gen, stage |-> "sent",
                       alone |-> calls = {}, seen |-> server]}
  /\ doubt' = (doubt \/ calls # {})
  /\ UNCHANGED <<server, faults>>

\* Mutated: what is shown by now is what a failure goes back to.
ShownTags(tags) == tags
\* persistTags keeps the last tags the server has taken.
SavedTags(tags) == page.savedTags

\* applyTags.
ApplyTags(tags) ==
  /\ page' = [page EXCEPT !.shown.tags = tags]
  /\ Send([kind |-> "tags", new |-> tags, old |-> SavedTags(tags)])

\* commitTagInput: a tag that is there already is not added again.
AddTag(t) ==
  /\ \A u \in page.shown.tags : Lower[u] # Lower[t]
  /\ ApplyTags(page.shown.tags \cup {t})

\* removeTagAt and removeLastTag.
RemoveTag(t) == t \in page.shown.tags /\ ApplyTags(page.shown.tags \ {t})

\* The picker has put a directory in the input; the one last saved is not sent.
ChooseDirectory(d) ==
  /\ d # page.shown.dir
  /\ page' = [page EXCEPT !.shown.dir = d]
  /\ IF d = page.savedDir
     THEN UNCHANGED <<server, calls, sent, faults, doubt>>
     ELSE Send([kind |-> "dir", old |-> page.savedDir])

Flip(checks, box) == IF box \in checks THEN checks \ {box} ELSE checks \cup {box}
Mark(checks, box, on) == IF on THEN checks \cup {box} ELSE checks \ {box}

Toggle(box) ==
  /\ page' = [page EXCEPT !.shown.checks = Flip(@, box)]
  /\ Send([kind |-> "check", box |-> box, on |-> box \notin page.shown.checks])

-----------------------------------------------------------------------------
\* The server

\* The memo after a request.
Taken(m, what) ==
  CASE what.kind = "tags" -> [m EXCEPT !.tags = what.new]
    [] what.kind = "check" -> [m EXCEPT !.checks = Mark(@, what.box, what.on)]

\* A directory is never taken: it follows from the day a memo was made.  Nor is
\* an empty list of tags, which counts as a missing parameter.
Takes(what) == what.kind # "dir" /\ (what.kind = "tags" => what.new # {})

Becomes(c, stage, seen) ==
  calls' = (calls \ {c}) \cup {[c EXCEPT !.stage = stage, !.seen = seen]}

Execute(c) ==
  /\ c.stage = "sent"
  /\ IF Takes(c.what)
     THEN server' = Taken(server, c.what) /\ Becomes(c, "ok", server')
     ELSE UNCHANGED server /\ Becomes(c, "failed", server)
  /\ UNCHANGED <<page, sent, faults, doubt>>

\* A request, or the answer to it, is lost.
NetworkFails(c) ==
  /\ c.stage \in {"sent", "ok"} /\ faults < MaxFaults /\ faults' = faults + 1
  /\ Becomes(c, "failed", c.seen)
  /\ doubt' = (doubt \/ c.stage = "ok")
  /\ UNCHANGED <<server, page, sent>>

\* Another page of the memo is at work.
Elsewhere(t) ==
  /\ faults < MaxFaults /\ faults' = faults + 1
  /\ server' = [server EXCEPT !.tags = {u \in @ : Lower[u] # Lower[t]} \cup {t}]
  /\ calls' = {[c EXCEPT !.alone = FALSE] : c \in calls}
  /\ doubt' = TRUE
  /\ UNCHANGED <<page, sent>>

-----------------------------------------------------------------------------
\* Answers

\* Mutated: the content stays, only what counts as saved is new.
KeptContent(c) == [page EXCEPT !.savedTags = c.seen.tags]
\* The stream replaces the content, and a new controller connects.
NewContent(c) == Fresh(c.seen, page.gen + 1)

Succeeded(c) ==
  /\ c.stage = "ok"
  /\ page' = NewContent(c)
  /\ calls' = calls \ {c} /\ doubt' = (doubt /\ ~c.alone)
  /\ UNCHANGED <<server, sent, faults>>

\* revertTags, revertDirectory and the mark of a checklist.
Reverted(shown, what) ==
  CASE what.kind = "tags" -> [shown EXCEPT !.tags = what.old]
    [] what.kind = "dir" -> [shown EXCEPT !.dir = what.old]
    [] what.kind = "check" -> [shown EXCEPT !.checks = Mark(@, what.box, ~what.on)]

\* A failure is taken back, on the page the change was made on.
Failed(c) ==
  /\ c.stage = "failed"
  /\ page' = IF c.gen = page.gen THEN [page EXCEPT !.shown = Reverted(@, c.what)] ELSE page
  /\ calls' = calls \ {c}
  /\ UNCHANGED <<server, sent, faults, doubt>>

Next ==
  \/ \E t \in Tags : AddTag(t) \/ RemoveTag(t) \/ Elsewhere(t)
  \/ \E d \in Directories : ChooseDirectory(d)
  \/ \E box \in Boxes : Toggle(box)
  \/ \E c \in calls : Execute(c) \/ NetworkFails(c) \/ Succeeded(c) \/ Failed(c)

Spec == Init /\ [][Next]_vars

-----------------------------------------------------------------------------
\* When nothing is under way the page shows what the server has, refusals and
\* failures included; overlapping requests and lost answers may leave it behind,
\* and then the next successful change puts all of it right.
PageShowsServer == calls = {} /\ ~doubt => page.shown = server
=============================================================================
