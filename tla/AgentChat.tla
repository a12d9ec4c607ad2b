------------------------------ MODULE AgentChat ------------------------------
(***************************************************************************)
(* agent_chat_controller.js: the turns of the chat page.  A question goes  *)
(* out as one POST; its answer comes back twice, over ActionCable as the   *)
(* event turn_finalized and as the response of the POST, in either order.  *)
(* An answer may leave a picture being generated: the page polls for it    *)
(* and adds what it gets to the answer it watches for.  The server side    *)
(* (agent_chats_controller.rb, UiBroadcaster) is kept to what it sends.    *)
(***************************************************************************)
EXTENDS Integers, FiniteSets, Sequences

CONSTANTS
  Histories,              \* the conversations the page may be opened with
  MaxTurns, MaxAttempts,  \* questions asked; polls of one watch (100 in the code)
  MaxExtras               \* lost requests and events, presses of the other buttons

Turns == 1 .. MaxTurns
None == 0
Urls == {"draft", "final", "link"}
Statuses == {"none", "drafting", "awaiting", "refining", "completed", "failed"}

\* One message: of which turn it is, its pictures and the watch it carries.
Entries == [role : {"user", "assistant"}, turn : Turns \cup {None},
            images : SUBSET Urls, status : Statuses]

ASSUME HistoriesAssumption == Histories \subseteq Seq(Entries)
ASSUME BoundAssumption ==
  /\ MaxTurns \in Nat \ {0} /\ MaxAttempts \in Nat \ {0}
  /\ MaxExtras \in Nat

VARIABLES
  page,      \* the controller's fields
  server,    \* turn -> how far the server is with it, and the events it sent
  cable,     \* turn -> its events on their way, in order
  calls,     \* requests on their way and their answers
  gen,       \* the picture at the image service
  faults, clears, refines, answers   \* counters; answers: pushed by finalizing

vars == <<page, server, cable, calls, gen, faults, clears, refines, answers>>

Events == [type : {"started", "step", "final", "error"}, seq : Nat, watch : Statuses]
Replies == {"waiting", "ok", "refused", "lost"}
Calls == [kind : {"chat"}, turn : Turns, reply : Replies, watch : Statuses]
         \cup [kind : {"poll"}, n : 1 .. MaxAttempts]
         \cup [kind : {"refine"}, index : Nat, clears : Nat]
         \cup [kind : {"clear"}]

Pages == [history : Seq(Entries), active : Turns \cup {None}, lastSeq : Nat,
          finalized : BOOLEAN, sending : BOOLEAN, conversation : BOOLEAN,
          panel : Turns \cup {None}, shown : SUBSET Turns,
          timer : BOOLEAN, attempts : 0 .. MaxAttempts, watched : Nat]

TypeOK ==
  /\ page \in Pages
  /\ server \in [Turns -> [stage : {"idle", "asked", "working", "done"}, seq : Nat]]
  /\ cable \in [Turns -> Seq(Events)]
  /\ calls \subseteq Calls
  /\ gen \in Statuses
  /\ {faults, clears, refines, answers} \subseteq Nat

Extras == faults + clears + refines
Asked == Cardinality({t \in Turns : server[t].stage # "idle"})

-----------------------------------------------------------------------------
\* The picture watch

\* stopImageGenerationWatch: polls already on their way are not called back.
StopWatch(p) == [p EXCEPT !.timer = FALSE, !.watched = None]

\* startImageGenerationWatch; the first poll goes out at once.
StartWatch(p, index) ==
  [p EXCEPT !.timer = TRUE, !.attempts = 1,
            !.watched = IF index = None THEN Len(p.history) ELSE index]
FirstPoll == [kind |-> "poll", n |-> 1]

\* updateImageGenerationEntry: drafts give way only when the entry itself was
\* still waiting for a choice.
Updated(entry, urls, status) ==
  LET base == IF entry.status = "awaiting" /\ status # "awaiting" THEN {} ELSE entry.images
  IN  [entry EXCEPT !.images = IF urls = {} THEN @ ELSE base \cup urls, !.status = status]

IsAnswer(p, index) == index \in 1 .. Len(p.history) /\ p.history[index].role = "assistant"

\* appendGeneratedImagesToAssistant: without a watched entry, the last one.
WithImages(p, urls, status) ==
  LET index == IF p.watched = None THEN Len(p.history) ELSE p.watched
  IN  IF IsAnswer(p, index)
      THEN [p EXCEPT !.history[index] =
              Updated(@, urls, IF status = "none" THEN @.status ELSE status)]
      ELSE p

\* The answers that still lack their picture, and the last of them, or None.
Unfinished(history) == {i \in 1 .. Len(history) : /\ history[i].role = "assistant"
                                                  /\ history[i].status # "none"
                                                  /\ history[i].images = {}}
IsLastUnfinished(history, i) ==
  i \in Unfinished(history) \cup {None} /\ \A j \in Unfinished(history) : j <= i

\* resumeImageGenerationWatches, for the last unfinished answer i.
Resumed(p, i) == IF i = None THEN p ELSE StartWatch(p, i)

-----------------------------------------------------------------------------
\* Turns

StopTracker(p) == [p EXCEPT !.panel = None, !.shown = {}]

\* Mutated: that the turn has its answer is forgotten.
NeverFinal(p) == FALSE
AlreadyFinal(p) == p.finalized

Answer(t, watch) == [role |-> "assistant", turn |-> t, images |-> {}, status |-> watch]

\* finalizeAssistantTurn: the payload becomes the last message.
Finalize(p, t, watch) ==
  LET said == [StopTracker(p) EXCEPT
                 !.conversation = TRUE, !.history = Append(@, Answer(t, watch)),
                 !.finalized = TRUE, !.active = None, !.sending = FALSE]
  IN  IF AlreadyFinal(p) THEN p
      ELSE IF watch = "none" THEN said ELSE StartWatch(said, Len(said.history))

NewPage(history) ==
  [history |-> history, active |-> None, lastSeq |-> 0, finalized |-> FALSE,
   sending |-> FALSE, conversation |-> history # <<>>, panel |-> None, shown |-> {},
   timer |-> FALSE, attempts |-> 0, watched |-> None]

Init ==
  \E h \in Histories : \E i \in 0 .. Len(h) :
    /\ IsLastUnfinished(h, i)
    /\ page = Resumed(NewPage(h), i)
    /\ calls = IF i # None THEN {FirstPoll} ELSE {}
    /\ gen = IF i # None THEN "drafting" ELSE "none"
    /\ server = [t \in Turns |-> [stage |-> "idle", seq |-> 0]]
    /\ cable = [t \in Turns |-> <<>>]
    /\ faults = 0 /\ clears = 0 /\ refines = 0 /\ answers = 0

\* send, up to its fetch.
Send(t) ==
  /\ ~page.sending
  /\ server[t].stage = "idle" /\ \A u \in 1 .. t - 1 : server[u].stage # "idle"
  /\ page' = [StopWatch(StopTracker(page)) EXCEPT
                !.history = Append(@, [role |-> "user", turn |-> t, images |-> {},
                                       status |-> "none"]),
                !.sending = TRUE, !.panel = t, !.active = t, !.lastSeq = 0,
                !.finalized = FALSE]
  /\ server' = [server EXCEPT ![t].stage = "asked"]
  /\ calls' = calls \cup {[kind |-> "chat", turn |-> t, reply |-> "waiting", watch |-> "none"]}
  /\ UNCHANGED <<cable, gen, faults, clears, refines, answers>>

ChatCall(t) == {c \in calls : c.kind = "chat" /\ c.turn = t}

\* UiBroadcaster: the events of a turn are numbered.
Broadcast(t, types, watch, stage) ==
  /\ server' = [server EXCEPT ![t] = [stage |-> stage, seq |-> @.seq + Len(types)]]
  /\ cable' = [cable EXCEPT ![t] =
       @ \o [i \in 1 .. Len(types) |->
               [type |-> types[i], seq |-> server[t].seq + i, watch |-> watch]]]

ServerStarts(t) ==
  /\ server[t].stage = "asked"
  /\ Broadcast(t, <<"started", "step">>, "none", "working")
  /\ UNCHANGED <<page, calls, gen, faults, clears, refines, answers>>

\* create: an answer, with or without a picture to wait for, or an error; sent
\* over the cable and as the response, unless the page stopped waiting for that.
ServerEnds(t, ok, watch) ==
  /\ server[t].stage = "working"
  /\ watch # "none" => ok /\ gen = "none" /\ watch = "drafting"
  /\ Broadcast(t, <<IF ok THEN "final" ELSE "error">>, watch, "done")
  /\ calls' = (calls \ ChatCall(t)) \cup
       {[c EXCEPT !.reply = IF @ = "lost" THEN @ ELSE IF ok THEN "ok" ELSE "refused",
                  !.watch = watch] : c \in ChatCall(t)}
  /\ gen' = IF watch = "none" THEN gen ELSE watch
  /\ UNCHANGED <<page, faults, clears, refines, answers>>

\* Mutated: an event of any turn is taken while one is active.
TracksAny(t) == page.active # None
Tracks(t) == page.active = t

\* receivedCable.
Heard(t, e) ==
  LET p == [page EXCEPT !.lastSeq = e.seq]
  IN  CASE e.type = "started" -> [p EXCEPT !.conversation = TRUE]
        [] e.type = "step" -> [p EXCEPT !.shown = IF p.panel = None THEN @ ELSE @ \cup {t}]
        [] e.type = "final" -> Finalize(p, t, e.watch)
        [] e.type = "error" -> [StopTracker(p) EXCEPT
                                  !.active = None, !.finalized = FALSE, !.sending = FALSE]

\* A poll that a finalized turn starts, and the answer it counts.
Polls(p) == IF p.timer /\ ~page.timer THEN {FirstPoll} ELSE {}
Counted(p) == IF Len(p.history) > Len(page.history) THEN answers + 1 ELSE answers

ReceiveEvent(t) ==
  LET e == Head(cable[t])
      p == IF Tracks(t) /\ e.seq > page.lastSeq THEN Heard(t, e) ELSE page
  IN  /\ cable[t] # <<>>
      /\ cable' = [cable EXCEPT ![t] = Tail(@)]
      /\ page' = p
      /\ calls' = calls \cup Polls(p)
      /\ answers' = Counted(p)
      /\ UNCHANGED <<server, gen, faults, clears, refines>>

\* A reconnecting consumer misses events.
LoseEvent(t) ==
  /\ cable[t] # <<>> /\ Extras < MaxExtras
  /\ cable' = [cable EXCEPT ![t] = Tail(@)] /\ faults' = faults + 1
  /\ UNCHANGED <<page, server, calls, gen, clears, refines, answers>>

\* The connection of a request breaks; the server goes on with it.
LoseCall(c) ==
  /\ c.kind = "chat" /\ c.reply # "lost" /\ Extras < MaxExtras
  /\ calls' = (calls \ {c}) \cup {[c EXCEPT !.reply = "lost"]} /\ faults' = faults + 1
  /\ UNCHANGED <<page, server, cable, gen, clears, refines, answers>>

\* The activity panel goes with a refused turn.
RefusedPanel(p) == StopTracker(p)

\* Mutated: only a finished turn gives the button back.
EndedIfFinal(p) == [p EXCEPT !.sending = ~p.finalized]
Ended(p) == [p EXCEPT !.sending = FALSE]

\* send, from the answer of its fetch on.
Responded(c) ==
  LET p == CASE c.reply = "ok" /\ AlreadyFinal(page) -> [page EXCEPT !.conversation = TRUE]
             [] c.reply = "ok" /\ ~AlreadyFinal(page) -> Finalize(page, c.turn, c.watch)
             [] c.reply = "refused" ->
                  IF AlreadyFinal(page) THEN page ELSE RefusedPanel(page)
             [] c.reply = "lost" -> [StopTracker(page) EXCEPT !.active = None]
  IN  Ended(p)

Respond(c) ==
  /\ c.kind = "chat" /\ c.reply # "waiting"
  /\ page' = Responded(c)
  /\ calls' = (calls \ {c}) \cup Polls(Responded(c))
  /\ answers' = Counted(Responded(c))
  /\ UNCHANGED <<server, cable, gen, faults, clears, refines>>

-----------------------------------------------------------------------------
\* Clearing the conversation

\* What clearChat does to the page itself; turnFinalized, sending and the watch
\* are left as they are.
Cleared(p) ==
  [StopTracker(p) EXCEPT !.history = <<>>, !.conversation = FALSE, !.active = None]

ClearChat ==
  /\ Extras < MaxExtras /\ clears' = clears + 1
  /\ IF page.conversation
     THEN calls' = calls \cup {[kind |-> "clear"]} /\ page' = page
     ELSE calls' = calls /\ page' = Cleared(page)
  /\ UNCHANGED <<server, cable, gen, faults, refines, answers>>

\* Deleted: a new page is opened and nothing of this one arrives any more.  Not
\* deleted: the page is emptied all the same.
ClearAnswered(deleted) ==
  /\ [kind |-> "clear"] \in calls
  /\ IF deleted
     THEN /\ page' = NewPage(<<>>) /\ calls' = {}
          /\ cable' = [t \in Turns |-> <<>>]
     ELSE /\ page' = Cleared(page) /\ calls' = calls \ {[kind |-> "clear"]}
          /\ UNCHANGED cable
  /\ UNCHANGED <<server, gen, faults, clears, refines, answers>>

-----------------------------------------------------------------------------
\* Pictures

\* The image service draws drafts, waits for a choice, and finishes or fails.
Draw(status) ==
  /\ \/ gen = "drafting" /\ status \in {"awaiting", "failed"}
     \/ gen = "refining" /\ status \in {"completed", "failed"}
  /\ gen' = status
  /\ UNCHANGED <<page, server, cable, calls, faults, clears, refines, answers>>

\* Mutated: polls are not counted.
Uncounted(n) == n
Counting(n) == n + 1

\* Mutated: one poll too many.
PastLast(n) == n > MaxAttempts
LastPoll(n) == n = MaxAttempts

\* The interval fires.
Poll ==
  /\ page.timer
  /\ IF LastPoll(page.attempts)
     THEN page' = StopWatch(page) /\ calls' = calls
     ELSE /\ page' = [page EXCEPT !.attempts = Counting(@)]
          /\ calls' = calls \cup {[kind |-> "poll", n |-> Counting(page.attempts)]}
  /\ UNCHANGED <<server, cable, gen, faults, clears, refines, answers>>

UrlsOf(status) ==
  CASE status = "awaiting" -> {"draft"} [] status = "completed" -> {"final"} [] OTHER -> {}

\* A poll is answered: pictures or a link end the watch of the day.
PollAnswered(c, ok) ==
  /\ c.kind = "poll"
  /\ calls' = calls \ {c}
  /\ page' = IF ~ok \/ gen \in {"drafting", "refining"} THEN page
             ELSE IF gen = "failed" THEN StopWatch(WithImages(page, {"link"}, "none"))
             ELSE StopWatch(WithImages(page, UrlsOf(gen), gen))
  /\ UNCHANGED <<server, cable, gen, faults, clears, refines, answers>>

\* refineImageDraft, up to its fetch.
Refine(i) ==
  /\ Extras < MaxExtras /\ refines' = refines + 1
  /\ IsAnswer(page, i) /\ page.history[i].status = "awaiting"
  /\ "draft" \in page.history[i].images
  /\ page' = [page EXCEPT !.history[i].status = "refining"]
  /\ calls' = calls \cup {[kind |-> "refine", index |-> i, clears |-> clears]}
  /\ UNCHANGED <<server, cable, gen, faults, clears, answers>>

\* The service takes the choice or refuses it.
RefineAnswered(c, ok) ==
  LET seen == c.index \in 1 .. Len(page.history) /\ c.clears = clears
      p == IF seen THEN [page EXCEPT !.history[c.index] = Updated(@, {}, "refining")] ELSE page
  IN  /\ c.kind = "refine"
      /\ ok => gen = "awaiting"
      /\ gen' = IF ok THEN "refining" ELSE gen
      /\ page' = IF ok THEN StartWatch(p, c.index) ELSE page
      /\ calls' = (calls \ {c}) \cup (IF ok THEN {FirstPoll} ELSE {})
      /\ UNCHANGED <<server, cable, faults, clears, refines, answers>>

-----------------------------------------------------------------------------
Next ==
  \/ \E t \in Turns : \/ Send(t) \/ ServerStarts(t) \/ ReceiveEvent(t) \/ LoseEvent(t)
                      \/ \E ok \in BOOLEAN, w \in {"none", "drafting"} : ServerEnds(t, ok, w)
  \/ \E c \in calls : \/ LoseCall(c) \/ Respond(c)
                      \/ \E ok \in BOOLEAN : PollAnswered(c, ok) \/ RefineAnswered(c, ok)
  \/ ClearChat \/ \E deleted \in BOOLEAN : ClearAnswered(deleted)
  \/ \E status \in {"awaiting", "completed", "failed"} : Draw(status)
  \/ Poll
  \/ \E i \in 1 .. Len(page.history) : Refine(i)

Spec == Init /\ [][Next]_vars

\* The server ends what it starts, the browser gets or loses every answer, and
\* the interval fires.
FairSpec ==
  /\ Spec
  /\ \A t \in Turns : /\ WF_vars(ServerStarts(t)) /\ WF_vars(ReceiveEvent(t))
                      /\ WF_vars(\E ok \in BOOLEAN : ServerEnds(t, ok, "none"))
                      /\ WF_vars(\E c \in calls : Respond(c) /\ c.turn = t)
  /\ WF_vars(\E d \in BOOLEAN : ClearAnswered(d))
  /\ WF_vars(Poll)
  /\ WF_vars(\E c \in calls, ok \in BOOLEAN : PollAnswered(c, ok))

-----------------------------------------------------------------------------
\* A question gets at most one answer, although the cable and the response both
\* bring it and an answer of an earlier turn may come in between.
OneAnswerPerQuestion == answers <= Asked

\* The activity panel is there only while a question is being sent, and shows no
\* step of another turn, such as one whose connection broke and that goes on.
PanelShowsItsTurn ==
  /\ page.panel # None => page.sending
  /\ page.shown \subseteq {page.panel}

\* The page never stays in "sending": every way a turn can end gives the button
\* back.
SendingEnds == page.sending ~> ~page.sending

\* Polling ends, whatever the image service answers.
PollingEnds == []<>(~page.timer)
=============================================================================
