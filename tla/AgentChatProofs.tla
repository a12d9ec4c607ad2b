--------------------------- MODULE AgentChatProofs ---------------------------
(***************************************************************************)
(* Proofs about the chat page, for any number of turns, polls and faults,  *)
(* and about the choice of its tools, for any values of its constants.     *)
(***************************************************************************)
EXTENDS AgentChat, FiniteSetTheorems, SequenceTheorems, TLAPS

CONSTANTS Tools, NoTools, MaxPages, MaxToolFaults   \* of the choice of tools

VARIABLES stored, enabled, offered, boxes, fetching, pages, toolFaults

Choice == INSTANCE ChatTools WITH None <- NoTools, MaxFaults <- MaxToolFaults, faults <- toolFaults

-----------------------------------------------------------------------------
\* What the controller's helpers return

\* The fields of a page that say how far its turn is, and how much was said.
SameTurn(p, q) ==
  /\ q.active = p.active /\ q.finalized = p.finalized /\ q.sending = p.sending
  /\ q.panel = p.panel /\ q.shown = p.shown /\ Len(q.history) = Len(p.history)

\* A watch that stops changes nothing of the turn.
LEMMA StopWatchKeeps ==
  ASSUME NEW p \in Pages PROVE StopWatch(p) \in Pages /\ SameTurn(p, StopWatch(p))
BY DEF Pages, StopWatch, SameTurn, None

\* Neither does one that starts.
LEMMA StartWatchKeeps ==
  ASSUME NEW p \in Pages, NEW i \in Nat
  PROVE  StartWatch(p, i) \in Pages /\ SameTurn(p, StartWatch(p, i))
<1>1. 1 \in 0 .. MaxAttempts /\ Len(p.history) \in Nat
  BY BoundAssumption DEF Pages
<1> QED BY <1>1 DEF Pages, StartWatch, SameTurn, None

\* A message that gets pictures is a message.
LEMMA UpdatedType ==
  ASSUME NEW e \in Entries, NEW urls \in SUBSET Urls, NEW s \in Statuses
  PROVE  Updated(e, urls, s) \in Entries
BY DEF Entries, Updated

\* Pictures added to an answer leave the turn alone.
LEMMA WithImagesKeeps ==
  ASSUME NEW p \in Pages, NEW urls \in SUBSET Urls, NEW s \in Statuses
  PROVE  WithImages(p, urls, s) \in Pages /\ SameTurn(p, WithImages(p, urls, s))
<1> DEFINE index == IF p.watched = None THEN Len(p.history) ELSE p.watched
           entry == Updated(p.history[index], urls, IF s = "none" THEN p.history[index].status ELSE s)
<1>1. CASE IsAnswer(p, index)
  <2>1. p.history \in Seq(Entries) /\ index \in 1 .. Len(p.history)
    BY <1>1 DEF Pages, IsAnswer
  <2>2. p.history[index] \in Entries
    BY <2>1
  <2>3. p.history[index].status \in Statuses
    BY <2>2 DEF Entries
  <2>4. entry \in Entries
    BY <2>2, <2>3, UpdatedType
  <2> DEFINE h == [p.history EXCEPT ![index] = entry]
  <2>5. h \in Seq(Entries) /\ Len(h) = Len(p.history)
    BY <2>1, <2>4, ExceptSeq
  <2>6. WithImages(p, urls, s) = [p EXCEPT !.history = h]
    BY <1>1 DEF WithImages
  <2> HIDE DEF h
  <2> QED BY <2>5, <2>6 DEF Pages, SameTurn
<1>2. CASE ~IsAnswer(p, index)
  BY <1>2 DEF WithImages, SameTurn
<1> QED BY <1>1, <1>2

\* The panel of steps goes, the rest stays.
LEMMA StopTrackerFields ==
  ASSUME NEW p \in Pages
  PROVE  /\ StopTracker(p) \in Pages
         /\ StopTracker(p).panel = None /\ StopTracker(p).shown = {}
         /\ StopTracker(p).active = p.active /\ StopTracker(p).finalized = p.finalized
         /\ StopTracker(p).sending = p.sending /\ StopTracker(p).history = p.history
BY DEF Pages, StopTracker, None

\* Finalizing says one thing more and ends the turn, unless that has been done.
LEMMA FinalizeFields ==
  ASSUME NEW p \in Pages, NEW t \in Turns, NEW watch \in Statuses
  PROVE  LET q == Finalize(p, t, watch)
         IN  /\ q \in Pages
             /\ p.finalized => q = p
             /\ ~p.finalized => /\ q.active = None /\ q.finalized /\ ~q.sending
                                /\ q.panel = None /\ q.shown = {}
                                /\ Len(q.history) = Len(p.history) + 1
<1> DEFINE said == [StopTracker(p) EXCEPT
                      !.conversation = TRUE, !.history = Append(@, Answer(t, watch)),
                      !.finalized = TRUE, !.active = None, !.sending = FALSE]
<1>1. Answer(t, watch) \in Entries
  BY DEF Answer, Entries
<1>2. p.history \in Seq(Entries)
  BY DEF Pages
<1>3. Append(p.history, Answer(t, watch)) \in Seq(Entries)
      /\ Len(Append(p.history, Answer(t, watch))) = Len(p.history) + 1
  BY <1>1, <1>2
<1>4. /\ said \in Pages /\ said.active = None /\ said.finalized /\ ~said.sending
      /\ said.panel = None /\ said.shown = {} /\ Len(said.history) = Len(p.history) + 1
  BY <1>3, StopTrackerFields DEF Pages
<1>5. Len(said.history) \in Nat
  BY <1>4 DEF Pages
<1>6. StartWatch(said, Len(said.history)) \in Pages
      /\ SameTurn(said, StartWatch(said, Len(said.history)))
  BY <1>4, <1>5, StartWatchKeeps
<1>7. CASE p.finalized
  BY <1>7 DEF Finalize, AlreadyFinal
<1>8. CASE ~p.finalized /\ watch = "none"
  BY <1>4, <1>8 DEF Finalize, AlreadyFinal
<1>9. CASE ~p.finalized /\ watch # "none"
  <2>1. Finalize(p, t, watch) = StartWatch(said, Len(said.history))
    BY <1>9 DEF Finalize, AlreadyFinal
  <2> QED BY <2>1, <1>4, <1>6, <1>9 DEF SameTurn
<1> QED BY <1>7, <1>8, <1>9

-----------------------------------------------------------------------------
\* The invariants

\* A turn that is going on has no answer, and the panel belongs to it.
TurnOK(p) ==
  /\ p.active # None => ~p.finalized
  /\ p.panel # None => p.sending /\ p.active = p.panel
  /\ p.shown \subseteq {p.panel}

\* Whatever may still finalize a turn has a question left to answer.
AnswersLeft ==
  /\ answers <= Asked
  /\ ~page.finalized /\ (page.active # None \/ \E c \in calls : c.kind = "chat") => answers < Asked

Inv == TypeOK /\ TurnOK(page) /\ AnswersLeft

\* The questions asked are counted.
LEMMA AskedType == Asked \in Nat /\ IsFiniteSet({t \in Turns : server[t].stage # "idle"})
<1>1. IsFiniteSet(Turns)
  BY BoundAssumption, FS_Interval DEF Turns
<1>2. IsFiniteSet({t \in Turns : server[t].stage # "idle"})
  BY <1>1, FS_Subset
<1> QED BY <1>2, FS_CardinalityType DEF Asked

\* Only a question that is sent counts as asked.
LEMMA AskedStays ==
  ASSUME \A t \in Turns : (server'[t].stage = "idle") = (server[t].stage = "idle")
  PROVE  Asked' = Asked
BY DEF Asked

\* A turn is well-formed after the pages' helpers as it was before.
LEMMA SameTurnOK ==
  ASSUME NEW p, NEW q, TurnOK(p), SameTurn(p, q) PROVE TurnOK(q)
BY DEF TurnOK, SameTurn

\* An event of the turn that is going on.
LEMMA HeardFields ==
  ASSUME page \in Pages, TurnOK(page), NEW t \in Turns, page.active = t, NEW e \in Events
  PROVE  LET q == Heard(t, e)
         IN  /\ q \in Pages /\ TurnOK(q)
             /\ Len(q.history) = Len(page.history)
                \/ (Len(q.history) = Len(page.history) + 1 /\ q.finalized)
<1> DEFINE p == [page EXCEPT !.lastSeq = e.seq]
<1>1. p \in Pages /\ SameTurn(page, p) /\ p.history = page.history
  BY DEF Pages, Events, SameTurn
<1>2. TurnOK(p) /\ p.active = t /\ t # None /\ ~p.finalized /\ Len(p.history) = Len(page.history)
  BY <1>1, SameTurnOK DEF SameTurn, TurnOK, Turns, None
<1>3. e.type \in {"started", "step", "final", "error"} /\ e.watch \in Statuses
  BY DEF Events
<1> HIDE DEF p
<1>4. CASE e.type = "started"
  <2>1. Heard(t, e) = [p EXCEPT !.conversation = TRUE]
    BY <1>4 DEF Heard, p
  <2> QED BY <2>1, <1>1, <1>2 DEF Pages, TurnOK
<1>5. CASE e.type = "step"
  <2>1. Heard(t, e) = [p EXCEPT !.shown = IF p.panel = None THEN @ ELSE @ \cup {t}]
    BY <1>5 DEF Heard, p
  <2> QED BY <2>1, <1>1, <1>2 DEF Pages, TurnOK
<1>6. CASE e.type = "final"
  <2>1. Heard(t, e) = Finalize(p, t, e.watch)
    BY <1>6 DEF Heard, p
  <2> QED BY <2>1, <1>1, <1>2, <1>3, FinalizeFields DEF TurnOK
<1>7. CASE e.type = "error"
  <2> DEFINE s == StopTracker(p)
  <2>1. Heard(t, e) = [s EXCEPT !.active = None, !.finalized = FALSE, !.sending = FALSE]
    BY <1>7 DEF Heard, p
  <2>2. s \in Pages /\ s.panel = None /\ s.shown = {} /\ s.history = p.history
    BY <1>1, StopTrackerFields
  <2> HIDE DEF s
  <2> DEFINE q == [s EXCEPT !.active = None, !.finalized = FALSE, !.sending = FALSE]
  <2>3. q \in Pages
    BY <2>2 DEF Pages
  <2>4. q.active = None /\ q.panel = None /\ q.shown = {} /\ q.history = page.history
    BY <1>1, <2>2 DEF Pages
  <2> HIDE DEF q
  <2>5. TurnOK(q) /\ Len(q.history) = Len(page.history)
    BY <2>4 DEF TurnOK
  <2> QED BY <2>1, <2>3, <2>5 DEF q
<1> QED BY <1>3, <1>4, <1>5, <1>6, <1>7

\* The response of a turn, or its failure.
LEMMA RespondedFields ==
  ASSUME page \in Pages, TurnOK(page), NEW c \in Calls, c.kind = "chat", c.reply # "waiting"
  PROVE  LET q == Responded(c)
         IN  /\ q \in Pages /\ TurnOK(q)
             /\ \/ Len(q.history) = Len(page.history) /\ q.finalized = page.finalized
                \/ Len(q.history) = Len(page.history) + 1 /\ ~page.finalized /\ q.finalized
<1>1. c.turn \in Turns /\ c.watch \in Statuses /\ c.reply \in {"ok", "refused", "lost"}
  BY DEF Calls, Replies
<1>2. page.finalized => page.panel = None /\ page.active = None
  BY DEF TurnOK, Pages
<1>3. CASE c.reply = "ok" /\ page.finalized
  <2>1. Responded(c) = [[page EXCEPT !.conversation = TRUE] EXCEPT !.sending = FALSE]
    BY <1>3 DEF Responded, AlreadyFinal, Ended
  <2> QED BY <2>1, <1>2, <1>3 DEF Pages, TurnOK
<1>4. CASE c.reply = "ok" /\ ~page.finalized
  <2> DEFINE p == Finalize(page, c.turn, c.watch)
  <2>1. Responded(c) = [p EXCEPT !.sending = FALSE]
    BY <1>4 DEF Responded, AlreadyFinal, Ended
  <2>2. /\ p \in Pages /\ p.active = None /\ p.finalized /\ p.panel = None /\ p.shown = {}
        /\ Len(p.history) = Len(page.history) + 1
    BY <1>1, <1>4, FinalizeFields
  <2> HIDE DEF p
  <2> QED BY <2>1, <2>2, <1>4 DEF Pages, TurnOK
<1>5. CASE c.reply = "refused" /\ page.finalized
  <2>1. Responded(c) = [page EXCEPT !.sending = FALSE]
    BY <1>5 DEF Responded, AlreadyFinal, Ended
  <2> QED BY <2>1, <1>2, <1>5 DEF Pages, TurnOK
<1>6. CASE c.reply = "refused" /\ ~page.finalized
  <2> DEFINE s == StopTracker(page)
  <2>1. Responded(c) = [s EXCEPT !.sending = FALSE]
    BY <1>6 DEF Responded, AlreadyFinal, Ended, RefusedPanel
  <2>2. /\ s \in Pages /\ s.panel = None /\ s.shown = {} /\ s.history = page.history
        /\ s.finalized = page.finalized
    BY StopTrackerFields
  <2> HIDE DEF s
  <2> QED BY <2>1, <2>2, <1>6 DEF Pages, TurnOK, None
<1>7. CASE c.reply = "lost"
  <2> DEFINE s == StopTracker(page)
  <2>1. Responded(c) = [[s EXCEPT !.active = None] EXCEPT !.sending = FALSE]
    BY <1>7 DEF Responded, Ended
  <2>2. /\ s \in Pages /\ s.panel = None /\ s.shown = {} /\ s.history = page.history
        /\ s.finalized = page.finalized
    BY StopTrackerFields
  <2> HIDE DEF s
  <2> QED BY <2>1, <2>2 DEF Pages, TurnOK, None
<1> QED BY <1>1, <1>3, <1>4, <1>5, <1>6, <1>7

-----------------------------------------------------------------------------
\* The steps

\* The calls that may finalize a turn.
ChatCalls == {c \in calls : c.kind = "chat"}

\* A step that leaves the turn, the answers and the questions alone, and sends none.
LEMMA QuietKeeps ==
  ASSUME TurnOK(page), AnswersLeft, SameTurn(page, page'), answers' = answers, Asked' = Asked,
         ChatCalls' # {} => ChatCalls # {}
  PROVE  TurnOK(page') /\ AnswersLeft'
<1>1. TurnOK(page')
  BY SameTurnOK
<1>2. (\E c \in calls' : c.kind = "chat") => \E c \in calls : c.kind = "chat"
  BY DEF ChatCalls
<1> QED BY <1>1, <1>2 DEF AnswersLeft, SameTurn

\* No page is unlike itself.
LEMMA SameTurnSelf == ASSUME page' = page PROVE SameTurn(page, page')
BY DEF SameTurn

\* What is left of a cable is a sequence of events.
LEMMA TailType ==
  ASSUME TypeOK, NEW t \in Turns, cable[t] # <<>>
  PROVE  [cable EXCEPT ![t] = Tail(@)] \in [Turns -> Seq(Events)] /\ Head(cable[t]) \in Events
<1>1. cable[t] \in Seq(Events)
  BY DEF TypeOK
<1>2. Tail(cable[t]) \in Seq(Events) /\ Head(cable[t]) \in Events
  BY <1>1, HeadTailProperties
<1> QED BY <1>2 DEF TypeOK

\* The server numbers the events it adds to the cable.
LEMMA BroadcastType ==
  ASSUME TypeOK, NEW t \in Turns, NEW types \in Seq({"started", "step", "final", "error"}),
         NEW watch \in Statuses, NEW stage \in {"asked", "working", "done"},
         server[t].stage # "idle", Broadcast(t, types, watch, stage)
  PROVE  /\ server' \in [Turns -> [stage : {"idle", "asked", "working", "done"}, seq : Nat]]
         /\ cable' \in [Turns -> Seq(Events)]
         /\ Asked' = Asked
<1>1. server[t].seq \in Nat /\ Len(types) \in Nat
  BY DEF TypeOK
<1> DEFINE new == [i \in 1 .. Len(types) |->
                     [type |-> types[i], seq |-> server[t].seq + i, watch |-> watch]]
<1>2. \A i \in 1 .. Len(types) : new[i] \in Events
  BY <1>1, ElementOfSeq DEF Events
<1>3. new \in [1 .. Len(types) -> Events]
  BY <1>2
<1>4. new \in Seq(Events)
  BY <1>1, <1>3, SeqDef
<1>5. cable[t] \in Seq(Events)
  BY DEF TypeOK
<1>6. cable[t] \o new \in Seq(Events)
  BY <1>4, <1>5, ConcatProperties
<1>7. cable' = [cable EXCEPT ![t] = cable[t] \o new]
  BY DEF Broadcast, TypeOK
<1> HIDE DEF new
<1>8. cable' \in [Turns -> Seq(Events)]
  BY <1>6, <1>7 DEF TypeOK
<1>9. server' = [server EXCEPT ![t] = [stage |-> stage, seq |-> server[t].seq + Len(types)]]
  BY DEF Broadcast, TypeOK
<1>10. server' \in [Turns -> [stage : {"idle", "asked", "working", "done"}, seq : Nat]]
  BY <1>1, <1>9 DEF TypeOK
<1>11. \A u \in Turns : (server'[u].stage = "idle") = (server[u].stage = "idle")
  BY <1>9 DEF TypeOK
<1> QED BY <1>8, <1>10, <1>11, AskedStays

\* A question is sent: there is one more to answer, and the panel is its own.
LEMMA SendKeeps == ASSUME Inv, NEW t \in Turns, Send(t) PROVE Inv'
<1> DEFINE p == StopWatch(StopTracker(page))
           said == [role |-> "user", turn |-> t, images |-> {}, status |-> "none"]
           call == [kind |-> "chat", turn |-> t, reply |-> "waiting", watch |-> "none"]
<1>1. p \in Pages /\ p.shown = {} /\ p.history \in Seq(Entries)
  <2>1. StopTracker(page) \in Pages /\ StopTracker(page).shown = {}
    BY StopTrackerFields DEF Inv, TypeOK
  <2> QED BY <2>1, StopWatchKeeps DEF SameTurn, Pages
<1>2. said \in Entries /\ call \in Calls
  BY DEF Entries, Statuses, Calls, Replies
<1>3. Append(p.history, said) \in Seq(Entries)
  BY <1>1, <1>2
<1>4. page' = [p EXCEPT !.history = Append(p.history, said), !.sending = TRUE, !.panel = t,
                        !.active = t, !.lastSeq = 0, !.finalized = FALSE]
  BY <1>1 DEF Send, Pages
<1> HIDE DEF p, said
<1>5. page' \in Pages /\ TurnOK(page')
  BY <1>1, <1>3, <1>4 DEF Pages, TurnOK
<1>6. server' = [server EXCEPT ![t].stage = "asked"] /\ server[t].stage = "idle"
  BY DEF Send
<1>7. /\ server' \in [Turns -> [stage : {"idle", "asked", "working", "done"}, seq : Nat]]
      /\ \A u \in Turns : server'[u].stage # "idle" <=> u = t \/ server[u].stage # "idle"
  BY <1>6 DEF Inv, TypeOK
<1>8. Asked' = Asked + 1
  <2> DEFINE before == {u \in Turns : server[u].stage # "idle"}
  <2>1. {u \in Turns : server'[u].stage # "idle"} = before \cup {t} /\ t \notin before
    BY <1>6, <1>7
  <2>2. IsFiniteSet(before) /\ Asked = Cardinality(before)
    BY AskedType DEF Asked
  <2>3. Cardinality(before \cup {t}) = Cardinality(before) + 1
    BY <2>1, <2>2, FS_AddElement
  <2>4. Asked' = Cardinality(before \cup {t})
    BY <2>1 DEF Asked
  <2> QED BY <2>2, <2>3, <2>4
<1>9. TypeOK'
  BY <1>2, <1>5, <1>7 DEF Inv, TypeOK, Send
<1>10. answers' = answers /\ answers \in Nat /\ answers <= Asked /\ Asked \in Nat
  BY AskedType DEF Send, Inv, TypeOK, AnswersLeft
<1>11. AnswersLeft'
  BY <1>8, <1>10 DEF AnswersLeft
<1> QED BY <1>5, <1>9, <1>11 DEF Inv

\* The server begins with a question: two events.
LEMMA ServerStartsKeeps == ASSUME Inv, NEW t \in Turns, ServerStarts(t) PROVE Inv'
<1>1. <<"started", "step">> \in Seq({"started", "step", "final", "error"}) /\ "none" \in Statuses
  BY DEF Statuses
<1>2. TypeOK' /\ Asked' = Asked
  BY <1>1, BroadcastType DEF ServerStarts, Inv, TypeOK
<1>3. TurnOK(page') /\ AnswersLeft'
  BY <1>2, QuietKeeps, SameTurnSelf DEF ServerStarts, Inv, ChatCalls
<1> QED BY <1>2, <1>3 DEF Inv

\* The server has an answer, or none: an event, and the response if it is awaited.
LEMMA ServerEndsKeeps ==
  ASSUME Inv, NEW t \in Turns, NEW ok \in BOOLEAN, NEW w \in {"none", "drafting"}, ServerEnds(t, ok, w)
  PROVE  Inv'
<1>1. <<IF ok THEN "final" ELSE "error">> \in Seq({"started", "step", "final", "error"})
      /\ w \in Statuses
  BY DEF Statuses
<1> DEFINE replied(c) == [c EXCEPT !.reply = IF @ = "lost" THEN @ ELSE IF ok THEN "ok" ELSE "refused",
                                   !.watch = w]
<1>2. calls' = (calls \ ChatCall(t)) \cup {replied(c) : c \in ChatCall(t)}
  BY DEF ServerEnds
<1>3. \A c \in ChatCall(t) : c \in calls /\ replied(c) \in Calls
  <2> TAKE c \in ChatCall(t)
  <2>1. c \in [kind : {"chat"}, turn : Turns, reply : Replies, watch : Statuses] /\ c \in calls
    BY DEF ChatCall, Inv, TypeOK, Calls
  <2>2. replied(c) \in [kind : {"chat"}, turn : Turns, reply : Replies, watch : Statuses]
    BY <1>1, <2>1 DEF Replies
  <2> QED BY <2>1, <2>2 DEF Calls
<1>4. calls' \subseteq Calls
  BY <1>2, <1>3 DEF Inv, TypeOK
<1>5. TypeOK' /\ Asked' = Asked
  BY <1>1, <1>4, BroadcastType DEF ServerEnds, Inv, TypeOK
<1>6. ChatCalls' # {} => ChatCalls # {}
  BY <1>2 DEF ChatCalls, ChatCall
<1>7. TurnOK(page') /\ AnswersLeft'
  BY <1>5, <1>6, QuietKeeps, SameTurnSelf DEF ServerEnds, Inv
<1> QED BY <1>5, <1>7 DEF Inv

\* The polls a finalized turn starts are polls.
LEMMA PollsType == ASSUME NEW p PROVE Polls(p) \subseteq Calls /\ \A c \in Polls(p) : c.kind = "poll"
BY BoundAssumption DEF Polls, FirstPoll, Calls

\* An event comes: the turn that is going on hears of it, and any other does not.
LEMMA ReceiveEventKeeps == ASSUME Inv, NEW t \in Turns, ReceiveEvent(t) PROVE Inv'
<1> DEFINE e == Head(cable[t])
           tracked == Tracks(t) /\ e.seq > page.lastSeq
<1>1. e \in Events /\ cable' \in [Turns -> Seq(Events)]
  BY TailType DEF ReceiveEvent, Inv
<1>2. calls' \subseteq Calls /\ (ChatCalls' # {} => ChatCalls # {})
  BY PollsType DEF ReceiveEvent, Inv, TypeOK, ChatCalls
<1>3. Asked' = Asked /\ Asked \in Nat /\ answers \in Nat
  BY AskedType DEF ReceiveEvent, Asked, Inv, TypeOK
<1>4. CASE tracked
  <2> DEFINE q == Heard(t, e)
  <2>1. page.active = t /\ t # None
    BY <1>4 DEF Tracks, Turns, None
  <2>2. /\ q \in Pages /\ TurnOK(q)
        /\ Len(q.history) = Len(page.history)
           \/ (Len(q.history) = Len(page.history) + 1 /\ q.finalized)
    BY <1>1, <2>1, HeardFields DEF Inv, TypeOK
  <2>3. page' = q /\ answers' = IF Len(q.history) > Len(page.history) THEN answers + 1 ELSE answers
    BY <1>4 DEF ReceiveEvent, Counted
  <2>4. answers < Asked
    BY <2>1 DEF Inv, AnswersLeft, TurnOK
  <2>5. Len(page.history) \in Nat
    BY DEF Inv, TypeOK, Pages
  <2> HIDE DEF q
  <2>6. AnswersLeft' /\ answers' \in Nat
    BY <1>3, <2>2, <2>3, <2>4, <2>5 DEF AnswersLeft
  <2> QED BY <1>1, <1>2, <2>2, <2>3, <2>6 DEF ReceiveEvent, Inv, TypeOK
<1>5. CASE ~tracked
  <2>1. page' = page /\ answers' = answers
    BY <1>5 DEF ReceiveEvent, Counted, Inv, TypeOK, Pages
  <2>2. TurnOK(page') /\ AnswersLeft'
    BY <1>2, <1>3, <2>1, QuietKeeps, SameTurnSelf DEF Inv
  <2> QED BY <1>1, <1>2, <2>1, <2>2 DEF ReceiveEvent, Inv, TypeOK
<1> QED BY <1>4, <1>5

\* The response comes, or the loss of it is noticed.
LEMMA RespondKeeps == ASSUME Inv, NEW c \in calls, Respond(c) PROVE Inv'
<1> DEFINE q == Responded(c)
<1>1. c \in Calls /\ c.kind = "chat" /\ c.reply # "waiting" /\ page' = q
  BY DEF Respond, Inv, TypeOK
<1>2. /\ q \in Pages /\ TurnOK(q)
      /\ \/ Len(q.history) = Len(page.history) /\ q.finalized = page.finalized
         \/ Len(q.history) = Len(page.history) + 1 /\ ~page.finalized /\ q.finalized
  BY <1>1, RespondedFields DEF Inv, TypeOK
<1>3. answers' = IF Len(q.history) > Len(page.history) THEN answers + 1 ELSE answers
  BY DEF Respond, Counted
<1>4. calls' \subseteq Calls
  BY PollsType DEF Respond, Inv, TypeOK
<1>5. Asked' = Asked /\ Asked \in Nat /\ answers \in Nat /\ Len(page.history) \in Nat
  BY AskedType DEF Respond, Asked, Inv, TypeOK, Pages
<1>6. ~page.finalized => answers < Asked
  BY <1>1 DEF Inv, AnswersLeft
<1> HIDE DEF q
<1>7. AnswersLeft' /\ answers' \in Nat
  BY <1>1, <1>2, <1>3, <1>5, <1>6 DEF AnswersLeft, Inv
<1> QED BY <1>1, <1>2, <1>4, <1>7 DEF Respond, Inv, TypeOK

\* What the network loses is a loss only of what was on its way.
LEMMA LossKeeps ==
  ASSUME Inv, (\E t \in Turns : LoseEvent(t)) \/ \E c \in calls : LoseCall(c) PROVE Inv'
<1>1. Asked' = Asked /\ answers' = answers /\ page' = page
  BY DEF LoseEvent, LoseCall, Asked
<1>2. ASSUME NEW t \in Turns, LoseEvent(t) PROVE TypeOK' /\ (ChatCalls' # {} => ChatCalls # {})
  BY <1>2, TailType DEF LoseEvent, Inv, TypeOK, ChatCalls
<1>3. ASSUME NEW c \in calls, LoseCall(c) PROVE TypeOK' /\ (ChatCalls' # {} => ChatCalls # {})
  <2>1. c \in [kind : {"chat"}, turn : Turns, reply : Replies, watch : Statuses]
    BY <1>3 DEF LoseCall, Inv, TypeOK, Calls
  <2>2. [c EXCEPT !.reply = "lost"] \in Calls
    BY <2>1 DEF Calls, Replies
  <2>3. ChatCalls # {}
    BY <1>3 DEF LoseCall, ChatCalls
  <2>4. calls' = (calls \ {c}) \cup {[c EXCEPT !.reply = "lost"]}
    BY <1>3 DEF LoseCall
  <2>5. calls' \subseteq Calls
    BY <2>2, <2>4 DEF Inv, TypeOK
  <2>6. {faults', clears', refines', answers'} \subseteq Nat
    BY <1>3 DEF LoseCall, Inv, TypeOK
  <2> QED BY <1>3, <2>3, <2>5, <2>6 DEF LoseCall, Inv, TypeOK
<1>4. TypeOK' /\ (ChatCalls' # {} => ChatCalls # {})
  BY <1>2, <1>3
<1>5. TurnOK(page') /\ AnswersLeft'
  BY <1>1, <1>4, QuietKeeps, SameTurnSelf DEF Inv
<1> QED BY <1>4, <1>5 DEF Inv

\* An emptied page has no turn.
LEMMA ClearedFields ==
  ASSUME page \in Pages, TurnOK(page)
  PROVE  /\ Cleared(page) \in Pages /\ TurnOK(Cleared(page)) /\ Cleared(page).active = None
         /\ Cleared(page).finalized = page.finalized
<1> DEFINE s == StopTracker(page)
<1>1. s \in Pages /\ s.panel = None /\ s.shown = {} /\ s.finalized = page.finalized
  BY StopTrackerFields
<1>2. Cleared(page) = [s EXCEPT !.history = <<>>, !.conversation = FALSE, !.active = None]
  BY DEF Cleared
<1>3. <<>> \in Seq(Entries)
  OBVIOUS
<1> HIDE DEF s
<1> QED BY <1>1, <1>2, <1>3 DEF Pages, TurnOK, None

\* A new page has no turn either.
LEMMA NewPageFields ==
  ASSUME NEW h \in Seq(Entries)
  PROVE  NewPage(h) \in Pages /\ TurnOK(NewPage(h)) /\ NewPage(h).active = None
<1>1. 0 \in 0 .. MaxAttempts
  BY BoundAssumption
<1> QED BY <1>1 DEF NewPage, Pages, TurnOK, None

\* Clearing, with a conversation to delete or without.
LEMMA ClearChatKeeps == ASSUME Inv, ClearChat PROVE Inv'
<1>1. [kind |-> "clear"] \in Calls
  BY DEF Calls
<1>2. /\ page' \in Pages /\ TurnOK(page') /\ page'.finalized = page.finalized
      /\ page'.active = page.active \/ page'.active = None
  BY ClearedFields DEF ClearChat, Inv, TypeOK
<1>3. TypeOK' /\ (ChatCalls' # {} => ChatCalls # {}) /\ Asked' = Asked /\ answers' = answers
  BY <1>1, <1>2 DEF ClearChat, Inv, TypeOK, ChatCalls, Asked
<1>4. AnswersLeft'
  BY <1>2, <1>3 DEF Inv, AnswersLeft, ChatCalls
<1> QED BY <1>2, <1>3, <1>4 DEF Inv

\* The conversation is deleted, and what is on its way finds no page; or it is not.
LEMMA ClearAnsweredKeeps == ASSUME Inv, NEW deleted \in BOOLEAN, ClearAnswered(deleted) PROVE Inv'
<1>1. Asked' = Asked /\ answers' = answers
  BY DEF ClearAnswered, Asked
<1>2. CASE deleted
  <2>1. page' = NewPage(<<>>) /\ calls' = {} /\ cable' = [t \in Turns |-> <<>>]
    BY <1>2 DEF ClearAnswered
  <2>2. <<>> \in Seq(Entries)
    OBVIOUS
  <2>3. page' \in Pages /\ TurnOK(page') /\ page'.active = None
    BY <2>1, <2>2, NewPageFields
  <2> QED BY <1>1, <2>1, <2>3 DEF ClearAnswered, Inv, TypeOK, AnswersLeft
<1>3. CASE ~deleted
  <2>1. page' = Cleared(page) /\ calls' \subseteq calls /\ cable' = cable
    BY <1>3 DEF ClearAnswered
  <2>2. page' \in Pages /\ TurnOK(page') /\ page'.active = None /\ page'.finalized = page.finalized
    BY <2>1, ClearedFields DEF Inv, TypeOK
  <2> QED BY <1>1, <2>1, <2>2 DEF ClearAnswered, Inv, TypeOK, AnswersLeft
<1> QED BY <1>2, <1>3

\* The image service draws.
LEMMA DrawKeeps ==
  ASSUME Inv, NEW status \in {"awaiting", "completed", "failed"}, Draw(status) PROVE Inv'
<1>1. TypeOK' /\ page' = page /\ answers' = answers /\ Asked' = Asked /\ ChatCalls' = ChatCalls
  BY DEF Draw, Inv, TypeOK, Statuses, Asked, ChatCalls
<1>2. TurnOK(page') /\ AnswersLeft'
  BY <1>1, QuietKeeps, SameTurnSelf DEF Inv
<1> QED BY <1>1, <1>2 DEF Inv

\* The interval fires: one poll more, or the last one was sent.
LEMMA PollKeeps == ASSUME Inv, Poll PROVE Inv'
<1>1. answers' = answers /\ Asked' = Asked /\ page \in Pages
  BY DEF Poll, Asked, Inv, TypeOK
<1>2. CASE LastPoll(page.attempts)
  <2>1. page' = StopWatch(page) /\ calls' = calls
    BY <1>2 DEF Poll
  <2>2. page' \in Pages /\ SameTurn(page, page')
    BY <1>1, <2>1, StopWatchKeeps
  <2>3. TurnOK(page') /\ AnswersLeft'
    BY <1>1, <2>1, <2>2, QuietKeeps DEF Inv, ChatCalls
  <2> QED BY <1>1, <2>1, <2>2, <2>3 DEF Poll, Inv, TypeOK
<1>3. CASE ~LastPoll(page.attempts)
  <2> DEFINE n == page.attempts + 1
  <2>1. n \in 1 .. MaxAttempts /\ n \in 0 .. MaxAttempts
    BY <1>1, <1>3, BoundAssumption DEF LastPoll, Pages
  <2>2. page' = [page EXCEPT !.attempts = n] /\ calls' = calls \cup {[kind |-> "poll", n |-> n]}
    BY <1>1, <1>3 DEF Poll, Counting, Pages
  <2>3. [kind |-> "poll", n |-> n] \in Calls
    BY <2>1 DEF Calls
  <2> HIDE DEF n
  <2>4. page' \in Pages /\ SameTurn(page, page')
    BY <1>1, <2>1, <2>2 DEF Pages, SameTurn
  <2>5. calls' \subseteq Calls /\ (ChatCalls' # {} => ChatCalls # {})
    BY <2>2, <2>3 DEF Inv, TypeOK, ChatCalls
  <2>6. TurnOK(page') /\ AnswersLeft'
    BY <1>1, <2>4, <2>5, QuietKeeps DEF Inv
  <2> QED BY <1>1, <2>4, <2>5, <2>6 DEF Poll, Inv, TypeOK
<1> QED BY <1>2, <1>3

\* A poll is answered, with pictures or without.
LEMMA PollAnsweredKeeps ==
  ASSUME Inv, NEW c \in calls, NEW ok \in BOOLEAN, PollAnswered(c, ok) PROVE Inv'
<1>1. page \in Pages /\ gen \in Statuses /\ answers' = answers /\ Asked' = Asked
  BY DEF PollAnswered, Asked, Inv, TypeOK
<1>2. calls' = calls \ {c}
  BY DEF PollAnswered
<1>3. ASSUME NEW urls \in SUBSET Urls, NEW s \in Statuses, page' = StopWatch(WithImages(page, urls, s))
      PROVE  page' \in Pages /\ SameTurn(page, page')
  <2>1. WithImages(page, urls, s) \in Pages /\ SameTurn(page, WithImages(page, urls, s))
    BY <1>1, WithImagesKeeps
  <2>2. page' \in Pages /\ SameTurn(WithImages(page, urls, s), page')
    BY <1>3, <2>1, StopWatchKeeps
  <2> QED BY <2>1, <2>2 DEF SameTurn
<1>4. page' \in Pages /\ SameTurn(page, page')
  <2>1. {"link"} \in SUBSET Urls /\ UrlsOf(gen) \in SUBSET Urls /\ "none" \in Statuses
    BY DEF Urls, UrlsOf, Statuses
  <2>2. \/ page' = page
        \/ page' = StopWatch(WithImages(page, {"link"}, "none"))
        \/ page' = StopWatch(WithImages(page, UrlsOf(gen), gen))
    BY DEF PollAnswered
  <2>3. CASE page' = page
    BY <2>3, <1>1, SameTurnSelf
  <2>4. CASE page' = StopWatch(WithImages(page, {"link"}, "none"))
    BY <2>1, <2>4, <1>3
  <2>5. CASE page' = StopWatch(WithImages(page, UrlsOf(gen), gen))
    BY <1>1, <2>1, <2>5, <1>3
  <2> QED BY <2>2, <2>3, <2>4, <2>5
<1>5. TurnOK(page') /\ AnswersLeft'
  BY <1>1, <1>2, <1>4, QuietKeeps DEF Inv, ChatCalls
<1> QED BY <1>1, <1>2, <1>4, <1>5 DEF PollAnswered, Inv, TypeOK

\* A message of the page in place of another.
LEMMA ReplacedEntry ==
  ASSUME NEW p \in Pages, NEW i \in 1 .. Len(p.history), NEW e \in Entries
  PROVE  /\ [p EXCEPT !.history[i] = e] \in Pages
         /\ SameTurn(p, [p EXCEPT !.history[i] = e])
<1> DEFINE h == [p.history EXCEPT ![i] = e]
<1>1. p.history \in Seq(Entries)
  BY DEF Pages
<1>2. h \in Seq(Entries) /\ Len(h) = Len(p.history)
  BY <1>1, ExceptSeq
<1>3. [p EXCEPT !.history[i] = e] = [p EXCEPT !.history = h]
  BY DEF Pages
<1> HIDE DEF h
<1> QED BY <1>2, <1>3 DEF Pages, SameTurn

\* A draft is chosen.
LEMMA RefineKeeps ==
  ASSUME Inv, NEW i \in 1 .. Len(page.history), Refine(i) PROVE Inv'
<1> DEFINE e == [page.history[i] EXCEPT !.status = "refining"]
           call == [kind |-> "refine", index |-> i, clears |-> clears]
<1>1. page \in Pages /\ page.history \in Seq(Entries) /\ Len(page.history) \in Nat
  BY DEF Inv, TypeOK, Pages
<1>2. e \in Entries
  <2>1. page.history[i] \in Entries
    BY <1>1
  <2> QED BY <2>1 DEF Entries, Statuses
<1>3. page' = [page EXCEPT !.history[i] = e]
  BY <1>1 DEF Refine, Pages
<1>4. page' \in Pages /\ SameTurn(page, page')
  BY <1>1, <1>2, <1>3, ReplacedEntry
<1>5. call \in Calls /\ calls' = calls \cup {call}
  BY <1>1 DEF Calls, Refine, Inv, TypeOK
<1>6. calls' \subseteq Calls /\ (ChatCalls' # {} => ChatCalls # {})
  BY <1>5 DEF Inv, TypeOK, ChatCalls
<1>7. answers' = answers /\ Asked' = Asked
  BY DEF Refine, Asked
<1>8. TurnOK(page') /\ AnswersLeft'
  BY <1>4, <1>6, <1>7, QuietKeeps DEF Inv
<1> QED BY <1>4, <1>6, <1>8 DEF Refine, Inv, TypeOK

\* The choice is taken, and the picture is watched for; or it is refused.
LEMMA RefineAnsweredKeeps ==
  ASSUME Inv, NEW c \in calls, NEW ok \in BOOLEAN, RefineAnswered(c, ok) PROVE Inv'
<1> DEFINE seen == c.index \in 1 .. Len(page.history) /\ c.clears = clears
           e == Updated(page.history[c.index], {}, "refining")
           p == IF seen THEN [page EXCEPT !.history[c.index] = e] ELSE page
<1>1. page \in Pages /\ page.history \in Seq(Entries) /\ answers' = answers /\ Asked' = Asked
  BY DEF RefineAnswered, Asked, Inv, TypeOK, Pages
<1>2. c.index \in Nat
  BY DEF RefineAnswered, Inv, TypeOK, Calls
<1>3. p \in Pages /\ SameTurn(page, p)
  <2>1. CASE seen
    <3>1. page.history[c.index] \in Entries
      BY <1>1, <2>1
    <3>2. e \in Entries
      BY <3>1, UpdatedType DEF Urls, Statuses
    <3> HIDE DEF e
    <3> QED BY <1>1, <2>1, <3>2, ReplacedEntry
  <2>2. CASE ~seen
    BY <1>1, <2>2 DEF SameTurn
  <2> QED BY <2>1, <2>2
<1>4. page' = IF ok THEN StartWatch(p, c.index) ELSE page
  BY <1>1 DEF RefineAnswered, Pages
<1> HIDE DEF p
<1>5. page' \in Pages /\ SameTurn(page, page')
  <2>1. CASE ok
    <3>1. StartWatch(p, c.index) \in Pages /\ SameTurn(p, StartWatch(p, c.index))
      BY <1>2, <1>3, StartWatchKeeps
    <3> QED BY <1>3, <1>4, <2>1, <3>1 DEF SameTurn
  <2>2. CASE ~ok
    BY <1>1, <1>4, <2>2, SameTurnSelf
  <2> QED BY <2>1, <2>2
<1>6. FirstPoll \in Calls /\ FirstPoll.kind = "poll"
  BY BoundAssumption DEF FirstPoll, Calls
<1>7. calls' \subseteq Calls /\ (ChatCalls' # {} => ChatCalls # {})
  BY <1>6 DEF RefineAnswered, Inv, TypeOK, ChatCalls
<1>8. gen' \in Statuses
  BY DEF RefineAnswered, Inv, TypeOK, Statuses
<1>9. TurnOK(page') /\ AnswersLeft'
  BY <1>1, <1>5, <1>7, QuietKeeps DEF Inv
<1> QED BY <1>1, <1>5, <1>7, <1>8, <1>9 DEF RefineAnswered, Inv, TypeOK

-----------------------------------------------------------------------------
\* Every step, and the beginning

\* A conversation is opened: nothing was asked, and no answer is counted.
LEMMA InitInv == ASSUME Init PROVE Inv
<1>1. PICK h \in Histories : \E i \in 0 .. Len(h) :
        /\ page = Resumed(NewPage(h), i)
        /\ calls = IF i # None THEN {FirstPoll} ELSE {}
        /\ gen = IF i # None THEN "drafting" ELSE "none"
  BY DEF Init
<1>2. h \in Seq(Entries) /\ Len(h) \in Nat
  BY HistoriesAssumption
<1>3. PICK i \in 0 .. Len(h) :
        /\ page = Resumed(NewPage(h), i)
        /\ calls = IF i # None THEN {FirstPoll} ELSE {}
        /\ gen = IF i # None THEN "drafting" ELSE "none"
  BY <1>1
<1>4. NewPage(h) \in Pages /\ TurnOK(NewPage(h))
  BY <1>2, NewPageFields
<1>5. page \in Pages /\ SameTurn(NewPage(h), page)
  <2>1. CASE i = None
    BY <1>3, <1>4, <2>1 DEF Resumed, SameTurn
  <2>2. CASE i # None
    BY <1>2, <1>3, <1>4, <2>2, StartWatchKeeps DEF Resumed
  <2> QED BY <2>1, <2>2
<1>6. TurnOK(page) /\ page.active = None
  BY <1>4, <1>5, <1>2, NewPageFields, SameTurnOK DEF SameTurn
<1>7. FirstPoll \in Calls /\ FirstPoll.kind = "poll"
  BY BoundAssumption DEF FirstPoll, Calls
<1>8. calls \subseteq Calls /\ \A c \in calls : c.kind # "chat"
  BY <1>3, <1>7
<1>9. Asked = 0
  <2>1. {t \in Turns : server[t].stage # "idle"} = {}
    BY DEF Init
  <2> QED BY <2>1, FS_EmptySet DEF Asked
<1>10. gen \in Statuses
  BY <1>3 DEF Statuses
<1>11. cable \in [Turns -> Seq(Events)]
  BY DEF Init
<1>12. server \in [Turns -> [stage : {"idle", "asked", "working", "done"}, seq : Nat]]
  BY DEF Init
<1>13. {faults, clears, refines, answers} \subseteq Nat /\ answers = 0
  BY DEF Init
<1>14. AnswersLeft
  BY <1>6, <1>8, <1>9, <1>13 DEF AnswersLeft
<1> QED BY <1>5, <1>6, <1>8, <1>10, <1>11, <1>12, <1>13, <1>14 DEF Inv, TypeOK

\* A step that changes nothing.
LEMMA StutterKeeps == ASSUME Inv, UNCHANGED vars PROVE Inv'
BY DEF vars, Inv, TypeOK, TurnOK, AnswersLeft, Asked

\* No step breaks the invariant.
LEMMA NextKeeps == ASSUME Inv, [Next]_vars PROVE Inv'
<1>1. ASSUME NEW t \in Turns, Send(t) PROVE Inv'
  BY <1>1, SendKeeps
<1>2. ASSUME NEW t \in Turns, ServerStarts(t) PROVE Inv'
  BY <1>2, ServerStartsKeeps
<1>3. ASSUME NEW t \in Turns, ReceiveEvent(t) PROVE Inv'
  BY <1>3, ReceiveEventKeeps
<1>4. ASSUME NEW t \in Turns, NEW ok \in BOOLEAN, NEW w \in {"none", "drafting"},
             ServerEnds(t, ok, w)
      PROVE  Inv'
  BY <1>4, ServerEndsKeeps
<1>5. ASSUME (\E t \in Turns : LoseEvent(t)) \/ \E c \in calls : LoseCall(c) PROVE Inv'
  BY <1>5, LossKeeps
<1>6. ASSUME NEW c \in calls, Respond(c) PROVE Inv'
  BY <1>6, RespondKeeps
<1>7. ASSUME NEW c \in calls, NEW ok \in BOOLEAN, PollAnswered(c, ok) PROVE Inv'
  BY <1>7, PollAnsweredKeeps
<1>8. ASSUME NEW c \in calls, NEW ok \in BOOLEAN, RefineAnswered(c, ok) PROVE Inv'
  BY <1>8, RefineAnsweredKeeps
<1>9. ASSUME ClearChat PROVE Inv'
  BY <1>9, ClearChatKeeps
<1>10. ASSUME NEW deleted \in BOOLEAN, ClearAnswered(deleted) PROVE Inv'
  BY <1>10, ClearAnsweredKeeps
<1>11. ASSUME NEW status \in {"awaiting", "completed", "failed"}, Draw(status) PROVE Inv'
  BY <1>11, DrawKeeps
<1>12. ASSUME Poll PROVE Inv'
  BY <1>12, PollKeeps
<1>13. ASSUME NEW i \in 1 .. Len(page.history), Refine(i) PROVE Inv'
  BY <1>13, RefineKeeps
<1>14. CASE UNCHANGED vars
  BY <1>14, StutterKeeps
<1> QED
  BY <1>1, <1>2, <1>3, <1>4, <1>5, <1>6, <1>7, <1>8, <1>9, <1>10, <1>11, <1>12, <1>13, <1>14
  DEF Next

\* The invariant holds in every state of the chat page.
THEOREM Always == Spec => []Inv
BY InitInv, NextKeeps, PTL DEF Spec

\* The controller's fields, what is on its way and the server's turns keep their
\* types, and no poll past the last is ever sent.
THEOREM TypeCorrect == Spec => []TypeOK
<1>1. Inv => TypeOK
  BY DEF Inv
<1> QED BY <1>1, Always, PTL

\* A question gets at most one answer, for any number of turns, whichever of the
\* cable and the response comes first, is lost or comes too late.
THEOREM OneAnswer == Spec => []OneAnswerPerQuestion
<1>1. Inv => OneAnswerPerQuestion
  BY DEF Inv, AnswersLeft, OneAnswerPerQuestion
<1> QED BY <1>1, Always, PTL

\* The activity panel is there only while a question is being sent, and shows
\* only steps of its turn.
THEOREM PanelBelongs == Spec => []PanelShowsItsTurn
<1>1. Inv => PanelShowsItsTurn
  BY DEF Inv, TurnOK, PanelShowsItsTurn
<1> QED BY <1>1, Always, PTL

-----------------------------------------------------------------------------
\* The choice of tools

ToolsInv == boxes \in [drawn : SUBSET Tools, checked : SUBSET Tools] /\ offered \in SUBSET Tools
  /\ Choice!BoxesShowChoice

LEMMA ToolsInit == ASSUME Choice!Init PROVE ToolsInv
BY DEF Choice!Init, ToolsInv, Choice!NoBoxes, Choice!BoxesShowChoice

\* The boxes that are drawn when the list comes.
LEMMA ToolsFetched == ASSUME ToolsInv, Choice!Fetched PROVE ToolsInv'
<1> DEFINE kept == Choice!Pruned(offered)
           choice == IF kept = NoTools /\ offered # {} THEN offered ELSE kept
<1>1. enabled' = choice /\ stored' = choice /\ offered' = offered
  BY DEF Choice!Fetched, Choice!Write
<1>2. boxes' = IF offered = {} THEN Choice!NoBoxes ELSE [drawn |-> offered, checked |-> choice \cap offered]
  BY DEF Choice!Fetched
<1>3. offered # {} => choice \subseteq offered
  BY DEF Choice!Pruned
<1> HIDE DEF choice
<1> QED BY <1>1, <1>2, <1>3 DEF ToolsInv, Choice!NoBoxes, Choice!BoxesShowChoice

LEMMA ToolsNext == ASSUME ToolsInv, [Choice!Next]_(Choice!vars) PROVE ToolsInv'
<1>1. CASE Choice!Reload
  BY <1>1 DEF Choice!Reload, ToolsInv, Choice!NoBoxes, Choice!BoxesShowChoice
<1>2. CASE Choice!Fetch \/ Choice!FetchFails
  BY <1>2 DEF Choice!Fetch, Choice!FetchFails, ToolsInv, Choice!BoxesShowChoice
<1>3. CASE Choice!Fetched
  BY <1>3, ToolsFetched
<1>4. CASE Choice!Send
  BY <1>4 DEF Choice!Send, Choice!Write, ToolsInv, Choice!BoxesShowChoice
<1>5. ASSUME NEW t \in Tools, Choice!Click(t) PROVE ToolsInv'
  <2>1. PICK checked \in SUBSET Tools : boxes' = [boxes EXCEPT !.checked = checked] /\ Choice!Write(checked)
    BY <1>5 DEF Choice!Click, ToolsInv
  <2> QED BY <1>5, <2>1 DEF Choice!Click, Choice!Write, ToolsInv, Choice!BoxesShowChoice
<1>6. ASSUME NEW tools \in SUBSET Tools, Choice!Offers(tools) PROVE ToolsInv'
  BY <1>6 DEF Choice!Offers, ToolsInv, Choice!BoxesShowChoice
<1>7. CASE UNCHANGED Choice!vars
  BY <1>7 DEF Choice!vars, ToolsInv, Choice!BoxesShowChoice
<1> QED BY <1>1, <1>2, <1>3, <1>4, <1>5, <1>6, <1>7 DEF Choice!Next

\* Whatever is dropped from the list of tools or chosen before (pruneUnavailableMcpTools and
\* syncEnabledMcpTools of agent_chat_controller): once boxes are drawn they show the choice that is
\* stored and that the next question will carry.
THEOREM ToolsHold == Choice!Spec => []Choice!BoxesShowChoice
<1>1. ToolsInv => Choice!BoxesShowChoice
  BY DEF ToolsInv
<1> QED BY <1>1, ToolsInit, ToolsNext, PTL DEF Choice!Spec
==============================================================================
