------------------------------ MODULE Pasting ------------------------------
(***************************************************************************)
(* Pictures and web pages that are pasted, dropped or picked in the body   *)
(* editor (memo_body_editor, imagePasteDialog, webPaste, webPasteDialog).  *)
(* Each runs through questions and uploads of its own; there is one dialog *)
(* of each kind, whose question a later one takes over.  Promises that are *)
(* settled continue before the next event, the close event of a dialog     *)
(* among them.  The editor comes after the page and may go before what was *)
(* begun in it has ended.                                                  *)
(***************************************************************************)
EXTENDS Integers, Sequences, FiniteSets, SequencesExt

CONSTANTS
  Files,       \* pictures, and texts of web pages
  MaxFlows,    \* bound on what is pasted, dropped or picked
  MaxBatch,    \* bound on the pictures of one gesture
  None         \* no flow

PastingAssumption == MaxFlows \in Nat /\ MaxBatch \in Nat \ {0} /\ None \notin Nat

VARIABLES
  flows,      \* what was pasted, dropped or picked, in order
  pending,    \* pendingResolve of each dialog: the flow it will answer
  open,       \* the dialogs shown
  closing,    \* close events that are still to be delivered
  ready,      \* flows whose promise is settled, in order
  may,        \* canUploadImages: the memo is stored
  editor,     \* view: not mounted yet, here, or taken down
  handling,   \* _imageDropHandled
  stored,     \* how often the server said it has stored a file
  body,       \* how often a file was put into the body
  missed      \* how often a stored file found no editor to be put into

vars == <<flows, pending, open, closing, ready, may, editor, handling, stored, body, missed>>

Dialogs == {"image", "web"}
Batches == UNION {[1 .. n -> Files] : n \in 1 .. MaxBatch}
Ids == 1 .. MaxFlows
\* The plain text of a clipboard
Plains == {"none", "path", "text"}
Flows ==
  [kind : {"pasted", "dropped", "picked", "web"}, left : Batches \cup {<<>>}, sent : Batches \cup {<<>>},
   step : {"asking", "answered", "uploading", "done"}, plain : Plains,
   answer : {"none", "accept", "cancel"}, alive : BOOLEAN]

TypeOK ==
  /\ flows \in Seq(Flows) /\ Len(flows) <= MaxFlows
  /\ pending \in [Dialogs -> Ids \cup {None}] /\ open \in [Dialogs -> BOOLEAN] /\ closing \in [Dialogs -> Nat]
  /\ ready \in Seq(Ids) /\ {may, handling} \subseteq BOOLEAN
  /\ editor \in {"loading", "here", "gone"} /\ {stored, body, missed} \subseteq [Files -> Nat]

Init ==
  /\ flows = <<>> /\ ready = <<>> /\ may \in BOOLEAN /\ editor = "loading" /\ handling = FALSE
  /\ pending = [d \in Dialogs |-> None] /\ open = [d \in Dialogs |-> FALSE]
  /\ closing = [d \in Dialogs |-> 0]
  /\ stored = [f \in Files |-> 0] /\ body = stored /\ missed = stored

-----------------------------------------------------------------------------
\* The clipboard

\* Screenshots come with a picture only, with markup of nothing but the picture,
\* or with the path of a file.
Clipboards ==
  [files : Batches \cup {<<>>}, html : {"none", "picture", "text"}, plain : Plains,
   url : BOOLEAN]
IsPicture(c) == c.files # <<>> /\ c.html # "text" /\ c.plain # "text"
IsWebPage(c) == c.html # "none"

-----------------------------------------------------------------------------
\* The dialogs

Flow(kind, fs, step, plain) ==
  [kind |-> kind, left |-> fs, sent |-> <<>>, step |-> step, plain |-> plain, answer |-> "none",
   alive |-> TRUE]
DialogOf(w) == IF w.kind = "web" THEN "web" ELSE "image"

\* Mutated: a question that is taken over is never answered.
NobodyAnswered(fl, d) == fl
\* Of a dialog that asks already, the question before is answered "cancel".
TakenOver(fl, d) ==
  [i \in DOMAIN fl |->
     IF i = pending[d] THEN [fl[i] EXCEPT !.step = "answered", !.answer = "cancel"] ELSE fl[i]]

\* promptImageFilename and promptWebPasteSource, for flow id as it is in fl.
Ask(id, fl, queue) ==
  LET d == DialogOf(fl[id])
      others == TakenOver(fl, d)
  IN  /\ flows' = [others EXCEPT ![id].step = "asking", ![id].answer = "none"]
      /\ ready' = queue \o (IF pending[d] = None THEN <<>> ELSE <<pending[d]>>)
      /\ pending' = [pending EXCEPT ![d] = id]
      /\ open' = [open EXCEPT ![d] = TRUE]

\* finishDialog: the question is settled; a dialog that closes will say so later.
Finished(d, answer, toDeliver) ==
  /\ flows' = [flows EXCEPT ![pending[d]].step = "answered", ![pending[d]].answer = answer]
  /\ ready' = Append(ready, pending[d])
  /\ pending' = [pending EXCEPT ![d] = None]
  /\ open' = [open EXCEPT ![d] = FALSE]
  /\ closing' = [closing EXCEPT ![d] = toDeliver + (IF open[d] THEN 1 ELSE 0)]

\* The user names the picture or the source, or refuses.  The dialog is the
\* page's: it may be answered when the editor is gone.
AnswerDialog(d, answer) ==
  /\ ready = <<>> /\ pending[d] # None /\ Finished(d, answer, closing[d])
  /\ UNCHANGED <<may, editor, handling, stored, body, missed>>

\* The close event finds the question that is asked by now, and cancels it.
CloseEvent(d) ==
  /\ ready = <<>> /\ closing[d] > 0
  /\ IF pending[d] # None THEN Finished(d, "cancel", closing[d] - 1)
     ELSE closing' = [closing EXCEPT ![d] = @ - 1] /\ UNCHANGED <<flows, pending, open, ready>>
  /\ UNCHANGED <<may, editor, handling, stored, body, missed>>

-----------------------------------------------------------------------------
\* The gestures

Starts == ready = <<>> /\ Len(flows) < MaxFlows

\* handleImagePaste and uploadPastedImages: the first of a batch is asked for.
PastePictures(c) ==
  /\ Starts /\ IsPicture(c) /\ may /\ editor = "here"
  /\ LET fl == Append(flows, Flow("pasted", c.files, "answered", "none")) IN Ask(Len(fl), fl, ready)
  /\ UNCHANGED <<closing, may, editor, handling, stored, body, missed>>

\* createWebPasteHandler: only a page whose address is not known is asked about.
PasteWebPage(c, f) ==
  /\ Starts /\ ~IsPicture(c) /\ IsWebPage(c) /\ editor = "here"
  /\ LET fl == Append(flows, Flow("web", <<f>>, "answered", c.plain))
     IN  IF c.url THEN /\ flows' = fl /\ ready' = Append(ready, Len(fl))
                       /\ UNCHANGED <<pending, open>>
         ELSE Ask(Len(fl), fl, ready)
  /\ UNCHANGED <<closing, may, editor, handling, stored, body, missed>>

\* handleImageDrop: a drop while the one before is uploaded is ignored.
DropPictures(fs) ==
  /\ Starts /\ may /\ ~handling /\ editor = "here"
  /\ handling' = TRUE /\ flows' = Append(flows, Flow("dropped", fs, "uploading", "none"))
  /\ UNCHANGED <<pending, open, closing, ready, may, editor, stored, body, missed>>

\* uploadImage, uploadAttachment: the buttons are there before the editor is.
PickFiles(fs) ==
  /\ Starts /\ may /\ editor # "gone"
  /\ flows' = Append(flows, Flow("picked", fs, "uploading", "none"))
  /\ UNCHANGED <<pending, open, closing, ready, may, editor, handling, stored, body, missed>>

-----------------------------------------------------------------------------
\* The continuations

\* A batch of pictures that were pasted goes on with the next one.
NextPasted(id, fl, queue) ==
  LET rest == [fl EXCEPT ![id].left = Tail(@)]
  IN  IF rest[id].left # <<>> THEN Ask(id, rest, queue)
      ELSE /\ flows' = [rest EXCEPT ![id].step = "done", ![id].answer = "none"]
           /\ ready' = queue /\ UNCHANGED <<pending, open>>

Put(b, fs) == [f \in Files |-> b[f] + Cardinality({i \in DOMAIN fs : fs[i] = f})]

\* resolveWebPasteContent: of a page that is refused only the plain text is left.
Resolved(w) == w.answer # "cancel" \/ w.plain # "none"

\* uploadPastedImages and createWebPasteHandler behind their question.  A page
\* is put where its unit still stands.
Continue ==
  /\ ready # <<>>
  /\ LET id == Head(ready)
         w == flows[id]
     IN  \/ /\ w.kind = "web"
            /\ body' = IF w.alive /\ Resolved(w) THEN Put(body, w.left) ELSE body
            /\ flows' = [flows EXCEPT ![id].step = "done"]
            /\ ready' = Tail(ready) /\ UNCHANGED <<pending, open>>
         \/ /\ w.kind = "pasted" /\ w.answer = "accept" /\ UNCHANGED <<body, pending, open>>
            /\ flows' = [flows EXCEPT ![id].step = "uploading"] /\ ready' = Tail(ready)
         \/ /\ w.kind = "pasted" /\ w.answer = "cancel" /\ UNCHANGED body
            /\ NextPasted(id, flows, Tail(ready))
  /\ UNCHANGED <<closing, may, editor, handling, stored, missed>>

\* Mutated: the pictures before one that fails are forgotten.
OnlyWhole(w, ok) == IF ok THEN Append(w.sent, Head(w.left)) ELSE <<>>
\* uploadFiles: the pictures the server has taken are inserted, also when the
\* next one fails; insertAtCursor finds no editor before it is mounted and
\* after it is taken down.
Inserted(w, ok) == IF ok THEN Append(w.sent, Head(w.left)) ELSE w.sent

UploadAnswered(id, ok) ==
  LET w == flows[id]
      more == ok /\ w.kind # "pasted" /\ Len(w.left) > 1
  IN  /\ ready = <<>> /\ w.step = "uploading"
      /\ stored' = IF ok THEN Put(stored, <<Head(w.left)>>) ELSE stored
      /\ body' = IF more \/ editor # "here" THEN body ELSE Put(body, Inserted(w, ok))
      /\ missed' = IF more \/ editor = "here" THEN missed ELSE Put(missed, Inserted(w, ok))
      /\ handling' = (handling /\ (w.kind # "dropped" \/ more))
      /\ IF w.kind = "pasted" THEN NextPasted(id, flows, ready)
         ELSE /\ flows' = IF more THEN [flows EXCEPT ![id].left = Tail(@), ![id].sent = Inserted(w, ok)]
                          ELSE [flows EXCEPT ![id].left = <<>>, ![id].sent = <<>>, ![id].step = "done"]
              /\ UNCHANGED <<pending, open, ready>>
      /\ UNCHANGED <<closing, may, editor>>

-----------------------------------------------------------------------------
\* A new memo is stored and gets its address for uploads.
MemoPromoted ==
  /\ ready = <<>> /\ ~may /\ may' = TRUE
  /\ UNCHANGED <<flows, pending, open, closing, ready, editor, handling, stored, body, missed>>

\* The units that are asked about stand no longer.
Uprooted == [id \in DOMAIN flows |-> [flows[id] EXCEPT !.alive = @ /\ flows[id].step # "asking"]]

\* Undo, another tab's draft or the AI draws the document anew: the unit a page
\* was pasted into is gone.
DocumentDrawn ==
  /\ ready = <<>> /\ \E id \in DOMAIN flows : flows[id].step = "asking" /\ flows[id].alive
  /\ flows' = Uprooted
  /\ UNCHANGED <<pending, open, closing, ready, may, editor, handling, stored, body, missed>>

\* connect has mounted the editor.
Mounted ==
  /\ ready = <<>> /\ editor = "loading" /\ editor' = "here"
  /\ UNCHANGED <<flows, pending, open, closing, ready, may, handling, stored, body, missed>>

\* disconnect takes it down; what waits and what is uploaded goes on.
Disconnected ==
  /\ ready = <<>> /\ editor # "gone" /\ editor' = "gone" /\ flows' = Uprooted
  /\ UNCHANGED <<pending, open, closing, ready, may, handling, stored, body, missed>>

Next ==
  \/ \E c \in Clipboards : PastePictures(c) \/ \E f \in Files : PasteWebPage(c, f)
  \/ \E fs \in Batches : DropPictures(fs) \/ PickFiles(fs)
  \/ \E d \in Dialogs : CloseEvent(d) \/ \E a \in {"accept", "cancel"} : AnswerDialog(d, a)
  \/ \E id \in DOMAIN flows, ok \in BOOLEAN : UploadAnswered(id, ok)
  \/ Continue \/ MemoPromoted \/ DocumentDrawn \/ Mounted \/ Disconnected

Spec == Init /\ [][Next]_vars

-----------------------------------------------------------------------------
\* Whoever waits for a dialog will be answered by it: it is the flow whose
\* question the open dialog shows, so no paste hangs forever however questions
\* take over from each other and close events come late.
OnePromptWaits ==
  /\ \A id \in DOMAIN flows : flows[id].step = "asking" => pending[DialogOf(flows[id])] = id
  /\ \A d \in Dialogs : pending[d] # None => open[d] /\ flows[pending[d]].step = "asking"
  /\ \A id \in DOMAIN flows : flows[id].step = "answered" => id \in ToSet(ready)

\* Every picture the server has stored is put into the body as often as it was
\* stored, but for those of a batch that is still being uploaded and those whose
\* answer found no editor: no failure of the next picture and no other paste
\* keeps one out.  A page is put once, unless its unit went, or it was refused or
\* taken over and is not there as plain text.
StoredIsInserted ==
  \A f \in Files :
    stored[f] + Cardinality({id \in DOMAIN flows : /\ flows[id].kind = "web" /\ flows[id].step = "done"
                                                   /\ flows[id].left = <<f>> /\ flows[id].alive
                                                   /\ (flows[id].answer # "cancel" \/ flows[id].plain # "none")})
      = body[f] + missed[f]
          + Cardinality({at \in (DOMAIN flows) \X (1 .. MaxBatch) :
                          at[2] \in DOMAIN flows[at[1]].sent /\ flows[at[1]].sent[at[2]] = f})
=============================================================================
