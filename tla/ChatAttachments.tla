-------------------------- MODULE ChatAttachments --------------------------
(***************************************************************************)
(* The pictures that go with a chat's question: files of one's own, images *)
(* of memos, and photos of the Tsuzura albums.  Files and images are sent  *)
(* to the server one after the other, while the page goes on: a question   *)
(* may be sent, a picture taken back, another picker opened meanwhile.     *)
(***************************************************************************)
EXTENDS Integers, Sequences, FiniteSets, SequencesExt

CONSTANTS
  Files,              \* pictures of one's own
  Images,             \* Images[q]: images of memos found for q, in order; "" finds all
  Media,              \* Media[i]: the picture an image becomes
  Albums,             \* Albums[a]: the photos of an album
  Page,               \* images of a page
  MaxEdits, MaxFaults \* bounds of this model

AttachmentsAssumption == "" \in DOMAIN Images /\ {Page, MaxEdits, MaxFaults} \subseteq Nat

VARIABLES
  pending,   \* pendingAttachments
  chips,     \* what the row of chips shows
  uploads,   \* the rows of files still being sent, one for each choice of files
  images,    \* the dialog of images: open; chosen; boxes: those drawn checked; ready:
             \* the button; results; next: the cursor; field; timer
  load,      \* the request for images, or none: those before are aborted
  adding,    \* the rows of images still being sent
  photos,    \* the dialog of photos: open; album: whose photos are listed; checked; chosen
  opening,   \* albums asked for
  edits, faults   \* counters

vars == <<pending, chips, uploads, images, load, adding, photos, opening, edits, faults>>

Queries == DOMAIN Images
AllImages == ToSet(Images[""])
Pictures == Files \cup {Media[i] : i \in AllImages} \cup UNION {Albums[a] : a \in DOMAIN Albums}
Nothing == [q |-> "", from |-> 0]

TypeOK ==
  /\ {pending, chips} \subseteq Seq(Pictures)
  /\ \A u \in ToSet(uploads) : ToSet(u) \subseteq Files
  /\ images.chosen \cup images.boxes \subseteq AllImages /\ ToSet(images.results) \subseteq AllImages
  /\ images.next \in Nat /\ images.field \in Queries
  /\ {images.open, images.ready, images.timer, photos.open} \subseteq BOOLEAN
  /\ \A r \in ToSet(adding) : ToSet(r.todo) \cup r.failed \subseteq AllImages
  /\ photos.album \in DOMAIN Albums \cup {""} /\ photos.checked \cup photos.chosen \subseteq Pictures
  /\ opening \in Seq(DOMAIN Albums)

Init ==
  /\ pending = <<>> /\ chips = <<>> /\ uploads = <<>> /\ load = Nothing /\ adding = <<>>
  /\ images = [open |-> FALSE, chosen |-> {}, boxes |-> {}, ready |-> FALSE, results |-> <<>>,
               next |-> 0, field |-> "", timer |-> FALSE]
  /\ photos = [open |-> FALSE, album |-> "", checked |-> {}, chosen |-> {}]
  /\ opening = <<>> /\ edits = 0 /\ faults = 0

Edit == edits < MaxEdits /\ edits' = edits + 1
Fault == faults < MaxFaults /\ faults' = faults + 1

-----------------------------------------------------------------------------
\* The row of chips

\* Mutated: the chips are left as they were.
Unshown(p) == pending' = p /\ chips' = chips
\* Every change but a picture that has just been sent draws the chips anew.
Shown(p) == pending' = p /\ chips' = p

\* A chip's cross takes back the picture at the place it was drawn.
TakeBack(i) ==
  /\ Edit /\ Shown(RemoveAt(pending, i))
  /\ UNCHANGED <<uploads, images, load, adding, photos, opening, faults>>

\* send takes the pictures along; clearChat drops them.
SendOrClear ==
  /\ Edit /\ pending # <<>> /\ Shown(<<>>)
  /\ UNCHANGED <<uploads, images, load, adding, photos, opening, faults>>

-----------------------------------------------------------------------------
\* Files

\* addFiles: the files are sent in turn, also those that are there already.
AddFiles(f, g) ==
  /\ Edit
  /\ uploads' = Append(uploads, IF f = g THEN <<f>> ELSE <<f, g>>)
  /\ UNCHANGED <<pending, chips, images, load, adding, photos, opening, faults>>

\* One file is there, or has failed; after the last the chips are drawn.
FileSent(k, ok) ==
  LET u == uploads[k]
      p == IF ok THEN Append(pending, Head(u)) ELSE pending
  IN  /\ IF Len(u) = 1 THEN Shown(p) ELSE pending' = p /\ chips' = chips
      /\ uploads' = IF Len(u) = 1 THEN RemoveAt(uploads, k) ELSE [uploads EXCEPT ![k] = Tail(u)]
      /\ IF ok THEN UNCHANGED faults ELSE Fault
      /\ UNCHANGED <<images, load, adding, photos, opening, edits>>

-----------------------------------------------------------------------------
\* Images of memos

\* What a page of the search q that starts behind `from` brings.
PageOf(q, from) ==
  SubSeq(Images[q], from + 1, IF from + Page < Len(Images[q]) THEN from + Page ELSE Len(Images[q]))
More(q, from) == IF from + Page < Len(Images[q]) THEN from + Page ELSE 0

\* mergeMemoImageResults
Merged(old, new) == old \o SelectSeq(new, LAMBDA i : i \notin ToSet(old))

\* loadMemoImages: the request before is aborted; a new list forgets the cursor.
Asks(q) == load' = [q |-> q, from |-> 1]
AsksMore(q) == load' = [q |-> q, from |-> images.next + 1]

\* showMemoImagePicker, on all memos or on those referred to; nothing is
\* chosen, though the boxes of before stand until the answer.
OpenImages ==
  /\ Edit /\ ~images.open /\ Asks("")
  /\ images' = [images EXCEPT !.open = TRUE, !.chosen = {}, !.next = 0]
  /\ UNCHANGED <<pending, chips, uploads, adding, photos, opening, faults>>

CloseImages ==
  /\ images.open /\ images' = [images EXCEPT !.open = FALSE]
  /\ UNCHANGED <<pending, chips, uploads, load, adding, photos, opening, edits, faults>>

SearchImages(q) ==
  /\ Edit /\ images.open /\ images' = [images EXCEPT !.field = q, !.timer = TRUE]
  /\ UNCHANGED <<pending, chips, uploads, load, adding, photos, opening, faults>>

SearchFires ==
  /\ images.timer /\ Asks(images.field)
  /\ images' = [images EXCEPT !.timer = FALSE, !.next = 0]
  /\ UNCHANGED <<pending, chips, uploads, adding, photos, opening, edits, faults>>

\* loadMoreMemoImages: what the field says now, from the list's cursor.
LoadMore ==
  /\ images.open /\ images.next # 0 /\ load.from <= 1 /\ AsksMore(images.field)
  /\ UNCHANGED <<pending, chips, uploads, images, adding, photos, opening, edits, faults>>

Loaded ==
  LET from == load.from - 1
  IN  /\ load.from # 0 /\ load' = Nothing
      /\ images' = [images EXCEPT
           !.results = IF from = 0 THEN PageOf(load.q, 0) ELSE Merged(@, PageOf(load.q, from)),
           !.next = More(load.q, from), !.boxes = images.chosen, !.ready = images.chosen # {}]
      /\ UNCHANGED <<pending, chips, uploads, adding, photos, opening, edits, faults>>

LoadFails ==
  /\ load.from # 0 /\ load' = Nothing /\ Fault
  /\ UNCHANGED <<pending, chips, uploads, images, adding, photos, opening, edits>>

\* A box; it also enables the button again while images are being sent.
ClickImage(i) ==
  /\ Edit /\ images.open /\ i \in ToSet(images.results)
  /\ LET chosen == IF i \in images.boxes THEN images.chosen \ {i} ELSE images.chosen \cup {i}
     IN  images' = [images EXCEPT !.chosen = chosen, !.ready = chosen # {},
                      !.boxes = IF i \in @ THEN @ \ {i} ELSE @ \cup {i}]
  /\ UNCHANGED <<pending, chips, uploads, load, adding, photos, opening, faults>>

\* confirmMemoImageSelection: the chosen images are sent in turn.
ConfirmImages ==
  /\ Edit /\ images.open /\ images.ready /\ images.chosen # {}
  /\ adding' = Append(adding, [todo |-> SetToSeq(images.chosen), failed |-> {}])
  /\ images' = [images EXCEPT !.ready = FALSE]
  /\ UNCHANGED <<pending, chips, uploads, load, photos, opening, faults>>

\* Mutated: that the picture is there is not seen.
Again(p, x) == Append(p, x)
\* A picture that is there already is not added.
Added(p, x) == IF x \in ToSet(p) THEN p ELSE Append(p, x)

\* One image is there, or has failed.  After the last, those that failed are
\* chosen, whatever the dialog has come to show; if none has, it closes.
ImageSent(k, ok) ==
  LET r == adding[k]
      p == IF ok THEN Added(pending, Media[Head(r.todo)]) ELSE pending
      failed == r.failed \cup IF ok THEN {} ELSE {Head(r.todo)}
  IN  /\ IF Len(r.todo) > 1
         THEN /\ adding' = [adding EXCEPT ![k] = [todo |-> Tail(r.todo), failed |-> failed]]
              /\ pending' = p /\ UNCHANGED <<chips, images>>
         ELSE /\ adding' = RemoveAt(adding, k) /\ Shown(p)
              /\ images' = [images EXCEPT !.chosen = failed, !.open = @ /\ failed # {},
                             !.ready = failed # {}, !.boxes = IF failed = {} THEN @ ELSE failed]
      /\ IF ok THEN UNCHANGED faults ELSE Fault
      /\ UNCHANGED <<uploads, load, photos, opening, edits>>

-----------------------------------------------------------------------------
\* Photos of the albums

OpenPhotos ==
  /\ Edit /\ ~photos.open
  /\ photos' = [open |-> TRUE, album |-> "", checked |-> {}, chosen |-> {}]
  /\ UNCHANGED <<pending, chips, uploads, images, load, adding, opening, faults>>

ClosePhotos ==
  /\ photos.open /\ photos' = [photos EXCEPT !.open = FALSE]
  /\ UNCHANGED <<pending, chips, uploads, images, load, adding, opening, edits, faults>>

OpenAlbum(a) ==
  /\ Edit /\ photos.open /\ opening' = Append(opening, a)
  /\ UNCHANGED <<pending, chips, uploads, images, load, adding, photos, faults>>

\* renderTsuzuraMedia: any album's answer is listed, with no box checked;
\* what was chosen before stays chosen.
AlbumOpened(k) ==
  /\ opening' = RemoveAt(opening, k)
  /\ photos' = [photos EXCEPT !.album = opening[k], !.checked = {}]
  /\ UNCHANGED <<pending, chips, uploads, images, load, adding, edits, faults>>

AlbumFails(k) ==
  /\ Fault /\ opening' = RemoveAt(opening, k)
  /\ UNCHANGED <<pending, chips, uploads, images, load, adding, photos, edits>>

\* syncTsuzuraSelection: the boxes now listed are chosen, and no others.
ClickPhoto(x) ==
  LET checked == IF x \in photos.checked THEN photos.checked \ {x} ELSE photos.checked \cup {x}
  IN  /\ Edit /\ photos.open /\ photos.album # "" /\ x \in Albums[photos.album]
      /\ photos' = [photos EXCEPT !.checked = checked, !.chosen = checked]
      /\ UNCHANGED <<pending, chips, uploads, images, load, adding, opening, faults>>

ConfirmPhotos ==
  /\ photos.open /\ photos.chosen # {}
  /\ Shown(FoldLeft(Added, pending, SetToSeq(photos.chosen)))
  /\ photos' = [photos EXCEPT !.open = FALSE]
  /\ UNCHANGED <<uploads, images, load, adding, opening, edits, faults>>

-----------------------------------------------------------------------------
Next ==
  \/ \E i \in DOMAIN chips : TakeBack(i)
  \/ SendOrClear
  \/ \E f, g \in Files : AddFiles(f, g)
  \/ \E k \in DOMAIN uploads, ok \in BOOLEAN : FileSent(k, ok)
  \/ OpenImages \/ CloseImages \/ SearchFires \/ LoadMore \/ Loaded \/ LoadFails \/ ConfirmImages
  \/ \E q \in Queries : SearchImages(q)
  \/ \E i \in AllImages : ClickImage(i)
  \/ \E k \in DOMAIN adding, ok \in BOOLEAN : ImageSent(k, ok)
  \/ OpenPhotos \/ ClosePhotos \/ ConfirmPhotos
  \/ \E a \in DOMAIN Albums : OpenAlbum(a)
  \/ \E k \in DOMAIN opening : AlbumOpened(k) \/ AlbumFails(k)
  \/ \E x \in Pictures : ClickPhoto(x)

Spec == Init /\ [][Next]_vars

-----------------------------------------------------------------------------
\* A cross takes back the picture it stands on, although pictures arrive
\* without a new row being drawn (attachmentChipNode splices at the place it
\* remembers): the row is always how the pictures begin, and once nothing is
\* being sent it shows them all.
ChipsShowAttachments ==
  /\ IsPrefix(chips, pending)
  /\ uploads = <<>> /\ adding = <<>> => chips = pending

\* No image of a memo and no photo of an album goes along twice, however the
\* rows of files and images and the two pickers overlap, and although the two may
\* find the same picture.  (A file that is added twice does: addFiles looks for none.)
NothingTwice ==
  \A i, j \in DOMAIN pending : pending[i] = pending[j] /\ pending[i] \notin Files => i = j
=============================================================================
