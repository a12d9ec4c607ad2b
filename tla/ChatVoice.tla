----------------------------- MODULE ChatVoice -----------------------------
(***************************************************************************)
(* The voice of the chat (agent_chat): what is said into the microphone is *)
(* written into the field of the question, and an answer is read aloud,    *)
(* cut into chunks that are synthesised and played one after another.      *)
(***************************************************************************)
EXTENDS Naturals, Sequences, SequencesExt

CONSTANTS
  Answers,     \* the answers that may be read aloud: sequences of characters
  Marks,       \* the characters that end a sentence
  MaxChars,    \* maxChars: the longest chunk
  MaxTakes,    \* bound on what is recorded
  MaxWords     \* bound on what is typed

VoiceAssumption == MaxChars \in Nat \ {0} /\ MaxTakes \in Nat /\ MaxWords \in Nat

VARIABLES
  takes,    \* the recorders in order: waiting for the microphone, on, stopping, being written, done
  current,  \* mediaRecorder: the last that was given the microphone, or 0
  pressed,  \* aria-pressed of the button
  field,    \* the question: words typed and takes written
  typed,    \* how many words were typed
  answer,   \* the answer that is read
  reading   \* which chunk, and what was heard

vars == <<takes, current, pressed, field, typed, answer, reading>>

Steps == {"asking", "on", "stopping", "writing", "done"}
Words == [by : {"hand", "voice"}, n : 1 .. MaxTakes + MaxWords]

TypeOK ==
  /\ takes \in Seq(Steps) /\ Len(takes) <= MaxTakes /\ current \in 0 .. Len(takes)
  /\ pressed \in BOOLEAN /\ field \in Seq(Words) /\ typed \in 0 .. MaxWords
  /\ answer \in Answers
  /\ reading \in [chunk : Nat, step : {"silent", "asking", "playing"}, heard : Seq(UNION {ToSet(a) : a \in Answers})]

-----------------------------------------------------------------------------
\* Chunks

\* The sentences of a text: a run of characters and the mark behind it; other
\* marks are left out.
Sentences(t) ==
  LET runEnd(i) == CHOOSE e \in i .. Len(t) : /\ \A k \in i .. e : t[k] \notin Marks
                                              /\ e = Len(t) \/ t[e + 1] \in Marks
      from[i \in 1 .. Len(t) + 2] ==
        IF i > Len(t) THEN <<>>
        ELSE IF t[i] \in Marks THEN from[i + 1]
        ELSE LET e == runEnd(i)
             IN  <<SubSeq(t, i, IF e = Len(t) THEN e ELSE e + 1)>> \o from[e + 2]
  IN  from[1]

\* The parts of a sentence that is longer than a chunk.
Parts(s) == [k \in 1 .. ((Len(s) + MaxChars - 1) \div MaxChars) |->
               SubSeq(s, (k - 1) * MaxChars + 1, IF k * MaxChars < Len(s) THEN k * MaxChars ELSE Len(s))]

\* Mutated: what is left at the end is not read.
Unflushed(acc) == acc.done
\* The chunk that is left at the end.
Flushed(acc) == IF acc.chunk = <<>> THEN acc.done ELSE Append(acc.done, acc.chunk)

\* speechChunks: parts that fit are read together.
SpeechChunks(t) ==
  LET joined(acc, p) ==
        IF acc.chunk # <<>> /\ Len(acc.chunk) + Len(p) > MaxChars
        THEN [done |-> Append(acc.done, acc.chunk), chunk |-> p]
        ELSE [acc EXCEPT !.chunk = @ \o p]
      parts == FlattenSeq([i \in DOMAIN Sentences(t) |-> Parts(Sentences(t)[i])])
  IN  Flushed(FoldLeft(joined, [done |-> <<>>, chunk |-> <<>>], parts))

-----------------------------------------------------------------------------
Silent == [chunk |-> 0, step |-> "silent", heard |-> <<>>]
Init ==
  /\ takes = <<>> /\ current = 0 /\ pressed = FALSE /\ field = <<>> /\ typed = 0
  /\ answer \in Answers /\ reading = Silent

\* toggleRecording: stops the recorder that is on, or asks for the microphone.
Toggle ==
  /\ IF current > 0 /\ takes[current] = "on" THEN takes' = [takes EXCEPT ![current] = "stopping"]
     ELSE Len(takes) < MaxTakes /\ takes' = Append(takes, "asking")
  /\ UNCHANGED <<current, pressed, field, typed, answer, reading>>

Given(i) ==
  /\ takes[i] = "asking" /\ takes' = [takes EXCEPT ![i] = "on"]
  /\ current' = i /\ pressed' = TRUE /\ UNCHANGED <<field, typed, answer, reading>>

Refused(i) ==
  /\ takes[i] = "asking" /\ takes' = [takes EXCEPT ![i] = "done"]
  /\ UNCHANGED <<current, pressed, field, typed, answer, reading>>

\* transcribeRecording: the microphone goes off, and what was said is sent.
Transcribe(i) ==
  /\ takes[i] = "stopping" /\ takes' = [takes EXCEPT ![i] = "writing"]
  /\ pressed' = FALSE /\ UNCHANGED <<current, field, typed, answer, reading>>

\* Mutated: the text takes the place of what is in the field.
OnlyHeard(i) == <<[by |-> "voice", n |-> i]>>
\* What is in the field by now, and the text behind it.
Added(i) == Append(field, [by |-> "voice", n |-> i])

Written(i, ok) ==
  /\ takes[i] = "writing" /\ takes' = [takes EXCEPT ![i] = "done"]
  /\ field' = IF ok THEN Added(i) ELSE field
  /\ UNCHANGED <<current, pressed, typed, answer, reading>>

TypeWord ==
  /\ typed < MaxWords /\ typed' = typed + 1 /\ field' = Append(field, [by |-> "hand", n |-> typed + 1])
  /\ UNCHANGED <<takes, current, pressed, answer, reading>>

\* Sending empties the field.
Send ==
  /\ field # <<>> /\ field' = <<>> /\ UNCHANGED <<takes, current, pressed, typed, answer, reading>>

RecordNext ==
  \/ Toggle \/ TypeWord \/ Send
  \/ \E i \in DOMAIN takes : Given(i) \/ Refused(i) \/ Transcribe(i) \/ \E ok \in BOOLEAN : Written(i, ok)

-----------------------------------------------------------------------------
\* playSpeech: the button is disabled while the answer is read.
NextChunk(k) == [reading EXCEPT !.chunk = k, !.step = IF k > Len(SpeechChunks(answer)) THEN "silent" ELSE "asking"]

Read ==
  /\ reading.step = "silent" /\ reading' = [NextChunk(1) EXCEPT !.heard = <<>>]
  /\ UNCHANGED <<takes, current, pressed, field, typed, answer>>

\* synthesizeSpeechChunk
Synthesised(ok) ==
  /\ reading.step = "asking" /\ reading' = [reading EXCEPT !.step = IF ok THEN "playing" ELSE "silent"]
  /\ UNCHANGED <<takes, current, pressed, field, typed, answer>>

\* playAudio
Played(ok) ==
  /\ reading.step = "playing"
  /\ reading' = IF ok THEN [NextChunk(reading.chunk + 1) EXCEPT !.heard = @ \o SpeechChunks(answer)[reading.chunk]]
                ELSE [reading EXCEPT !.step = "silent"]
  /\ UNCHANGED <<takes, current, pressed, field, typed, answer>>

ReadNext == Read \/ \E ok \in BOOLEAN : Synthesised(ok) \/ Played(ok)

\* Listening and reading share nothing but the line that says what goes on.
Next == RecordNext \/ ReadNext

Spec == Init /\ [][Next]_vars

-----------------------------------------------------------------------------
\* The text of an answer but for the marks that follow a mark or begin it.
Said(t) ==
  LET kept == SelectSeq([i \in DOMAIN t |-> i], LAMBDA i : t[i] \notin Marks \/ (i > 1 /\ t[i - 1] \notin Marks))
  IN  [k \in DOMAIN kept |-> t[kept[k]]]

\* Whatever its sentences are, an answer is read from its beginning, and as a
\* whole when nothing fails, in chunks the service takes.
SpeechSaysAll ==
  /\ \A c \in ToSet(SpeechChunks(answer)) : Len(c) \in 1 .. MaxChars
  /\ IsPrefix(reading.heard, Said(answer))
  /\ reading.step = "silent" /\ reading.chunk > Len(SpeechChunks(answer)) => reading.heard = Said(answer)

\* What is typed while a take is written stays in the field: only sending takes
\* words out of it.
KeepsWords == field' = <<>> \/ IsPrefix(field, field')
=============================================================================
