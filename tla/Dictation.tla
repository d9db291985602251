-------------------------------- MODULE Dictation --------------------------------
(***************************************************************************)
(* Dictation in the browser: the speech recognizer's cycles                *)
(* (lib/voice/use-browser-transcription.ts), how transcripts are merged    *)
(* (transcript-merge.ts), the panel that shows and corrects them           *)
(* (components/VoiceTranscriptPanel.tsx), the handlers that open and send  *)
(* it (use-a-term-action-handlers.ts) and the Pause key, which opens and   *)
(* sends it too (use-a-term-orchestration.ts).                             *)
(*                                                                         *)
(* A browser ends a cycle of recognition whenever it likes; the hook       *)
(* begins the next and joins the words.  Words are numbers, each spoken    *)
(* once: a word said twice in a row may be taken for a repeated transcript *)
(* (see the README).  A handler and the effects of the renders it causes   *)
(* are one step.                                                           *)
(***************************************************************************)
EXTENDS Naturals, SequencesExt

CONSTANTS
  MaxWords,   \* bound: words spoken, corrected or typed
  MaxCycles   \* bound: recognitions begun

VARIABLES
  cumulative,  \* the browser's transcripts repeat the earlier ones of a cycle
  rec,         \* recognitionRef: "none", "running" or "stopping" (stop() was called)
  requested,   \* listeningRequestedRef
  status, failed,              \* status, and whether errorRef is set
  final, interim,              \* finalTranscript and interimTranscript
  cycle,       \* the closure of startRecognition: see NewCycle
  guess,       \* the browser: words of the cycle it is not sure of
  panel,       \* showVoice: the panel is there
  edited, baseline, recognized, \* editedText, editBaseline, previousRecognizedTextRef
  said, cycles, \* budgets spent: words and recognitions
  settled,     \* history: what the user said and corrected, but for the words being guessed
  gone,        \* history: how many of those words a retry after an error has taken
  sent         \* history: what was sent last, what the user had to see then, and how

hook == <<rec, requested, status, failed, cycle, cycles>>
draft == <<edited, baseline, recognized>>
heard == <<guess, said, settled, gone>>
vars == <<cumulative, hook, final, interim, panel, draft, heard, sent>>

None == <<0>>   \* no baseline: the text is not corrected

-------------------------------------------------------------------------------
(***************************************************************************)
(* transcript-merge.ts.                                                    *)
(***************************************************************************)

\* How many words the end of base shares with the start of addition.
Overlap(base, addition) ==
  LET sizes == {k \in 1..Len(base) : k <= Len(addition)
                  /\ SubSeq(base, Len(base) - k + 1, Len(base)) = SubSeq(addition, 1, k)}
  IN IF sizes = {} THEN 0 ELSE CHOOSE k \in sizes : \A l \in sizes : l <= k

\* getTranscriptAppendSuffix.
Suffix(base, addition) == SubSeq(addition, Overlap(base, addition) + 1, Len(addition))

\* mergeTranscriptSegments.
Merge(segments) ==
  LET merged[n \in 0..Len(segments)] ==
        IF n = 0 THEN <<>>
        ELSE merged[n - 1] \o Suffix(merged[n - 1], segments[n])
  IN merged[Len(segments)]

-------------------------------------------------------------------------------
(***************************************************************************)
(* The panel's text.                                                       *)
(***************************************************************************)

Pending ==
  IF baseline = None THEN interim ELSE Suffix(baseline, Merge(<<final, interim>>))

\* combinedTranscript: what the panel shows, and sends.
Combined == Merge(<<edited, Pending>>)

\* The hook's transcripts become f and i, and the panel's effect runs.
Transcribed(f, i) ==
  LET text == Merge(<<f, i>>)
      erased == text = <<>> /\ recognized # <<>>
  IN /\ final' = f /\ interim' = i
     /\ IF panel /\ (f # final \/ i # interim)
        THEN /\ recognized' = text
             /\ baseline' = IF erased THEN None ELSE baseline
             /\ edited' = IF baseline' = None THEN f ELSE edited
        ELSE UNCHANGED draft

-------------------------------------------------------------------------------
(***************************************************************************)
(* The recognizer and its callbacks.                                       *)
(***************************************************************************)

\* Bug: the next cycle begins with what is final.
NewCycleFinalOnly == [final |-> final, interim |-> <<>>, segments |-> <<>>]

\* What startRecognition closes over: the final words so far, the words the
\* last cycle left unfinished, and the final segments of this one.
NewCycle == [final |-> final, interim |-> Suffix(final, interim), segments |-> <<>>]
Nothing == [final |-> <<>>, interim |-> <<>>, segments |-> <<>>]

\* startRecognition: the browser starts, or refuses and start() throws.
StartRecognition(closure) ==
  /\ cycles < MaxCycles
  /\ cycles' = cycles + 1
  /\ \/ /\ rec' = "running" /\ requested' = TRUE
        /\ cycle' = closure
        /\ status' = "listening"
        /\ failed' = FALSE
     \/ /\ rec' = "none" /\ requested' = FALSE
        /\ status' = "error"
        /\ failed' = TRUE
        /\ UNCHANGED cycle

\* The words the browser was guessing stay with the user when a cycle is over.
GuessStays == settled' = settled \o guess /\ guess' = <<>> /\ UNCHANGED <<said, gone>>

\* onresult, with the final segments and the guess the browser has now.
OnResult(segments, unsure) ==
  LET cycleFinal == Merge(segments)
      confirmed == cycle.interim # <<>> /\ IsPrefix(cycle.interim, cycleFinal)
      before == IF confirmed THEN <<>> ELSE cycle.interim
      f == IF before # <<>> THEN cycle.final ELSE Merge(<<cycle.final, cycleFinal>>)
      i == Merge(<<before, IF before # <<>> THEN cycleFinal ELSE <<>>, unsure>>)
  IN /\ cycle' = [cycle EXCEPT !.interim = before, !.segments = segments]
     /\ Transcribed(f, i)
     /\ failed' = (failed /\ f = <<>> /\ i = <<>>)
     /\ UNCHANGED <<rec, requested, status, cycles>>

\* A transcript of the words, after the earlier ones of the cycle or alone.
Transcript(words) ==
  IF cumulative THEN Merge(cycle.segments) \o words ELSE words

\* The browser hears a word and guesses.
Hears ==
  /\ rec # "none"
  /\ said < MaxWords
  /\ said' = said + 1
  /\ guess' = Append(guess, said')
  /\ OnResult(cycle.segments, Transcript(guess'))
  /\ UNCHANGED <<cumulative, panel, settled, gone, sent>>

\* It makes up its mind: the guess is final, perhaps with another last word.
Settles ==
  /\ rec # "none"
  /\ guess # <<>>
  /\ guess' = <<>>
  /\ \E words \in {guess, [guess EXCEPT ![Len(guess)] = said + 1]} :
       /\ said' = (IF words = guess THEN said ELSE said + 1)
       /\ said' <= MaxWords
       /\ settled' = settled \o words
       /\ OnResult(Append(cycle.segments, Transcript(words)), <<>>)
  /\ UNCHANGED <<cumulative, panel, gone, sent>>

\* A cycle may begin with the words the last one left unfinished.
Confirms ==
  /\ rec # "none"
  /\ cycle.interim # <<>> /\ cycle.segments = <<>> /\ guess = <<>>
  /\ OnResult(<<cycle.interim>>, <<>>)
  /\ UNCHANGED <<cumulative, panel, heard, sent>>

\* onend: the next cycle, if the user still dictates.
OnEnd ==
  /\ rec # "none"
  /\ GuessStays
  /\ IF requested THEN StartRecognition(NewCycle)
     ELSE /\ rec' = "none"
          /\ status' = IF failed THEN "error" ELSE "idle"
          /\ UNCHANGED <<requested, failed, cycle, cycles>>
  /\ UNCHANGED <<cumulative, final, interim, panel, draft, sent>>

\* onerror, but for no-speech, which onend follows.
OnError ==
  /\ rec # "none"
  /\ rec' = "none" /\ requested' = FALSE
  /\ status' = "error" /\ failed' = TRUE
  /\ GuessStays
  /\ UNCHANGED <<cumulative, cycle, cycles, final, interim, panel, draft, sent>>

-------------------------------------------------------------------------------
(***************************************************************************)
(* The user.                                                               *)
(***************************************************************************)

\* startListening: a recognition that is stopping is aborted.
StartListening ==
  /\ IF requested THEN UNCHANGED <<hook, heard>>
     ELSE GuessStays /\ StartRecognition(NewCycle)
  /\ UNCHANGED <<cumulative, final, interim, sent>>

\* stopListening: the last results are awaited, unless stop() throws.
StopListening ==
  /\ requested' = FALSE
  /\ \/ /\ rec' = IF rec = "none" THEN "none" ELSE "stopping"
        /\ status' = IF rec # "none" /\ status = "listening" THEN "processing" ELSE status
        /\ UNCHANGED heard
     \/ /\ rec # "none"
        /\ rec' = "none"
        /\ status' = IF failed THEN "error" ELSE "idle"
        /\ GuessStays
  /\ UNCHANGED <<cumulative, failed, cycle, cycles, final, interim, sent>>

\* handleVoiceOpen: the panel mounts with what is final (nothing: a panel that
\* closes resets).
Open ==
  /\ ~panel
  /\ panel' = TRUE
  /\ edited' = final /\ baseline' = None /\ recognized' = Merge(<<final, interim>>)
  /\ StartListening

\* handleVoiceToggle.
Toggle ==
  /\ panel
  /\ IF status = "listening" THEN StopListening ELSE StartListening
  /\ UNCHANGED <<panel, draft>>

\* The microphone of the desktop panel after an error: resetTranscript, which takes
\* everything if anything is recognized, the user's corrections too, and a new start.
RetryAfterError ==
  /\ panel
  /\ status = "error"
  /\ Transcribed(<<>>, <<>>)
  /\ guess' = <<>>
  /\ gone' = IF recognized = <<>> THEN gone ELSE Len(settled)
  /\ StartRecognition(Nothing)
  /\ UNCHANGED <<cumulative, panel, said, settled, sent>>

\* handleEdit, which the field allows while nothing is listening: the user
\* erases everything, or corrects it to a word of their own.
Edit ==
  /\ panel
  /\ status \notin {"listening", "processing"}
  /\ \/ edited' = <<>> /\ UNCHANGED said
     \/ said < MaxWords /\ said' = said + 1 /\ edited' = <<said'>>
  /\ baseline' = Merge(<<final, interim>>)
  /\ settled' = edited' /\ gone' = 0
  /\ UNCHANGED <<cumulative, hook, final, interim, panel, recognized, guess, sent>>

\* What the user said and corrected, less what a retry has taken.
Left == SubSeq(settled, gone + 1, Len(settled))

\* The panel goes: handleVoiceSend, handleVoiceInsert and handleVoiceCancel stop and reset.
Gone ==
  /\ panel
  /\ panel' = FALSE
  /\ rec' = "none" /\ requested' = FALSE /\ status' = "idle" /\ failed' = FALSE
  /\ final' = <<>> /\ interim' = <<>>
  /\ edited' = <<>> /\ baseline' = None /\ recognized' = <<>>
  /\ guess' = <<>> /\ settled' = <<>> /\ gone' = 0
  /\ UNCHANGED <<cumulative, cycle, cycles, said>>

\* handleSend and handleInsert of the panel.  Cancelling sends nothing.
Close ==
  /\ Gone
  /\ \/ Combined # <<>> /\ sent' = [text |-> Combined, shown |-> Left \o guess, how |-> "panel"]
     \/ UNCHANGED sent

\* handlePauseVoiceSend, the Pause key while the panel is there: what is final is sent,
\* without corrections; where nothing is, the dictation is cancelled.
PauseKey ==
  /\ Gone
  /\ sent' = [text |-> final, shown |-> Left \o guess,
              how |-> IF baseline = None THEN "key" ELSE "corrected"]

Init ==
  /\ cumulative \in BOOLEAN
  /\ rec = "none" /\ requested = FALSE /\ status = "idle" /\ failed = FALSE
  /\ cycle = Nothing /\ cycles = 0
  /\ final = <<>> /\ interim = <<>>
  /\ panel = FALSE /\ edited = <<>> /\ baseline = None /\ recognized = <<>>
  /\ guess = <<>> /\ said = 0 /\ settled = <<>> /\ gone = 0
  /\ sent = [text |-> <<>>, shown |-> <<>>, how |-> "panel"]

Next ==
  \/ Hears \/ Settles \/ Confirms \/ OnEnd \/ OnError
  \/ Open \/ Toggle \/ RetryAfterError \/ Edit \/ Close \/ PauseKey

Spec == Init /\ [][Next]_vars

-------------------------------------------------------------------------------
(***************************************************************************)
(* Properties.                                                             *)
(***************************************************************************)

Words == Seq(1..MaxWords)

\* How a text is sent: by the panel, by the Pause key, or by the key after a correction.
Ways == {"panel", "key", "corrected"}

TypeOK ==
  /\ cumulative \in BOOLEAN /\ requested \in BOOLEAN /\ failed \in BOOLEAN /\ panel \in BOOLEAN
  /\ rec \in {"none", "running", "stopping"}
  /\ status \in {"idle", "listening", "processing", "error"}
  /\ cycle \in [final : Words, interim : Words, segments : Seq(Words)]
  /\ final \in Words /\ interim \in Words /\ edited \in Words /\ recognized \in Words
  /\ baseline \in Words \cup {None}
  /\ guess \in Words /\ settled \in Words /\ gone \in 0..Len(settled)
  /\ said \in 0..MaxWords /\ cycles \in 0..MaxCycles
  /\ sent \in [text : Words, shown : Words, how : Ways]

\* What the panel sends is what the user had to see, and what the Pause key sends is how
\* that begins, unless the user had corrected it.
SendsWhatIsShown ==
  /\ sent.how = "panel" => sent.text = sent.shown
  /\ sent.how = "key" => IsPrefix(sent.text, sent.shown)

\* The panel shows what the user said and corrected, every word once and in order,
\* whatever cycles the browser cut the speech into (use-browser-transcription.ts), and
\* sends that; and its field is locked exactly while a recognizer runs that will report
\* its end.  Two exceptions: the desktop panel's retry after an error takes all there is
\* when any of it was recognized; and the Pause key sends what is final and no more, which
\* leaves out the end, the words the browser has not settled, or, once the user has
\* corrected something, the corrections.
WordsKept ==
  /\ panel => Combined = Left \o guess
  /\ SendsWhatIsShown
  /\ (status \in {"listening", "processing"}) = (rec # "none")
==================================================================================
