------------------------------- MODULE OutputBatch ------------------------------
(***************************************************************************)
(* The batch loop of a view (services/_output_batch.py): chunks of bytes   *)
(* from the control client's queue become text, and text becomes frames.   *)
(*                                                                         *)
(* A chunk ends anywhere, in the middle of a character or of an escape     *)
(* sequence.  A part of a character waits for its rest, and a batch that   *)
(* ends inside an escape sequence is held back for a while.                *)
(*                                                                         *)
(* The program writes valid text.  Its bytes: the four of one long         *)
(* character, ESC, the "]" that after it opens a sequence (OSC), and the   *)
(* BEL that ends it.  CSI and DCS differ only in what opens and ends them. *)
(***************************************************************************)
EXTENDS Naturals, Sequences, FiniteSets, FiniteSetsExt

CONSTANTS
  MaxBytes,   \* bound: bytes the program writes
  MaxChunk,   \* bound: bytes of a chunk
  MaxChunks,  \* bound: chunks that wait in the queue
  SizeLimit   \* BATCH_SIZE_LIMIT, in characters

VARIABLES
  written,  \* all bytes so far
  queue,    \* where the chunks that wait in the queue end
  taken,    \* how many bytes were taken from the queue
  utf8,     \* state["utf8"]
  batch,    \* state["batch"]
  sent,     \* the text of the frames
  holds,    \* state["_esc_hold_count"]
  loop      \* "running", or how it ended

vars == <<written, queue, taken, utf8, batch, sent, holds, loop>>

Long == <<"u1", "u2", "u3", "u4">>
Single == {"ESC", "]", "BEL"}
Bytes == Single \cup {"u1", "u2", "u3", "u4"}

Init ==
  /\ written = <<>> /\ queue = <<>> /\ taken = 0
  /\ utf8 = <<>> /\ batch = <<>> /\ sent = <<>>
  /\ holds = 0 /\ loop = "running"

-------------------------------------------------------------------------------
(***************************************************************************)
(* Decoding.                                                               *)
(***************************************************************************)

\* The bytes that belong to a whole character.
Whole(bytes) ==
  {i \in DOMAIN bytes : bytes[i] \in Single
     \/ \E k \in 1..4 : i - k >= 0 /\ i - k + 4 <= Len(bytes)
                         /\ SubSeq(bytes, i - k + 1, i - k + 4) = Long}

\* The bytes that a long character begins with: it stands where its last byte was.
Lead == {"u1", "u2", "u3"}

\* What is seen of bytes.
Shown(bytes) ==
  LET seen[n \in 0..Len(bytes)] ==
        IF n = 0 THEN <<>>
        ELSE IF bytes[n] \in Lead THEN seen[n - 1]
        ELSE Append(seen[n - 1], bytes[n])
  IN seen[Len(bytes)]

\* Text of bytes: a byte of no character is replaced.
Text(bytes) ==
  LET ok == Whole(bytes)
  IN Shown([i \in DOMAIN bytes |-> IF i \in ok THEN bytes[i] ELSE "?"])

\* Bug: a start of three bytes is too long to wait.
DecodeTwoAtMost(bytes) ==
  LET bad == DOMAIN bytes \ Whole(bytes) IN
    IF bad = {} \/ Len(bytes) - Min(bad) + 1 > 2
    THEN [text |-> Text(bytes), rest |-> <<>>]
    ELSE [text |-> Text(SubSeq(bytes, 1, Min(bad) - 1)),
          rest |-> SubSeq(bytes, Min(bad), Len(bytes))]

\* _decode_output: a bad byte among the last three is the start of a character
\* whose rest comes with the next chunk; any other is replaced.
Decode(bytes) ==
  LET bad == DOMAIN bytes \ Whole(bytes) IN
    IF bad = {} \/ Len(bytes) - Min(bad) + 1 > 3
    THEN [text |-> Text(bytes), rest |-> <<>>]
    ELSE [text |-> Text(SubSeq(bytes, 1, Min(bad) - 1)),
          rest |-> SubSeq(bytes, Min(bad), Len(bytes))]

\* _has_incomplete_escape.
HasIncompleteEscape(text) ==
  LET escapes == {i \in DOMAIN text : text[i] = "ESC"}
      tail == SubSeq(text, Max(escapes), Len(text))
  IN /\ escapes # {}
     /\ \/ Len(tail) = 1
        \/ /\ tail[2] = "]"
           /\ \A i \in 3..Len(tail) : tail[i] # "BEL"

-------------------------------------------------------------------------------
(***************************************************************************)
(* The loop.                                                               *)
(***************************************************************************)

\* A byte of valid text goes on with the long character under way, or begins one.
Follows(bytes, i) ==
  IF i = 1 \/ bytes[i - 1] \in Single \cup {"u4"}
  THEN bytes[i] \in Single \cup {"u1"}
  ELSE \E k \in 1..3 : bytes[i - 1] = Long[k] /\ bytes[i] = Long[k + 1]

\* Valid text: every long character in order, and only the last one cut short.
Valid(bytes) == \A i \in DOMAIN bytes : Follows(bytes, i)

Chunks == UNION {[1..n -> Bytes] : n \in 1..MaxChunk}

\* The program writes, and the reader of the control client puts a chunk.
PutChunk ==
  /\ loop = "running"
  /\ Len(queue) < MaxChunks
  /\ \E chunk \in Chunks :
       /\ Len(written \o chunk) <= MaxBytes
       /\ Valid(written \o chunk)
       /\ written' = written \o chunk
       /\ queue' = Append(queue, Len(written \o chunk))
  /\ UNCHANGED <<taken, utf8, batch, sent, holds, loop>>

\* _flush_batch, which the loop does not survive when the socket fails.
Flush(text) ==
  \/ /\ sent' = sent \o text
     /\ batch' = <<>>
     /\ UNCHANGED loop
  \/ /\ text # <<>>
     /\ loop' = "failed"
     /\ batch' = text
     /\ UNCHANGED sent

\* Whether a batch that just grew goes at once.
Ready(text) ==
  /\ ~HasIncompleteEscape(text)
  /\ Len(text) >= SizeLimit \/ Len(queue) = 1

\* _run_one_iteration, with a chunk.
TakeChunk ==
  /\ loop = "running"
  /\ queue # <<>>
  /\ LET decoded == Decode(utf8 \o SubSeq(written, taken + 1, Head(queue)))
         text == batch \o decoded.text
     IN /\ utf8' = decoded.rest
        /\ IF decoded.text # <<>> /\ Ready(text)
           THEN Flush(text)
           ELSE batch' = text /\ UNCHANGED <<sent, loop>>
  /\ taken' = Head(queue)
  /\ queue' = Tail(queue)
  /\ holds' = 0
  /\ UNCHANGED written

\* Bug: nobody counts the pauses.
WaitedUncounted == holds

\* Pauses in a row, this one included.
Waited == holds + 1

\* Whether a pause still holds the batch: the first one does.
Held == HasIncompleteEscape(batch) /\ Waited < 2

\* _run_one_iteration, after a pause.
Pause ==
  /\ loop = "running"
  /\ queue = <<>>
  /\ IF Held
     THEN holds' = Waited /\ UNCHANGED <<batch, sent, loop>>
     ELSE holds' = 0 /\ Flush(batch)
  /\ UNCHANGED <<written, queue, taken, utf8>>

\* _run_one_iteration, with the None of the end; what was held of a character
\* is dropped.
TakeEnd ==
  /\ loop = "running"
  /\ queue = <<>>
  /\ \/ /\ sent' = sent \o batch /\ loop' = "ended" /\ batch' = <<>>
     \/ batch # <<>> /\ loop' = "failed" /\ UNCHANGED <<sent, batch>>
  /\ UNCHANGED <<written, queue, taken, utf8, holds>>

\* The view closes: _run_batch_loop is cancelled, and sends what it has.
Cancel ==
  /\ loop = "running"
  /\ loop' = "cancelled"
  /\ sent' = sent \o batch
  /\ batch' = <<>>
  /\ UNCHANGED <<written, queue, taken, utf8, holds>>

Next == PutChunk \/ TakeChunk \/ Pause \/ TakeEnd \/ Cancel

Spec == Init /\ [][Next]_vars

\* asyncio runs the loop, and its timeout comes.
FairSpec == Spec /\ WF_vars(TakeChunk) /\ WF_vars(Pause)

-------------------------------------------------------------------------------
(***************************************************************************)
(* Properties.                                                             *)
(***************************************************************************)

TypeOK ==
  /\ \A s \in {written, utf8, batch, sent} : s \in Seq(Bytes)
  /\ queue \in Seq(1..MaxBytes) /\ Len(queue) <= MaxChunks
  /\ taken \in 0..MaxBytes
  /\ Len(utf8) <= 3
  /\ holds \in 0..1
  /\ loop \in {"running", "ended", "failed", "cancelled"}

\* However the bytes are cut into chunks, no character is lost, doubled or replaced: the
\* frames and the batch are what is seen of the bytes taken.
TextIsWhole == sent \o batch = Shown(SubSeq(written, 1, taken))

\* No escape sequence that stays unfinished holds the screen for ever: what waits is
\* sent, although nothing more is written.
HeldTextIsSent == (batch # <<>>) ~> (batch = <<>> \/ loop # "running")
===============================================================================
