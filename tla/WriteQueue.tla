------------------------------- MODULE WriteQueue -------------------------------
(***************************************************************************)
(* The browser's write queue (use-a-term-write-queue.ts) between the       *)
(* socket and xterm, with a server that seeds and reseeds as               *)
(* ControlTerminal shows.                                                  *)
(*                                                                         *)
(* A message is one item: [reset, upto, from].  Plain output `upto'        *)
(* continues the item before it; a seed, or a program's own reset, starts  *)
(* with FULL_RESET and shows everything up to `upto'.  `from' is the       *)
(* connection that brought it.                                             *)
(*                                                                         *)
(* A view that is hidden may be connected all the same: it disconnects     *)
(* when it is hidden, but a page that becomes visible, and the retries of  *)
(* what that opens, connect every mounted view that has no socket.         *)
(***************************************************************************)
EXTENDS Naturals, Sequences, SequencesExt

CONSTANTS MaxOutput,   \* bound: outputs of the program
          MaxConnects, \* bound: connections
          MaxWire      \* bound: messages under way

VARIABLES
  output,     \* outputs of the program so far
  connected,  \* the socket is open
  connects,   \* connections so far
  wire,       \* messages on their way to the browser
  asked,      \* a refresh is on its way to the server
  visible,    \* isVisible, and the terminal is there: what runWrite writes for
  up,         \* the reader is above the bottom of the buffer
  pending,    \* pendingWritesRef, flattened: a drain merges all of it
  writing,    \* the write xterm has; <<>> if none
  held,       \* reseedHeldRef
  term,       \* what the terminal shows: up to which output, and whole or not
  streams     \* the connections whose output it shows

vars == <<output, connected, connects, wire, asked, visible, up, pending, writing, held,
          term, streams>>
server == <<output, connected, connects>>
queue == <<pending, writing, held, term, streams>>

Blank == [upto |-> 0, whole |-> TRUE]
Text(n, c) == [reset |-> FALSE, upto |-> n, from |-> c]
Seed(n, c) == [reset |-> TRUE, upto |-> n, from |-> c]

Init ==
  /\ output = 0 /\ connected = FALSE /\ connects = 0 /\ wire = <<>> /\ asked = FALSE
  /\ visible = TRUE /\ up = FALSE
  /\ pending = <<>> /\ writing = <<>> /\ held = FALSE
  /\ term = Blank /\ streams = {}

\* xterm parses a write: the screen is whole if some point of it was, the screen before
\* it or a reset, and from there on each item continues the one before.
Continues(screen, data, i) ==
  data[i].upto = (IF i = 1 THEN screen.upto ELSE data[i - 1].upto) + 1

Shows(screen, data) ==
  [upto |-> IF data = <<>> THEN screen.upto ELSE data[Len(data)].upto,
   whole |-> \E k \in 0..Len(data) :
               /\ IF k = 0 THEN screen.whole ELSE data[k].reset
               /\ \A i \in k + 1..Len(data) : Continues(screen, data, i)]

HasReset(data) == \E i \in DOMAIN data : data[i].reset

\* The connections it shows then: a reset throws out what was there before it.
Streams(shown, data) ==
  (IF HasReset(data) THEN {} ELSE shown)
    \cup {data[i].from : i \in {j \in DOMAIN data :
                                 \A k \in DOMAIN data : k > j => ~data[k].reset}}

-------------------------------------------------------------------------------
(***************************************************************************)
(* The queue.                                                              *)
(***************************************************************************)

\* Bug: the stream goes on without the repaint it left out.
BackAtBottomSilent == held' = FALSE /\ UNCHANGED asked

\* A reader who held the old view is back: ask for the whole pane again.  On a
\* socket that is not open the request is lost.
BackAtBottom == held' = FALSE /\ asked' = (asked \/ connected)

\* The part of a write in front of the first reset in it.
BeforeReset(data) == SubSeq(data, 1, SelectInSeq(data, LAMBDA item : item.reset) - 1)

\* Bug: what comes behind a reset is left out, but nothing is held for it.
RunWriteForgets(data) ==
  /\ writing' = IF ~visible THEN <<>>
                ELSE IF up /\ connected /\ HasReset(data) THEN BeforeReset(data) ELSE data
  /\ UNCHANGED <<held, asked>>

\* runWrite, up to term.write.  (Its generation is the current one: drainQueue
\* has just compared them.)
RunWrite(data) ==
  IF data = <<>> \/ ~visible
  THEN writing' = <<>> /\ UNCHANGED <<held, asked>>
  ELSE IF held
  THEN /\ writing' = <<>>
       /\ IF up THEN UNCHANGED <<held, asked>> ELSE BackAtBottom
  ELSE /\ UNCHANGED asked
       /\ IF up /\ connected /\ HasReset(data)
          THEN /\ held' = TRUE
               /\ writing' = BeforeReset(data)
          ELSE /\ writing' = data
               /\ UNCHANGED held

\* enqueueWrite: the drain starts at once unless one is under way.
Enqueue(item) ==
  IF writing # <<>>
  THEN pending' = Append(pending, item) /\ UNCHANGED <<writing, held, asked>>
  ELSE pending' = <<>> /\ RunWrite(Append(pending, item))

\* xterm is done with a write; drainQueue takes what is pending, in this
\* generation or, after a reset, in the new one.
Written ==
  /\ writing # <<>>
  /\ term' = Shows(term, writing)
  /\ streams' = Streams(streams, writing)
  /\ pending' = <<>>
  /\ RunWrite(pending)
  /\ UNCHANGED <<server, wire, visible, up>>

\* restartStream, when a socket that replaces another opens: resetQueue, and the
\* terminal is cleared unless somebody reads it.
RestartStream ==
  /\ pending' = <<>>
  /\ held' = up
  /\ term' = IF up THEN term ELSE Blank
  /\ streams' = IF up THEN streams ELSE {}

-------------------------------------------------------------------------------
(***************************************************************************)
(* The reader, the socket and the server.                                  *)
(***************************************************************************)

ScrollUp ==
  /\ ~up /\ term.upto > 0
  /\ up' = TRUE
  /\ UNCHANGED <<server, wire, asked, visible, queue>>

\* onViewportMoved, if xterm reports the reader's own scrolling.
ScrollDown ==
  /\ up
  /\ up' = FALSE
  /\ (held /\ BackAtBottom) \/ UNCHANGED <<held, asked>>
  /\ UNCHANGED <<server, wire, visible, pending, writing, term, streams>>

\* ws.onopen, and the seed of the new control client behind it.  The first open
\* restarts the stream too if it had to be retried.
Opens ==
  /\ ~connected
  /\ connects < MaxConnects
  /\ connects' = connects + 1
  /\ connected' = TRUE
  /\ wire' = <<Seed(output, connects')>>
  /\ RestartStream \/ (connects = 0 /\ UNCHANGED <<pending, held, term, streams>>)
  /\ UNCHANGED <<output, asked, visible, up, writing>>

Drops ==
  /\ connected' = FALSE /\ wire' = <<>> /\ asked' = FALSE

Closes ==
  /\ connected
  /\ Drops
  /\ UNCHANGED <<output, connects, visible, up, queue>>

\* Another pane is shown in its place, and this one disconnects.
Hide ==
  /\ visible
  /\ visible' = FALSE
  /\ Drops
  /\ UNCHANGED <<output, connects, up, queue>>

\* Bug: a view that is connected when it is shown keeps its connection.
ShowKeepsConnection ==
  /\ ~visible
  /\ visible' = TRUE
  /\ UNCHANGED <<server, wire, asked, up, queue>>

\* It is shown again and connects: a connection it was given meanwhile is replaced.
Show ==
  /\ ~visible
  /\ visible' = TRUE
  /\ Drops
  /\ UNCHANGED <<output, connects, up, queue>>

Receives ==
  /\ wire # <<>>
  /\ wire' = Tail(wire)
  /\ Enqueue(Head(wire))
  /\ UNCHANGED <<server, visible, up, term, streams>>

Sends(item) == wire' = IF connected THEN Append(wire, item) ELSE wire

\* The program writes, or clears its terminal as it does.
Outputs ==
  /\ output < MaxOutput /\ Len(wire) < MaxWire
  /\ output' = output + 1
  /\ Sends(Text(output', connects)) \/ Sends(Seed(output', connects))
  /\ UNCHANGED <<connected, connects, asked, visible, up, queue>>

Reseeds ==
  /\ asked /\ Len(wire) < MaxWire
  /\ asked' = FALSE
  /\ Sends(Seed(output, connects))
  /\ UNCHANGED <<server, visible, up, queue>>

Next ==
  \/ Written \/ ScrollUp \/ ScrollDown
  \/ Opens \/ Closes \/ Hide \/ Show \/ Receives
  \/ Outputs \/ Reseeds

Spec == Init /\ [][Next]_vars

-------------------------------------------------------------------------------
(***************************************************************************)
(* Properties.                                                             *)
(***************************************************************************)

TypeOK ==
  LET Item == [reset : BOOLEAN, upto : 0..MaxOutput, from : 0..MaxConnects]
  IN /\ output \in 0..MaxOutput /\ connects \in 0..MaxConnects
     /\ {connected, asked, visible, up, held} \subseteq BOOLEAN
     /\ wire \in Seq(Item) /\ Len(wire) <= MaxWire
     /\ pending \in Seq(Item) /\ writing \in Seq(Item)
     /\ term \in [upto : 0..MaxOutput, whole : BOOLEAN]
     /\ streams \subseteq 0..MaxConnects

\* "so nothing is lost" (use-a-term-write-queue.ts): with an open socket and
\* nothing under way, a terminal that is shown and not held shows all of the
\* program's output, without a hole, whatever was held back, dropped, restarted
\* or received while it was hidden before.
CaughtUp ==
  /\ visible /\ connected /\ wire = <<>> /\ ~asked /\ writing = <<>> /\ ~held
  => pending = <<>> /\ term = [upto |-> output, whole |-> TRUE]

\* A repaint of the whole pane is on its way, or is asked for.
SeedDue == asked \/ HasReset(wire) \/ HasReset(pending) \/ HasReset(writing)

\* "clear aTerm buffer to prevent duplicates" (use-a-term-websocket.ts), as far as the
\* code keeps it: what a connected view shows is of the present connection alone,
\* except while its reader holds an older view, and until the repaint that is due.
\* (Clearing at the open is not enough: a reader who is above the bottom prevents it,
\* and a write that xterm has lands behind it.)
OneStreamOnScreen == visible /\ connected /\ ~held /\ ~SeedDue => streams \subseteq {connects}
===============================================================================
