---------------------------- MODULE ControlTerminal ----------------------------
(***************************************************************************)
(* One view of a tmux session: the control-mode client of                  *)
(* a_term/services/tmux_control.py, the tmux server it talks to, and the   *)
(* browser terminal at the far end of its output queue.                    *)
(*                                                                         *)
(* The client paints the terminal from a seed (one atomic tmux command     *)
(* list that captures the pane) and then streams the pane's raw output.    *)
(* Everything that can go wrong is in the joins: output that is also in a  *)
(* capture, output tmux threw away while the browser was slow, a second    *)
(* reseed asked for while one is under way, a reply given to the wrong     *)
(* handler.                                                                *)
(*                                                                         *)
(* Bytes are numbers (see PaneView).  One reply stands for all the blocks  *)
(* of a command list: tmux runs a list atomically and the handlers of its  *)
(* earlier blocks only collect, so the last %end is where things happen.   *)
(* The client runs on one asyncio loop: while the reader feeds the lines   *)
(* of a chunk (reader = "feed") no other task of the loop runs.            *)
(***************************************************************************)
EXTENDS Naturals, Sequences, FiniteSets

CONSTANTS
  Panes,          \* panes of the attached session
  NoPane,         \* pane_id before the first readable seed (None)
  MaxBytes,       \* bound: bytes each program writes
  QueueCap,       \* asyncio.Queue(maxsize=256)
  MaxOps,         \* bound: resizes, refreshes and inputs the browser sends
  MaxUnreadable,  \* bound: seeds tmux cannot read
  MaxSwitches     \* bound: times the user selects another pane

ASSUME CapAssumption == QueueCap \in Nat \ {0}
ASSUME BoundsAssumption ==
  /\ MaxBytes \in Nat
  /\ MaxOps \in Nat
  /\ MaxUnreadable \in Nat
  /\ MaxSwitches \in Nat
ASSUME NoPaneAssumption == NoPane \notin Panes

VARIABLES
  written,     \* server: bytes written to each pane
  active,      \* server: the session's active pane
  paused,      \* server: panes tmux has paused for this client
  alive,       \* server: the session and the client process are running
  size,        \* server: the size of the pane (sizes are numbered)
  stdinOpen,   \* client stdin: not None and not is_closing()
  pipe,        \* client stdout: what tmux has sent and the reader not read
  cmds,        \* client stdin: command lists tmux has not run
  phase,       \* ControlTerminal._phase
  paneId,      \* ControlTerminal.pane_id
  queued,      \* _reseed_queued: "none" (None), "plain" (False), "continue"
  timer,       \* _reseed_handle is armed
  cols,        \* ControlTerminal.cols and rows: the last size sent
  handlers,    \* ControlProtocol._handlers, one per command list
  pending,     \* ControlTerminal._pending
  reader,      \* where the _read task is
  queue,       \* the output queue read by the WebSocket
  xterm,       \* the browser's terminal
  streaming,   \* the batch loop runs: state["running"]
  open,        \* the WebSocket handler has not torn the view down
  typing,      \* the message loop: 0, or the paste whose buffer it waits for
  inputs,      \* inputs (typed or pasted) the browser has sent, numbered
  log,         \* server: inputs that reached a pane, in order
  ops, unreadable, switches,   \* budgets spent
  torn         \* history: a seed could not be read since the last good one

server  == <<written, active, paused, alive, size, stdinOpen, log, switches>>
client  == <<phase, paneId, queued, timer, cols, handlers, pending, torn>>
input   == <<typing, inputs, ops>>
browser == <<queue, xterm, streaming, open>>
vars == <<server, client, input, browser, pipe, cmds, reader, unreadable>>

Blank == [pane |-> NoPane, last |-> 0, size |-> 0, whole |-> TRUE]

\* Lines of the client's stdout.  "greeting" is the block tmux opens the
\* session with, which answers no command of ours; "lost" stands where tmux
\* discarded output.
Output(p, n)  == [type |-> "output", pane |-> p, byte |-> n, size |-> 0]
Pause(p)      == [type |-> "pause", pane |-> p, byte |-> 0, size |-> 0]
Seed(p, n, s) == [type |-> "seed", pane |-> p, byte |-> n, size |-> s]
Line(t)       == [type |-> t, pane |-> NoPane, byte |-> 0, size |-> 0]
Replies      == {"seed", "unreadable", "done"}
LineTypes    == Replies \cup {"output", "lost", "pause", "greeting", "exit"}
LineSet      == [type : LineTypes, pane : Panes \cup {NoPane},
                 byte : Nat, size : Nat]

\* Command lists.  A "reseed" with a pane starts with refresh-client -A
\* '<pane>:continue'.  Input carries its number.
Cmd(t, p, n) == [type |-> t, pane |-> p, id |-> n]
CmdSet       == [type : {"size", "input", "reseed"},
                 pane : Panes \cup {NoPane}, id : Nat]

\* Items of the output queue; "end" is the None that closes the stream.
End     == [type |-> "end", pane |-> NoPane, byte |-> 0, size |-> 0]
ItemSet == [type : {"seed", "output", "end"}, pane : Panes \cup {NoPane},
            byte : Nat, size : Nat]

\* The browser's terminal: the pane shown, its last byte, the size its seed was
\* captured at, and whether the stream since that seed had no hole in it.
ViewSet == [pane : Panes \cup {NoPane}, last : Nat, size : Nat, whole : BOOLEAN]

Init ==
  /\ written = [p \in Panes |-> 0]
  /\ active \in Panes
  /\ paused = {}
  /\ alive = TRUE
  /\ size = 0
  /\ stdinOpen = TRUE
  /\ pipe = <<Line("greeting")>>
  /\ cmds = <<>>
  /\ phase = "starting"
  /\ paneId = NoPane
  /\ queued = "none"
  /\ timer = FALSE
  /\ cols = 0
  /\ handlers = <<>>
  /\ pending = <<>>
  /\ reader = "read"
  /\ queue = <<>>
  /\ xterm = Blank
  /\ streaming = TRUE
  /\ open = TRUE
  /\ typing = 0
  /\ inputs = 0
  /\ log = <<>>
  /\ ops = 0
  /\ unreadable = 0
  /\ switches = 0
  /\ torn = FALSE

-------------------------------------------------------------------------------
(***************************************************************************)
(* The tmux server.                                                        *)
(***************************************************************************)

\* A program writes a byte; tmux streams it unless it paused the pane.
ProgramWrites(p) ==
  /\ alive
  /\ written[p] < MaxBytes
  /\ written' = [written EXCEPT ![p] = @ + 1]
  /\ pipe' = IF p \in paused THEN pipe ELSE Append(pipe, Output(p, written'[p]))
  /\ UNCHANGED <<active, paused, alive, size, stdinOpen, log, switches, client, input,
                 browser, cmds, reader, unreadable>>

\* The reader is blocked on a full queue, so nobody reads the client's stdout.
ReaderBlocked == reader = "put" /\ pending # <<>> /\ Len(queue) >= QueueCap

IsOutputOf(p, line) == line.type = "output" /\ line.pane = p

\* pause-after: a pane whose output waited too long is paused.  What tmux had
\* not written out (everything after some k) is discarded, replies are kept.
PauseAfter(p) ==
  /\ alive
  /\ ReaderBlocked
  /\ p \notin paused
  /\ \E i \in 1..Len(pipe) : IsOutputOf(p, pipe[i])
  /\ paused' = paused \cup {p}
  /\ \E k \in 0..Len(pipe) :
       LET Left(i) == IF i > k /\ IsOutputOf(p, pipe[i]) THEN Line("lost")
                                                         ELSE pipe[i] IN
       pipe' = Append([i \in 1..Len(pipe) |-> Left(i)], Pause(p))
  /\ UNCHANGED <<written, active, alive, size, stdinOpen, log, switches, client, input,
                 browser, cmds, reader, unreadable>>

\* tmux runs one command list and answers it.  A reseed reads the active pane;
\* its continue, run first in the same list, restarts the stream right there.
RunCommand ==
  /\ alive
  /\ cmds # <<>>
  /\ cmds' = Tail(cmds)
  /\ LET c == Head(cmds) IN
     \/ /\ c.type = "reseed"
        /\ paused' = paused \ {c.pane}
        /\ \/ /\ pipe' = Append(pipe, Seed(active, written[active], size))
              /\ UNCHANGED unreadable
           \/ /\ unreadable < MaxUnreadable
              /\ unreadable' = unreadable + 1
              /\ pipe' = Append(pipe, Line("unreadable"))
        /\ UNCHANGED <<size, log>>
     \/ /\ c.type # "reseed"
        /\ pipe' = Append(pipe, Line("done"))
        /\ size' = IF c.type = "size" THEN c.id ELSE size
        /\ log' = IF c.type = "input" THEN Append(log, c.id) ELSE log
        /\ UNCHANGED <<paused, unreadable>>
  /\ UNCHANGED <<written, active, alive, stdinOpen, switches, client, input, browser,
                 reader>>

\* The user selects another pane of the session (in any tmux client).
SelectPane(p) ==
  /\ alive
  /\ switches < MaxSwitches
  /\ p # active
  /\ active' = p
  /\ switches' = switches + 1
  /\ UNCHANGED <<written, paused, alive, size, stdinOpen, log, client, input, browser,
                 pipe, cmds, reader, unreadable>>

\* The session ends (tmux says %exit) or the client process is lost (it does
\* not): either way nothing more comes after what is in the pipe.
ServerExits ==
  /\ alive
  /\ alive' = FALSE
  /\ \/ pipe' = Append(pipe, Line("exit"))
     \/ UNCHANGED pipe
  /\ UNCHANGED <<written, active, paused, size, stdinOpen, log, switches, client,
                 input, browser, cmds, reader, unreadable>>

\* The loop finds the client's stdin broken.  Its stdout may hold lines yet.
StdinBreaks ==
  /\ reader # "feed"
  /\ ~alive
  /\ stdinOpen
  /\ stdinOpen' = FALSE
  /\ UNCHANGED <<written, active, paused, alive, size, log, switches, client,
                 input, browser, pipe, cmds, reader, unreadable>>

-------------------------------------------------------------------------------
(***************************************************************************)
(* Sending: _send_list registers a handler and writes the list, unless the *)
(* view is closed or there is no stdin to write to any more.               *)
(***************************************************************************)
SendList(c, handler) ==
  IF phase = "closed" \/ ~stdinOpen
    THEN UNCHANGED <<cmds, handlers>>
    ELSE /\ cmds' = Append(cmds, c)
         /\ handlers' = Append(handlers, handler)

ReseedCmd(cont, pane) ==
  Cmd("reseed", IF cont = "continue" THEN pane ELSE NoPane, 0)

\* Bug: the last of two reseeds asked for wins, and a continue is forgotten.
MergeLastWins(cont) == cont

\* A reseed asked for during a reseed is kept, and so is its continue.
Merge(cont) == IF queued = "continue" THEN "continue" ELSE cont

\* Bug: a reseed during a reseed starts at once.
ReseedAtOnce(cont) ==
  /\ SendList(ReseedCmd(cont, paneId), "seed")
  /\ phase' = IF phase = "closed" THEN phase ELSE "seeding"
  /\ UNCHANGED queued

\* ControlTerminal.reseed, as called while no reply is being handled.
Reseed(cont) ==
  \/ /\ phase = "closed"
     /\ UNCHANGED <<phase, queued, cmds, handlers>>
  \/ /\ phase = "seeding"
     /\ queued' = Merge(cont)
     /\ UNCHANGED <<phase, cmds, handlers>>
  \/ /\ phase \in {"starting", "live"}
     /\ phase' = "seeding"
     /\ SendList(ReseedCmd(cont, paneId), "seed")
     /\ UNCHANGED queued

-------------------------------------------------------------------------------
(***************************************************************************)
(* The reader task: _read, ControlProtocol._line and what they call.       *)
(***************************************************************************)

\* Bug: a reseed queued meanwhile is dropped.
GoLiveForgetsQueued(items, pane) ==
  /\ pending' = pending \o items
  /\ phase' = IF phase = "closed" THEN phase ELSE "live"
  /\ queued' = "none"
  /\ handlers' = Tail(handlers)
  /\ UNCHANGED cmds

\* _go_live runs on a seed's last %end, before the next line is parsed; a
\* reseed queued meanwhile starts at once.
GoLive(items, pane) ==
  IF phase = "closed"
    THEN /\ handlers' = Tail(handlers)
         /\ UNCHANGED <<phase, queued, pending, cmds>>
    ELSE /\ pending' = pending \o items
         /\ queued' = "none"
         /\ IF queued = "none"
              THEN /\ phase' = "live"
                   /\ handlers' = Tail(handlers)
                   /\ UNCHANGED cmds
              ELSE /\ phase' = "seeding"
                   /\ IF stdinOpen
                        THEN /\ handlers' = Append(Tail(handlers), "seed")
                             /\ cmds' = Append(cmds, ReseedCmd(queued, pane))
                        ELSE /\ handlers' = Tail(handlers)
                             /\ UNCHANGED cmds

\* on_reply: a readable seed sets pane_id even when the view closed meanwhile.
SeedReply(line) ==
  IF line.type = "seed"
    THEN /\ paneId' = line.pane
         /\ torn' = FALSE
         /\ GoLive(<<line>>, line.pane)
    ELSE /\ torn' = TRUE
         /\ GoLive(<<>>, paneId)
         /\ UNCHANGED paneId

\* Bug: a block that answers no command of ours takes a handler too.
BlockLineAny(line) ==
  IF handlers # <<>> /\ Head(handlers) = "seed" /\ line.type \in Replies
    THEN SeedReply(line)
    ELSE /\ handlers' = IF handlers = <<>> THEN <<>> ELSE Tail(handlers)
         /\ UNCHANGED <<phase, paneId, queued, pending, torn, cmds>>

\* A closed block goes to the handler at the head, if it is one of ours.
BlockLine(line) ==
  IF line.type \in Replies /\ handlers # <<>>
    THEN IF Head(handlers) = "seed"
           THEN SeedReply(line)
           ELSE /\ handlers' = Tail(handlers)
                /\ UNCHANGED <<phase, paneId, queued, pending, torn, cmds>>
    ELSE UNCHANGED <<handlers, phase, paneId, queued, pending, torn, cmds>>

\* Bug: output of every pane is taken for the shown one's.
OutputLineAsShown(line) ==
  /\ pending' = IF phase = "live" THEN Append(pending, [line EXCEPT !.pane = paneId])
                                  ELSE pending
  /\ UNCHANGED <<handlers, phase, paneId, queued, torn, cmds>>

\* _output: while seeding, the bytes are in the captures being read.
OutputLine(line) ==
  /\ pending' = IF phase = "live" /\ line.pane = paneId
                  THEN Append(pending, line)
                  ELSE pending
  /\ UNCHANGED <<handlers, phase, paneId, queued, torn, cmds>>

\* _pause: tmux dropped output of the pane, so read it again and resume it.
PauseLine(line) ==
  IF line.pane = paneId
    THEN Reseed("continue") /\ UNCHANGED <<paneId, pending, torn>>
    ELSE UNCHANGED <<handlers, phase, paneId, queued, pending, torn, cmds>>

\* _exit: the session is over.
ExitLine ==
  /\ phase' = "closed"
  /\ UNCHANGED <<handlers, paneId, queued, pending, torn, cmds>>

\* One line of the chunk being fed.  The chunk may go on or end here.
FeedLine ==
  /\ reader \in {"read", "feed"}
  /\ pipe # <<>>
  /\ pipe' = Tail(pipe)
  /\ reader' \in {"feed", "put"}
  /\ reader' = "feed" => Tail(pipe) # <<>>
  /\ LET line == Head(pipe) IN
     CASE line.type = "output" -> OutputLine(line)
       [] line.type = "pause"  -> PauseLine(line)
       [] line.type = "exit"   -> ExitLine
       [] OTHER                -> BlockLine(line)
  /\ UNCHANGED <<server, timer, cols, input, browser, unreadable>>

\* Bug: put_nowait on a queue without a bound.
PutPendingUnbounded ==
  /\ reader = "put"
  /\ pending # <<>>
  /\ queue' = Append(queue, Head(pending))
  /\ pending' = Tail(pending)
  /\ UNCHANGED <<server, phase, paneId, queued, timer, cols, handlers, torn,
                 input, xterm, streaming, open, pipe, cmds, reader, unreadable>>

\* Bug: put_nowait drops what a full queue has no room for.
PutPendingDropping ==
  /\ reader = "put"
  /\ pending # <<>>
  /\ queue' = IF Len(queue) < QueueCap THEN Append(queue, Head(pending)) ELSE queue
  /\ pending' = Tail(pending)
  /\ UNCHANGED <<server, phase, paneId, queued, timer, cols, handlers, torn,
                 input, xterm, streaming, open, pipe, cmds, reader, unreadable>>

\* After a chunk: await queue.put(item), which waits while the queue is full.
PutPending ==
  /\ reader = "put"
  /\ pending # <<>>
  /\ Len(queue) < QueueCap
  /\ queue' = Append(queue, Head(pending))
  /\ pending' = Tail(pending)
  /\ UNCHANGED <<server, phase, paneId, queued, timer, cols, handlers, torn,
                 input, xterm, streaming, open, pipe, cmds, reader, unreadable>>

\* Everything put: read the next chunk, or stop if the view closed.
ChunkDone ==
  /\ reader = "put"
  /\ pending = <<>>
  /\ reader' = IF phase = "closed" THEN "ending" ELSE "read"
  /\ UNCHANGED <<server, client, input, browser, pipe, cmds, unreadable>>

\* stdout is at end of file.
EndOfFile ==
  /\ reader = "read"
  /\ pipe = <<>>
  /\ ~alive
  /\ reader' = "ending"
  /\ phase' = "closed"
  /\ UNCHANGED <<server, paneId, queued, timer, cols, handlers, pending, torn,
                 input, browser, pipe, cmds, unreadable>>

\* Bug: the end of the stream is dropped when the queue is full.
PutEndDropping ==
  /\ reader = "ending"
  /\ queue' = IF Len(queue) < QueueCap THEN Append(queue, End) ELSE queue
  /\ reader' = "done"
  /\ UNCHANGED <<server, client, input, xterm, streaming, open, pipe, cmds,
                 unreadable>>

\* The reader's last put tells the WebSocket side that the stream is over.
PutEnd ==
  /\ reader = "ending"
  /\ Len(queue) < QueueCap
  /\ queue' = Append(queue, End)
  /\ reader' = "done"
  /\ UNCHANGED <<server, client, input, xterm, streaming, open, pipe, cmds,
                 unreadable>>

Reader == FeedLine \/ PutPending \/ ChunkDone \/ EndOfFile \/ PutEnd

-------------------------------------------------------------------------------
(***************************************************************************)
(* The view's other tasks on the same loop: start, the resize timer, the   *)
(* messages the browser sends, the WebSocket output and the teardown.      *)
(***************************************************************************)
LoopFree == reader # "feed"

\* start(): a sized client says its size first, then asks for its first seed.
Start(sized) ==
  /\ LoopFree
  /\ phase = "starting"
  /\ phase' = "seeding"
  /\ LET first == IF sized THEN <<Cmd("size", NoPane, 1)>> ELSE <<>> IN
     /\ cols' = Len(first)
     /\ IF stdinOpen
          THEN /\ cmds' = Append(first, ReseedCmd("plain", NoPane))
               /\ handlers' = Append(IF sized THEN <<"none">> ELSE <<>>, "seed")
          ELSE UNCHANGED <<cmds, handlers>>
  /\ UNCHANGED <<server, paneId, queued, timer, pending, torn, input, browser,
                 pipe, reader, unreadable>>

\* Bug: the message loop does not wait for a paste's buffer.
TakesMessageDuringPaste ==
  /\ LoopFree
  /\ open
  /\ phase # "starting"
  /\ ops < MaxOps
  /\ ops' = ops + 1

\* The message loop takes the browser's next message.
TakesMessage ==
  /\ LoopFree
  /\ open
  /\ phase # "starting"
  /\ typing = 0
  /\ ops < MaxOps
  /\ ops' = ops + 1

\* resize() with a new size: tell tmux, and read the pane again once the size
\* has settled.
Resize ==
  /\ TakesMessage
  /\ cols' = cols + 1
  /\ SendList(Cmd("size", NoPane, cols'), "none")
  /\ timer' = TRUE
  /\ UNCHANGED <<server, phase, paneId, queued, pending, torn, typing, inputs,
                 browser, pipe, reader, unreadable>>

ResizeSettled ==
  /\ LoopFree
  /\ timer
  /\ timer' = FALSE
  /\ Reseed("plain")
  /\ UNCHANGED <<server, paneId, cols, pending, torn, input, browser, pipe,
                 reader, unreadable>>

\* {"refresh": true}: the browser asks for a repaint.
Refresh ==
  /\ TakesMessage
  /\ Reseed("plain")
  /\ UNCHANGED <<server, paneId, timer, cols, pending, torn, typing, inputs,
                 browser, pipe, reader, unreadable>>

\* write(): keys go to the pane of the last seed; none without one.
WriteInput ==
  /\ TakesMessage
  /\ inputs' = inputs + 1
  /\ IF paneId = NoPane
       THEN UNCHANGED <<cmds, handlers>>
       ELSE SendList(Cmd("input", paneId, inputs'), "none")
  /\ UNCHANGED <<server, phase, paneId, queued, timer, cols, pending, torn,
                 typing, browser, pipe, reader, unreadable>>

\* paste(): the text is loaded into a tmux buffer by another process first;
\* the message loop waits for it.
PasteLoad ==
  /\ TakesMessage
  /\ paneId # NoPane
  /\ phase # "closed"
  /\ inputs' = inputs + 1
  /\ typing' = inputs'
  /\ UNCHANGED <<server, client, browser, pipe, cmds, reader, unreadable>>

\* ... and pasted into the pane of the moment if loading worked.
PasteSend ==
  /\ LoopFree
  /\ typing # 0
  /\ typing' = 0
  /\ \/ SendList(Cmd("input", paneId, typing), "none")
     \/ UNCHANGED <<cmds, handlers>>
  /\ UNCHANGED <<server, phase, paneId, queued, timer, cols, pending, torn,
                 inputs, ops, browser, pipe, reader, unreadable>>

\* What an item does to the browser's terminal.
Painted(v, item) ==
  IF item.type = "seed"
    THEN [pane |-> item.pane, last |-> item.byte, size |-> item.size,
          whole |-> TRUE]
    ELSE [pane |-> item.pane, last |-> item.byte, size |-> v.size,
          whole |-> v.whole /\ v.pane = item.pane /\ item.byte = v.last + 1]

\* The batch loop sends the next item and xterm parses it; the end stops it.
Deliver ==
  /\ LoopFree
  /\ open
  /\ streaming
  /\ queue # <<>>
  /\ queue' = Tail(queue)
  /\ LET item == Head(queue) IN
     /\ streaming' = (item.type # "end")
     /\ xterm' = IF item.type = "end" THEN xterm ELSE Painted(xterm, item)
  /\ UNCHANGED <<server, client, input, open, pipe, cmds, reader, unreadable>>

\* The browser disconnects: the output task is cancelled, then close() stops
\* the timer and the reader and gets rid of the client process.
Close ==
  /\ LoopFree
  /\ open
  /\ phase # "starting"
  /\ open' = FALSE
  /\ streaming' = FALSE
  /\ phase' = "closed"
  /\ timer' = FALSE
  /\ typing' = 0
  /\ reader' = "done"
  /\ alive' = FALSE
  /\ stdinOpen' = (stdinOpen /\ phase = "closed")
  /\ UNCHANGED <<written, active, paused, size, log, switches, paneId, queued,
                 cols, handlers, pending, torn, inputs, ops, queue, xterm, pipe,
                 cmds, unreadable>>

Next ==
  \/ \E p \in Panes : ProgramWrites(p) \/ PauseAfter(p) \/ SelectPane(p)
  \/ RunCommand \/ ServerExits \/ StdinBreaks
  \/ Reader
  \/ \E sized \in BOOLEAN : Start(sized)
  \/ Resize \/ ResizeSettled \/ Refresh \/ WriteInput \/ PasteLoad \/ PasteSend
  \/ Deliver \/ Close

Spec == Init /\ [][Next]_vars

(***************************************************************************)
(* The loop keeps running its tasks, tmux keeps running commands and the   *)
(* browser keeps reading.  Nothing makes the user or the program act.      *)
(***************************************************************************)
Fairness ==
  /\ WF_vars(Reader)
  /\ WF_vars(RunCommand)
  /\ WF_vars(\E sized \in BOOLEAN : Start(sized))
  /\ WF_vars(ResizeSettled)
  /\ WF_vars(PasteSend)
  /\ WF_vars(Deliver)

FairSpec == Spec /\ Fairness

-------------------------------------------------------------------------------
(***************************************************************************)
(* Properties.                                                             *)
(***************************************************************************)

\* Every variable has its type, and the output queue never holds more than the
\* asyncio.Queue it is: the reader waits for room.
TypeOK ==
  /\ written \in [Panes -> Nat]
  /\ active \in Panes
  /\ paused \in SUBSET Panes
  /\ alive \in BOOLEAN
  /\ size \in Nat
  /\ stdinOpen \in BOOLEAN
  /\ log \in Seq(Nat)
  /\ switches \in Nat
  /\ phase \in {"starting", "seeding", "live", "closed"}
  /\ paneId \in Panes \cup {NoPane}
  /\ queued \in {"none", "plain", "continue"}
  /\ timer \in BOOLEAN
  /\ cols \in Nat
  /\ handlers \in Seq({"seed", "none"})
  /\ pending \in Seq(ItemSet)
  /\ torn \in BOOLEAN
  /\ typing \in Nat
  /\ inputs \in Nat
  /\ ops \in Nat
  /\ queue \in Seq(ItemSet)
  /\ Len(queue) <= QueueCap
  /\ xterm \in ViewSet
  /\ streaming \in BOOLEAN
  /\ open \in BOOLEAN
  /\ pipe \in Seq(LineSet)
  /\ cmds \in Seq(CmdSet)
  /\ reader \in {"read", "feed", "put", "ending", "done"}
  /\ unreadable \in Nat

\* reseed never starts two captures, and no seed reply goes missing: at most one
\* seed handler is registered, only while a seed is awaited, and a seed is awaited
\* without one only when the client is gone and its stdin seen broken, so that
\* nothing could be sent.  (EndIsReported says what ends such a view.)
SeedingHasOneReply ==
  phase # "closed" =>
    /\ \A i, j \in DOMAIN handlers :
         handlers[i] = "seed" /\ handlers[j] = "seed" => i = j
    /\ \A i \in DOMAIN handlers : handlers[i] = "seed" => phase = "seeding"
    /\ phase = "seeding" =>
         \/ \E i \in DOMAIN handlers : handlers[i] = "seed"
         \/ ~alive /\ ~stdinOpen

\* The handler a reply is meant for, and the one a command list waits with.
HandlerFor(line) == IF line.type = "done" THEN "none" ELSE "seed"
OwedFor(c)       == IF c.type = "reseed" THEN "seed" ELSE "none"
IsReply(line)    == line.type \in Replies

\* How many of the first n lines are replies.
RepliesIn(lines, n) == Cardinality({i \in 1..n : IsReply(lines[i])})

\* The handlers are those of the replies on their way, then of those tmux owes.
Aligned(hs, lines, cs) ==
  /\ Len(hs) = RepliesIn(lines, Len(lines)) + Len(cs)
  /\ \A i \in DOMAIN lines :
       IsReply(lines[i]) => hs[RepliesIn(lines, i)] = HandlerFor(lines[i])
  /\ \A i \in DOMAIN cs : hs[RepliesIn(lines, Len(lines)) + i] = OwedFor(cs[i])

\* The n-th reply meets the n-th handler, whatever else tmux interleaves: the
\* opening block, notifications and replies of other commands never shift it.
HandlersAligned == Aligned(handlers, pipe, cmds)

\* Everything that will still reach the browser, and the item before the i-th.
Coming     == queue \o pending
Before(v, items, i) ==
  IF i = 1 THEN [pane |-> v.pane, byte |-> v.last]
           ELSE [pane |-> items[i - 1].pane, byte |-> items[i - 1].byte]

\* A later seed repaints whatever came up to item i.
Repainted(items, i) == \E j \in DOMAIN items : j > i /\ items[j].type = "seed"

\* A terminal v that items are yet to come to will have no hole in it.
WholeWith(v, items) ==
  /\ v.whole \/ Repainted(items, 0)
  /\ \A i \in DOMAIN items :
       items[i].type = "output" /\ ~Repainted(items, i)
         => LET was == Before(v, items, i) IN
            items[i].pane = was.pane /\ items[i].byte = was.byte + 1

\* The stream after a seed continues exactly where the seed's capture ended:
\* no byte of it twice, none missing, none of another pane.  (A seed tmux could
\* not read breaks this until the next good one.)
StreamIsWhole == torn \/ WholeWith(xterm, Coming)

\* "tmux then pauses the pane and we reseed": a pane that is shown and that tmux
\* has paused is going to be resumed.  Its %pause is still to be read, or the
\* reseed that resumes it is queued or on its way to tmux.
PausedPaneResumes ==
  (alive /\ phase \in {"seeding", "live"} /\ paneId \in paused) =>
    \/ \E i \in DOMAIN pipe : pipe[i] = Pause(paneId)
    \/ phase = "seeding" /\ queued = "continue"
    \/ \E i \in DOMAIN cmds : cmds[i] = ReseedCmd("continue", paneId)

\* What the user types and pastes reaches the program once and in that order,
\* although a paste takes a detour through another process.
InputsInOrder == \A i, j \in DOMAIN log : i < j => log[i] < log[j]

\* The view implements PaneView: it shows bytes that were written and never
\* goes back on the pane it shows, reseeds and pauses included.
View == INSTANCE PaneView WITH view <- [pane |-> xterm.pane, last |-> xterm.last]
NeverRewinds == View!Spec

\* The end of a session reaches the batch loop, after the output before it.
EndIsReported == ~alive ~> ~streaming
===============================================================================
