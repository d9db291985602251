------------------------- MODULE ControlTerminalProofs -------------------------
(***************************************************************************)
(* Proofs about ControlTerminal, for every set of panes, queue capacity    *)
(* and bound: its types, the states of the terminal, and the two queues    *)
(* between a view and its tmux client.                                     *)
(***************************************************************************)
EXTENDS ControlTerminal, FiniteSetTheorems, FunctionTheorems, SequenceFacts, TLAPS

\* Any line or command this module builds is one of its kind.
LEMMA LineTyped ==
  /\ \A p \in Panes, n \in Nat : Output(p, n) \in LineSet
  /\ \A p \in Panes : Pause(p) \in LineSet
  /\ \A p \in Panes, n, s \in Nat : Seed(p, n, s) \in LineSet
  /\ \A t \in LineTypes : Line(t) \in LineSet
  BY DEF Output, Pause, Seed, Line, LineSet, LineTypes, Replies

LEMMA CmdTyped ==
  ASSUME NEW p \in Panes \cup {NoPane}, NEW n \in Nat, NEW c
  PROVE  /\ Cmd("size", p, n) \in CmdSet
         /\ Cmd("input", p, n) \in CmdSet
         /\ ReseedCmd(c, p) \in CmdSet
  BY DEF Cmd, ReseedCmd, CmdSet


\* The terminal starts with everything typed.
LEMMA InitTypes == Init => TypeOK
<1> SUFFICES ASSUME Init PROVE TypeOK
  OBVIOUS
<1>1. Line("greeting") \in LineSet
  BY LineTyped DEF LineTypes
<1>2. pipe \in Seq(LineSet)
  BY <1>1 DEF Init
<1>3. xterm \in ViewSet
  BY DEF Init, Blank, ViewSet
<1>4. Len(queue) <= QueueCap
  BY CapAssumption DEF Init
<1>5. written \in [Panes -> Nat] /\ log \in Seq(Nat)
  BY DEF Init
<1>6. /\ cmds \in Seq(CmdSet) /\ handlers \in Seq({"seed", "none"})
      /\ pending \in Seq(ItemSet) /\ queue \in Seq(ItemSet)
  BY DEF Init
<1> QED BY <1>2, <1>3, <1>4, <1>5, <1>6 DEF Init, TypeOK

-------------------------------------------------------------------------------
\* The tmux server keeps the types.
LEMMA ServerTypes ==
  ASSUME TypeOK,
         \/ \E p \in Panes : ProgramWrites(p) \/ PauseAfter(p) \/ SelectPane(p)
         \/ RunCommand \/ ServerExits \/ StdinBreaks
  PROVE  TypeOK'
<1> USE DEF TypeOK, server, client, input, browser
<1>1. ASSUME NEW p \in Panes, ProgramWrites(p) PROVE TypeOK'
  <2>1. written' \in [Panes -> Nat]
    BY <1>1 DEF ProgramWrites
  <2>2. pipe' \in Seq(LineSet)
    BY <1>1, <2>1, LineTyped DEF ProgramWrites
  <2> QED BY <1>1, <2>1, <2>2 DEF ProgramWrites
<1>2. ASSUME NEW p \in Panes, PauseAfter(p) PROVE TypeOK'
  <2>1. PICK k \in 0..Len(pipe) :
          pipe' = Append([i \in 1..Len(pipe) |->
                           IF i > k /\ IsOutputOf(p, pipe[i]) THEN Line("lost")
                                                             ELSE pipe[i]],
                         Pause(p))
    BY <1>2 DEF PauseAfter
  <2>2. Line("lost") \in LineSet /\ Pause(p) \in LineSet
    BY LineTyped DEF LineTypes
  <2>3. [i \in 1..Len(pipe) |->
           IF i > k /\ IsOutputOf(p, pipe[i]) THEN Line("lost") ELSE pipe[i]]
        \in Seq(LineSet)
    BY <2>2
  <2>4. pipe' \in Seq(LineSet)
    BY <2>1, <2>2, <2>3
  <2> QED BY <1>2, <2>4 DEF PauseAfter
<1>3. ASSUME NEW p \in Panes, SelectPane(p) PROVE TypeOK'
  BY <1>3 DEF SelectPane
<1>4. CASE RunCommand
  <2>1. Head(cmds) \in CmdSet /\ cmds' \in Seq(CmdSet)
    BY <1>4 DEF RunCommand
  <2>5. Head(cmds).id \in Nat
    BY <2>1 DEF CmdSet
  <2>2. Seed(active, written[active], size) \in LineSet
    BY LineTyped
  <2>3. Line("done") \in LineSet /\ Line("unreadable") \in LineSet
    BY LineTyped DEF LineTypes, Replies
  <2>4. pipe' \in Seq(LineSet)
    <3>1. /\ Append(pipe, Seed(active, written[active], size)) \in Seq(LineSet)
          /\ Append(pipe, Line("done")) \in Seq(LineSet)
          /\ Append(pipe, Line("unreadable")) \in Seq(LineSet)
      BY <2>2, <2>3
    <3> QED BY <1>4, <3>1 DEF RunCommand
  <2>6. size' \in Nat /\ log' \in Seq(Nat)
    <3>1. Append(log, Head(cmds).id) \in Seq(Nat)
      BY <2>5
    <3> QED BY <1>4, <2>5, <3>1 DEF RunCommand
  <2>7. paused' \in SUBSET Panes /\ unreadable' \in Nat
    <3>1. paused' \in {paused, paused \ {Head(cmds).pane}}
      BY <1>4 DEF RunCommand
    <3>2. unreadable' \in {unreadable, unreadable + 1}
      BY <1>4 DEF RunCommand
    <3> QED BY <3>1, <3>2
  <2> QED BY <1>4, <2>1, <2>4, <2>6, <2>7 DEF RunCommand
<1>5. CASE ServerExits
  <2>1. Line("exit") \in LineSet
    BY LineTyped DEF LineTypes
  <2>2. Append(pipe, Line("exit")) \in Seq(LineSet)
    BY <2>1
  <2>3. pipe' \in Seq(LineSet)
    BY <1>5, <2>2 DEF ServerExits
  <2>4. alive' \in BOOLEAN
    BY <1>5 DEF ServerExits
  <2> QED BY <1>5, <2>3, <2>4 DEF ServerExits
<1>6. CASE StdinBreaks
  <2>1. stdinOpen' \in BOOLEAN
    BY <1>6 DEF StdinBreaks
  <2>2. UNCHANGED <<written, active, paused, alive, size, log, switches, client, input,
                    browser, pipe, cmds, reader, unreadable>>
    BY <1>6 DEF StdinBreaks
  <2> QED BY <2>1, <2>2
<1> QED BY <1>1, <1>2, <1>3, <1>4, <1>5, <1>6

-------------------------------------------------------------------------------
\* Sending a command list keeps the types of both sequences it appends to.
LEMMA SendTypes ==
  ASSUME TypeOK, NEW c \in CmdSet, NEW h \in {"seed", "none"}, SendList(c, h)
  PROVE  cmds' \in Seq(CmdSet) /\ handlers' \in Seq({"seed", "none"})
<1>1. /\ cmds \in Seq(CmdSet) /\ handlers \in Seq({"seed", "none"})
  BY DEF TypeOK
<1>2. CASE phase = "closed" \/ ~stdinOpen
  BY <1>1, <1>2 DEF SendList
<1>3. CASE phase # "closed" /\ stdinOpen
  <2>1. Append(cmds, c) \in Seq(CmdSet) /\ Append(handlers, h) \in Seq({"seed", "none"})
    BY <1>1
  <2> QED BY <1>3, <2>1 DEF SendList
<1> QED BY <1>2, <1>3

\* So does a reseed, which also keeps the phase and the queued reseed typed.
LEMMA ReseedTypes ==
  ASSUME TypeOK, NEW cont \in {"plain", "continue"}, Reseed(cont)
  PROVE  /\ cmds' \in Seq(CmdSet)
         /\ handlers' \in Seq({"seed", "none"})
         /\ phase' \in {"starting", "seeding", "live", "closed"}
         /\ queued' \in {"none", "plain", "continue"}
<1>1. ReseedCmd(cont, paneId) \in CmdSet
  BY CmdTyped DEF TypeOK
<1>2. CASE phase \in {"starting", "live"}
  BY <1>1, <1>2, SendTypes DEF Reseed, TypeOK
<1>3. CASE phase \in {"closed", "seeding"}
  BY <1>3 DEF Reseed, TypeOK, Merge
<1> QED BY <1>2, <1>3 DEF TypeOK

\* What going live changes stays typed, whatever the seed held.
LEMMA GoLiveTypes ==
  ASSUME TypeOK, handlers # <<>>, NEW items \in Seq(ItemSet),
         NEW pane \in Panes \cup {NoPane}, GoLive(items, pane)
  PROVE  /\ cmds' \in Seq(CmdSet)
         /\ handlers' \in Seq({"seed", "none"})
         /\ pending' \in Seq(ItemSet)
         /\ phase' \in {"starting", "seeding", "live", "closed"}
         /\ queued' \in {"none", "plain", "continue"}
<1>1. ReseedCmd(queued, pane) \in CmdSet
  BY CmdTyped
<1>2. Tail(handlers) \in Seq({"seed", "none"})
  BY DEF TypeOK
<1>3. pending \o items \in Seq(ItemSet)
  BY DEF TypeOK
<1>4. cmds \in Seq(CmdSet) /\ pending \in Seq(ItemSet)
  BY DEF TypeOK
<1>5. Append(cmds, ReseedCmd(queued, pane)) \in Seq(CmdSet)
  BY <1>1, <1>4
<1>6. Append(Tail(handlers), "seed") \in Seq({"seed", "none"})
  BY <1>2
<1>7. CASE phase = "closed"
  BY <1>2, <1>4, <1>7 DEF GoLive, TypeOK
<1>8. CASE phase # "closed" /\ queued = "none"
  BY <1>2, <1>3, <1>4, <1>8 DEF GoLive
<1>9. CASE phase # "closed" /\ queued # "none"
  BY <1>2, <1>3, <1>4, <1>5, <1>6, <1>9 DEF GoLive
<1> QED BY <1>7, <1>8, <1>9

\* One line of tmux's stdout keeps the client typed.
LEMMA FeedLineTypes == TypeOK /\ FeedLine => TypeOK'
<1> SUFFICES ASSUME TypeOK, FeedLine PROVE TypeOK'
  OBVIOUS
<1> DEFINE line == Head(pipe)
<1> DEFINE ClientTyped ==
             /\ cmds' \in Seq(CmdSet)
             /\ handlers' \in Seq({"seed", "none"})
             /\ pending' \in Seq(ItemSet)
             /\ phase' \in {"starting", "seeding", "live", "closed"}
             /\ queued' \in {"none", "plain", "continue"}
             /\ paneId' \in Panes \cup {NoPane}
             /\ torn' \in BOOLEAN
<1>1. line \in LineSet /\ pipe' \in Seq(LineSet)
  BY DEF FeedLine, TypeOK
<1>2. ASSUME line.type = "output" PROVE ClientTyped
  <2>1. line \in ItemSet
    BY <1>1, <1>2 DEF LineSet, ItemSet
  <2>2. OutputLine(line)
    BY <1>2 DEF FeedLine
  <2> QED BY <2>1, <2>2 DEF OutputLine, TypeOK
<1>3. ASSUME line.type = "pause" PROVE ClientTyped
  <2>1. PauseLine(line)
    BY <1>3 DEF FeedLine
  <2>2. CASE line.pane = paneId
    BY <2>1, <2>2, ReseedTypes DEF PauseLine, TypeOK
  <2>3. CASE line.pane # paneId
    BY <2>1, <2>3 DEF PauseLine, TypeOK
  <2> QED BY <2>2, <2>3
<1>4. ASSUME line.type = "exit" PROVE ClientTyped
  BY <1>4 DEF FeedLine, ExitLine, TypeOK
<1>5. ASSUME line.type \notin {"output", "pause", "exit"} PROVE ClientTyped
  <2>1. BlockLine(line)
    BY <1>5 DEF FeedLine
  <2>2. CASE line.type \in Replies /\ handlers # <<>> /\ Head(handlers) = "seed"
    <3>1. SeedReply(line)
      BY <2>1, <2>2 DEF BlockLine
    <3>2. CASE line.type = "seed"
      <4>2. line \in ItemSet /\ line.pane \in Panes \cup {NoPane}
        BY <1>1, <3>2 DEF LineSet, ItemSet
      <4>1. <<line>> \in Seq(ItemSet)
        BY <4>2
      <4> QED BY <2>2, <3>1, <3>2, <4>1, <4>2, GoLiveTypes DEF SeedReply
    <3>3. CASE line.type # "seed"
      <4>1. <<>> \in Seq(ItemSet) /\ paneId \in Panes \cup {NoPane}
        BY DEF TypeOK
      <4> QED BY <2>2, <3>1, <3>3, <4>1, GoLiveTypes DEF SeedReply
    <3> QED BY <3>2, <3>3
  <2>3. CASE line.type \in Replies /\ handlers # <<>> /\ Head(handlers) # "seed"
    <3>1. Tail(handlers) \in Seq({"seed", "none"})
      BY <2>3 DEF TypeOK
    <3> QED BY <2>1, <2>3, <3>1 DEF BlockLine, TypeOK
  <2>4. CASE ~(line.type \in Replies /\ handlers # <<>>)
    BY <2>1, <2>4 DEF BlockLine, TypeOK
  <2> QED BY <2>2, <2>3, <2>4
<1>6. ClientTyped
  BY <1>2, <1>3, <1>4, <1>5
<1> QED BY <1>1, <1>6 DEF FeedLine, TypeOK, server, input, browser

\* The rest of the reader task keeps the types; putting waits for room.
LEMMA ReaderTypes == TypeOK /\ Reader => TypeOK'
<1> SUFFICES ASSUME TypeOK, Reader PROVE TypeOK'
  OBVIOUS
<1> USE DEF TypeOK, server, client, input, browser
<1>1. CASE FeedLine
  BY <1>1, FeedLineTypes
<1>2. CASE PutPending
  BY <1>2, CapAssumption DEF PutPending
<1>3. CASE ChunkDone
  BY <1>3 DEF ChunkDone
<1>4. CASE EndOfFile
  BY <1>4 DEF EndOfFile
<1>5. CASE PutEnd
  <2>1. End \in ItemSet
    BY DEF End, ItemSet
  <2> QED BY <1>5, <2>1, CapAssumption DEF PutEnd
<1> QED BY <1>1, <1>2, <1>3, <1>4, <1>5 DEF Reader

\* The other tasks of the loop: start, the resize timer, the messages the
\* browser sends, what it is sent, and the teardown.
LEMMA TaskTypes ==
  ASSUME TypeOK,
         \/ \E sized \in BOOLEAN : Start(sized)
         \/ Resize \/ ResizeSettled \/ Refresh \/ WriteInput \/ PasteLoad
         \/ PasteSend \/ Deliver \/ Close
  PROVE  TypeOK'
<1> USE DEF TypeOK, server, client, input, browser, TakesMessage
<1>1. ASSUME NEW sized \in BOOLEAN, Start(sized) PROVE TypeOK'
  <2>1. /\ Cmd("size", NoPane, 1) \in CmdSet
        /\ ReseedCmd("plain", NoPane) \in CmdSet
    BY CmdTyped
  <2>2. /\ <<Cmd("size", NoPane, 1)>> \in Seq(CmdSet)
        /\ <<"none">> \in Seq({"seed", "none"})
    BY <2>1
  <2>3. cmds' \in Seq(CmdSet) /\ cols' \in Nat
    <3> DEFINE first == IF sized THEN <<Cmd("size", NoPane, 1)>> ELSE <<>>
    <3>1. first \in Seq(CmdSet)
      BY <2>2
    <3>2. cols' = Len(first)
      BY <1>1 DEF Start
    <3>3. \/ cmds' = Append(first, ReseedCmd("plain", NoPane))
          \/ cmds' = cmds
      BY <1>1 DEF Start
    <3> HIDE DEF first
    <3>4. Append(first, ReseedCmd("plain", NoPane)) \in Seq(CmdSet) /\ Len(first) \in Nat
      BY <2>1, <3>1
    <3>5. cmds' \in Seq(CmdSet)
      BY <3>3, <3>4
    <3> QED BY <3>2, <3>4, <3>5
  <2>4. handlers' \in Seq({"seed", "none"})
    <3>1. \A h \in Seq({"seed", "none"}) : Append(h, "seed") \in Seq({"seed", "none"})
      OBVIOUS
    <3>4. <<>> \in Seq({"seed", "none"})
      OBVIOUS
    <3>2. (IF sized THEN <<"none">> ELSE <<>>) \in Seq({"seed", "none"})
      BY <2>2, <3>4, Zenon
    <3>3. \/ handlers' = Append(IF sized THEN <<"none">> ELSE <<>>, "seed")
          \/ handlers' = handlers
      BY <1>1 DEF Start
    <3> QED BY <3>1, <3>2, <3>3
  <2> QED BY <1>1, <2>3, <2>4 DEF Start
<1>2. CASE Resize
  <2>1. cols' \in Nat
    BY <1>2 DEF Resize
  <2>2. Cmd("size", NoPane, cols') \in CmdSet
    BY <2>1, CmdTyped
  <2>3. cmds' \in Seq(CmdSet) /\ handlers' \in Seq({"seed", "none"})
    BY <1>2, <2>2, SendTypes DEF Resize
  <2> QED BY <1>2, <2>1, <2>3 DEF Resize
<1>3. CASE ResizeSettled
  BY <1>3, ReseedTypes DEF ResizeSettled
<1>4. CASE Refresh
  BY <1>4, ReseedTypes DEF Refresh
<1>5. CASE WriteInput
  <2>1. inputs' \in Nat
    BY <1>5 DEF WriteInput
  <2>2. Cmd("input", paneId, inputs') \in CmdSet
    BY <2>1, CmdTyped
  <2>3. cmds' \in Seq(CmdSet) /\ handlers' \in Seq({"seed", "none"})
    BY <1>5, <2>2, SendTypes DEF WriteInput
  <2> QED BY <1>5, <2>1, <2>3 DEF WriteInput
<1>6. CASE PasteLoad
  BY <1>6 DEF PasteLoad
<1>7. CASE PasteSend
  <2>1. Cmd("input", paneId, typing) \in CmdSet
    BY CmdTyped
  <2>2. cmds' \in Seq(CmdSet) /\ handlers' \in Seq({"seed", "none"})
    BY <1>7, <2>1, SendTypes DEF PasteSend
  <2> QED BY <1>7, <2>2 DEF PasteSend
<1>8. CASE Deliver
  <2>1. Head(queue) \in ItemSet /\ queue' \in Seq(ItemSet)
    BY <1>8 DEF Deliver
  <2>2. Len(queue') <= QueueCap
    BY <1>8, CapAssumption DEF Deliver
  <2>3. Painted(xterm, Head(queue)) \in ViewSet
    BY <2>1 DEF Painted, ItemSet, ViewSet
  <2>4. xterm' \in ViewSet
    BY <1>8, <2>3 DEF Deliver
  <2>5. streaming' \in BOOLEAN
    BY <1>8 DEF Deliver
  <2> QED BY <1>8, <2>1, <2>2, <2>4, <2>5 DEF Deliver
<1>9. CASE Close
  BY <1>9 DEF Close
<1> QED BY <1>1, <1>2, <1>3, <1>4, <1>5, <1>6, <1>7, <1>8, <1>9

\* TypeOK is inductive: whatever happens, every variable keeps its type and the
\* output queue its bound.
LEMMA TypesKept == TypeOK /\ [Next]_vars => TypeOK'
<1>1. ASSUME TypeOK, Next PROVE TypeOK'
  BY <1>1, ServerTypes, ReaderTypes, TaskTypes DEF Next
<1>2. ASSUME TypeOK, UNCHANGED vars PROVE TypeOK'
  BY <1>2 DEF vars, server, client, input, browser, TypeOK
<1> QED BY <1>1, <1>2

\* Every variable always has its type, and the output queue never holds more
\* than the asyncio.Queue it models.
THEOREM TypeCorrect == Spec => []TypeOK
<1>1. Init => TypeOK
  BY InitTypes
<1>2. TypeOK /\ [Next]_vars => TypeOK'
  BY TypesKept
<1> QED BY <1>1, <1>2, PTL DEF Spec

-------------------------------------------------------------------------------
(***************************************************************************)
(* One seed handler.  The invariant is inductive with the types; the       *)
(* lemmas say what appending and popping do to the number of seed handlers.*)
(***************************************************************************)
Handlers == Seq({"seed", "none"})

NoSeed(h)  == \A i \in DOMAIN h : h[i] # "seed"
OneSeed(h) ==
  /\ \E i \in DOMAIN h : h[i] = "seed"
  /\ \A i, j \in DOMAIN h : h[i] = "seed" /\ h[j] = "seed" => i = j

\* Appending the handler of a command list.
LEMMA AppendSeed ==
  ASSUME NEW h \in Handlers
  PROVE  /\ NoSeed(h) => OneSeed(Append(h, "seed"))
         /\ NoSeed(h) => NoSeed(Append(h, "none"))
         /\ OneSeed(h) => OneSeed(Append(h, "none"))
  BY DEF Handlers, NoSeed, OneSeed

\* Popping the handler of a reply.
LEMMA TailSeed ==
  ASSUME NEW h \in Handlers, h # <<>>
  PROVE  /\ Head(h) = "seed" /\ OneSeed(h) => NoSeed(Tail(h))
         /\ Head(h) # "seed" /\ OneSeed(h) => OneSeed(Tail(h))
         /\ NoSeed(h) => Head(h) # "seed" /\ NoSeed(Tail(h))
<1>1. /\ DOMAIN h = 1..Len(h) /\ DOMAIN Tail(h) = 1..(Len(h) - 1)
      /\ Len(h) \in Nat \ {0}
      /\ Head(h) = h[1]
      /\ \A i \in 1..(Len(h) - 1) : Tail(h)[i] = h[i + 1]
  BY DEF Handlers
<1>2. ASSUME Head(h) = "seed", OneSeed(h) PROVE NoSeed(Tail(h))
  BY <1>1, <1>2 DEF NoSeed, OneSeed
<1>3. ASSUME Head(h) # "seed", OneSeed(h) PROVE OneSeed(Tail(h))
  <2>1. PICK k \in DOMAIN h : h[k] = "seed"
    BY <1>3 DEF OneSeed
  <2>2. k - 1 \in DOMAIN Tail(h) /\ Tail(h)[k - 1] = "seed"
    BY <1>1, <1>3, <2>1
  <2>3. \A i, j \in DOMAIN Tail(h) : Tail(h)[i] = "seed" /\ Tail(h)[j] = "seed" => i = j
    BY <1>1, <1>3 DEF OneSeed
  <2> QED BY <2>2, <2>3 DEF OneSeed
<1>4. ASSUME NoSeed(h) PROVE Head(h) # "seed" /\ NoSeed(Tail(h))
  BY <1>1, <1>4 DEF NoSeed
<1> QED BY <1>2, <1>3, <1>4

\* The invariant by phase.  A seed is awaited without a handler only when there is
\* no stdin left to ask for one.
SeedPerPhase(ph, h, in) ==
  /\ ph = "seeding" => OneSeed(h) \/ (NoSeed(h) /\ ~in)
  /\ ph \in {"starting", "live"} => NoSeed(h)

\* The client's stdin breaks only when the client is gone, and it stays gone.
StdinLast == stdinOpen \/ ~alive

LEMMA SeedPerPhaseIsInvariant ==
  TypeOK /\ StdinLast /\ SeedPerPhase(phase, handlers, stdinOpen) => SeedingHasOneReply
  BY DEF TypeOK, SeedingHasOneReply, SeedPerPhase, OneSeed, NoSeed, StdinLast

\* Sending a command that is no reseed keeps it.
LEMMA SendPlainSeed ==
  ASSUME TypeOK, SeedPerPhase(phase, handlers, stdinOpen), NEW c, SendList(c, "none"),
         UNCHANGED <<phase, stdinOpen>>
  PROVE  SeedPerPhase(phase', handlers', stdinOpen')
  BY AppendSeed DEF SendList, SeedPerPhase, TypeOK, Handlers

\* A reseed sends a capture only when none is awaited.
LEMMA ReseedSeed ==
  ASSUME TypeOK, SeedPerPhase(phase, handlers, stdinOpen), NEW cont, Reseed(cont)
  PROVE  SeedPerPhase(phase', handlers', stdinOpen)
<1>1. CASE phase \in {"starting", "live"} /\ stdinOpen
  <2>1. phase' = "seeding" /\ handlers' = Append(handlers, "seed")
    BY <1>1 DEF Reseed, SendList
  <2> QED BY <1>1, <2>1, AppendSeed DEF SeedPerPhase, TypeOK, Handlers
<1>2. CASE phase \in {"starting", "live"} /\ ~stdinOpen
  BY <1>2 DEF Reseed, SendList, SeedPerPhase
<1>3. CASE phase \in {"closed", "seeding"}
  BY <1>3 DEF Reseed
<1> QED BY <1>1, <1>2, <1>3 DEF TypeOK

\* A seed's reply takes its own handler; a queued reseed registers the next.
LEMMA GoLiveSeed ==
  ASSUME TypeOK, SeedPerPhase(phase, handlers, stdinOpen), handlers # <<>>,
         Head(handlers) = "seed", NEW items, NEW pane, GoLive(items, pane)
  PROVE  SeedPerPhase(phase', handlers', stdinOpen)
<1>1. CASE phase = "closed"
  BY <1>1 DEF GoLive, SeedPerPhase
<1>2. CASE phase # "closed"
  <2>1. handlers \in Handlers /\ Tail(handlers) \in Handlers
    BY DEF TypeOK, Handlers
  <2>2. OneSeed(handlers)
    BY <1>2, <2>1, TailSeed DEF SeedPerPhase, TypeOK
  <2>3. NoSeed(Tail(handlers))
    BY <2>1, <2>2, TailSeed
  <2> QED BY <1>2, <2>1, <2>3, AppendSeed DEF GoLive, SeedPerPhase
<1> QED BY <1>1, <1>2

\* A reply to another command takes a handler that is no seed's.
LEMMA PopPlainSeed ==
  ASSUME TypeOK, SeedPerPhase(phase, handlers, stdinOpen), handlers # <<>>,
         Head(handlers) # "seed"
  PROVE  SeedPerPhase(phase, Tail(handlers), stdinOpen)
  BY TailSeed DEF SeedPerPhase, TypeOK, Handlers

LEMMA FeedLineSeed ==
  ASSUME TypeOK, SeedPerPhase(phase, handlers, stdinOpen), FeedLine
  PROVE  SeedPerPhase(phase', handlers', stdinOpen')
<1>0. stdinOpen' = stdinOpen
  BY DEF FeedLine, server
<1> DEFINE line == Head(pipe)
<1>1. CASE line.type = "output"
  BY <1>0, <1>1 DEF FeedLine, OutputLine
<1>2. CASE line.type = "pause"
  BY <1>0, <1>2, ReseedSeed DEF FeedLine, PauseLine
<1>3. CASE line.type = "exit"
  BY <1>0, <1>3 DEF FeedLine, ExitLine, SeedPerPhase
<1>4. CASE line.type \notin {"output", "pause", "exit"}
  <2>1. BlockLine(line)
    BY <1>4 DEF FeedLine
  <2>2. CASE line.type \in Replies /\ handlers # <<>> /\ Head(handlers) = "seed"
    BY <1>0, <2>1, <2>2, GoLiveSeed DEF BlockLine, SeedReply
  <2>3. CASE line.type \in Replies /\ handlers # <<>> /\ Head(handlers) # "seed"
    BY <1>0, <2>1, <2>3, PopPlainSeed DEF BlockLine
  <2>4. CASE ~(line.type \in Replies /\ handlers # <<>>)
    BY <1>0, <2>1, <2>4 DEF BlockLine
  <2> QED BY <2>2, <2>3, <2>4
<1> QED BY <1>1, <1>2, <1>3, <1>4

\* Every step keeps one seed handler per awaited seed.
LEMMA SeedKept ==
  ASSUME TypeOK, SeedPerPhase(phase, handlers, stdinOpen), [Next]_vars
  PROVE  SeedPerPhase(phase', handlers', stdinOpen')
<1> USE DEF client, server
<1>1. ASSUME NEW p \in Panes, ProgramWrites(p) \/ PauseAfter(p) \/ SelectPane(p)
      PROVE  SeedPerPhase(phase', handlers', stdinOpen')
  BY <1>1 DEF ProgramWrites, PauseAfter, SelectPane
<1>2. CASE RunCommand \/ ServerExits \/ StdinBreaks
  BY <1>2 DEF RunCommand, ServerExits, StdinBreaks, SeedPerPhase
<1>3. CASE FeedLine
  BY <1>3, FeedLineSeed
<1>4. CASE PutPending \/ ChunkDone \/ PutEnd
  BY <1>4 DEF PutPending, ChunkDone, PutEnd
<1>5. CASE EndOfFile
  BY <1>5 DEF EndOfFile, SeedPerPhase
<1>6. ASSUME NEW sized \in BOOLEAN, Start(sized)
      PROVE  SeedPerPhase(phase', handlers', stdinOpen')
  <2> DEFINE first == IF sized THEN <<"none">> ELSE <<>>
  <2>1. first \in Handlers /\ NoSeed(first)
    <3>1. <<"none">> \in Handlers /\ NoSeed(<<"none">>)
      BY DEF Handlers, NoSeed
    <3>2. <<>> \in Handlers /\ NoSeed(<<>>)
      BY DEF Handlers, NoSeed
    <3> QED BY <3>1, <3>2, Zenon
  <2>2. CASE stdinOpen
    <3>1. handlers' = Append(first, "seed") /\ phase' = "seeding"
      BY <1>6, <2>2 DEF Start
    <3> HIDE DEF first
    <3> QED BY <2>1, <3>1, AppendSeed DEF SeedPerPhase
  <2>3. CASE ~stdinOpen
    BY <1>6, <2>3 DEF Start, SeedPerPhase
  <2> QED BY <2>2, <2>3
<1>7. CASE Resize \/ WriteInput
  BY <1>7, SendPlainSeed DEF Resize, WriteInput
<1>8. CASE ResizeSettled \/ Refresh
  BY <1>8, ReseedSeed DEF ResizeSettled, Refresh
<1>9. CASE PasteLoad \/ Deliver
  BY <1>9 DEF PasteLoad, Deliver
<1>10. CASE PasteSend
  BY <1>10, SendPlainSeed DEF PasteSend
<1>11. CASE Close
  BY <1>11 DEF Close, SeedPerPhase
<1>12. CASE UNCHANGED vars
  BY <1>12 DEF vars
<1> QED
  BY <1>1, <1>2, <1>3, <1>4, <1>5, <1>6, <1>7, <1>8, <1>9, <1>10, <1>11, <1>12
     DEF Next, Reader

\* A broken stdin is a sign that the client is gone.
LEMMA StdinLastKept == TypeOK /\ StdinLast /\ [Next]_vars => StdinLast'
  BY DEF StdinLast, Next, Reader, TypeOK, vars, server, client, ProgramWrites, PauseAfter,
         SelectPane, RunCommand, ServerExits, StdinBreaks, FeedLine, PutPending,
         ChunkDone, EndOfFile, PutEnd, Start, Resize, ResizeSettled, Refresh, WriteInput,
         PasteLoad, PasteSend, Deliver, Close

\* reseed never has two captures under way and no seed's reply goes missing: in
\* every reachable state the number of seed handlers is the one its phase calls
\* for, and none is missing while tmux can still be asked.
THEOREM OneSeedAwaited == Spec => []SeedingHasOneReply
<1> DEFINE IInv == TypeOK /\ StdinLast /\ SeedPerPhase(phase, handlers, stdinOpen)
<1>1. Init => IInv
  <2>1. Init => StdinLast /\ SeedPerPhase(phase, handlers, stdinOpen)
    BY DEF Init, StdinLast, SeedPerPhase, NoSeed
  <2> QED BY <2>1, InitTypes
<1>2. IInv /\ [Next]_vars => IInv'
  BY TypesKept, StdinLastKept, SeedKept
<1>3. IInv => SeedingHasOneReply
  BY SeedPerPhaseIsInvariant
<1> QED BY <1>1, <1>2, <1>3, PTL DEF Spec

-------------------------------------------------------------------------------
(***************************************************************************)
(* The two queues: replies are matched to handlers by order alone, and     *)
(* inputs are run in the order they were taken.                            *)
(***************************************************************************)

-------------------------------------------------------------------------------
(***************************************************************************)
(* HandlersAligned: every reply meets the handler of the list it answers.  *)
(***************************************************************************)

\* The replies among the first n lines.
Repl(lines, n) == {i \in 1..n : IsReply(lines[i])}

\* Finitely many lines hold a natural number of replies.
LEMMA ReplFinite ==
  ASSUME NEW s, NEW n \in Nat
  PROVE  /\ IsFiniteSet(Repl(s, n))
         /\ RepliesIn(s, n) \in Nat
         /\ RepliesIn(s, n) = Cardinality(Repl(s, n))
<1>1. IsFiniteSet(1..n)
  BY FS_Interval
<1>2. IsFiniteSet(Repl(s, n))
  BY <1>1, FS_Subset DEF Repl
<1>3. QED BY <1>2, FS_CardinalityType DEF Repl, RepliesIn

\* Replies are counted line by line.
LEMMA RepliesCounted ==
  ASSUME NEW s
  PROVE  /\ RepliesIn(s, 0) = 0
         /\ \A n \in Nat :
              RepliesIn(s, n + 1) = IF IsReply(s[n + 1]) THEN RepliesIn(s,
                   n) + 1 ELSE RepliesIn(s, n)
<1>1. RepliesIn(s, 0) = 0
  <2>1. Repl(s, 0) = {}
    BY DEF Repl
  <2>2. QED BY <2>1, ReplFinite, FS_EmptySet
<1>2. ASSUME NEW n \in Nat
      PROVE  RepliesIn(s, n + 1) = IF IsReply(s[n + 1]) THEN RepliesIn(s,
           n) + 1 ELSE RepliesIn(s, n)
  <2>1. CASE IsReply(s[n + 1])
    <3>1. Repl(s, n + 1) = Repl(s, n) \cup {n + 1} /\ n + 1 \notin Repl(s, n)
      BY <2>1 DEF Repl
    <3>2. Cardinality(Repl(s, n + 1)) = Cardinality(Repl(s, n)) + 1
      BY <3>1, ReplFinite, FS_AddElement
    <3>3. QED BY <2>1, <3>2, ReplFinite
  <2>2. CASE ~IsReply(s[n + 1])
    <3>1. Repl(s, n + 1) = Repl(s, n)
      BY <2>2 DEF Repl
    <3>2. QED BY <2>2, <3>1, ReplFinite
  <2>3. QED BY <2>1, <2>2
<1>3. QED BY <1>1, <1>2

\* Lines that are replies alike are counted alike.
LEMMA SameReplies ==
  ASSUME NEW s, NEW t, NEW n \in Nat, \A i \in 1..n : IsReply(s[i]) <=> IsReply(t[i])
  PROVE  RepliesIn(s, n) = RepliesIn(t, n)
<1>1. Repl(s, n) = Repl(t, n)
  BY DEF Repl
<1>2. QED BY <1>1, ReplFinite

\* Without its first line a stream holds as many replies, less that line's.
LEMMA RepliesAfter ==
  ASSUME NEW s, NEW t, NEW n \in Nat, \A i \in 1..n : t[i] = s[i + 1]
  PROVE  RepliesIn(s, n + 1) = IF IsReply(s[1]) THEN RepliesIn(t, n) + 1 ELSE RepliesIn(t, n)
<1> DEFINE later == Repl(s, n + 1) \ {1}
           f == [i \in Repl(t, n) |-> i + 1]
<1>1. ExistsBijection(Repl(t, n), later)
  <2>1. \A i \in Repl(t, n) : i + 1 \in later
    BY DEF Repl
  <2>2. \A j \in later : j - 1 \in Repl(t, n) /\ j = (j - 1) + 1
    BY DEF Repl
  <2>3. \A i, j \in Repl(t, n) : i + 1 = j + 1 => i = j
    BY DEF Repl
  <2> HIDE DEF later
  <2>4. f \in Bijection(Repl(t, n), later)
    <3>1. f \in [Repl(t, n) -> later] /\ (\A a, b \in Repl(t, n) : f[a] = f[b] => a = b)
      BY <2>1, <2>3
    <3>2. \A j \in later : \E i \in Repl(t, n) : f[i] = j
      BY <2>2
    <3> HIDE DEF f
    <3>3. QED BY <3>1, <3>2, Fun_IsBij
  <2>5. QED BY <2>4 DEF ExistsBijection
<1>2. IsFiniteSet(later) /\ Cardinality(later) = Cardinality(Repl(t, n))
  BY <1>1, ReplFinite, FS_Bijection
<1>3. CASE IsReply(s[1])
  <2>1. Repl(s, n + 1) = later \cup {1} /\ 1 \notin later
    BY <1>3 DEF Repl
  <2> HIDE DEF later
  <2>2. Cardinality(Repl(s, n + 1)) = Cardinality(later) + 1
    BY <2>1, <1>2, FS_AddElement
  <2>3. QED BY <1>2, <1>3, <2>2, ReplFinite
<1>4. CASE ~IsReply(s[1])
  <2>1. Repl(s, n + 1) = later
    BY <1>4 DEF Repl
  <2>2. QED BY <1>2, <1>4, <2>1, ReplFinite
<1>5. QED BY <1>3, <1>4

\* A reply among the first lines is one of those counted to the end.
LEMMA RepliesUpTo ==
  ASSUME NEW s, NEW n \in Nat, NEW i \in 1..n, IsReply(s[i])
  PROVE  RepliesIn(s, i) \in 1..RepliesIn(s, n)
<1>1. Repl(s, i) \subseteq Repl(s, n) /\ i \in Repl(s, i) /\ i \in Nat
  BY DEF Repl
<1>2. /\ RepliesIn(s, i) = Cardinality(Repl(s, i)) /\ RepliesIn(s, i) \in Nat
      /\ RepliesIn(s, n) = Cardinality(Repl(s, n)) /\ RepliesIn(s, n) \in Nat
      /\ IsFiniteSet(Repl(s, i)) /\ IsFiniteSet(Repl(s, n))
  BY <1>1, ReplFinite
<1>3. Cardinality(Repl(s, i)) <= Cardinality(Repl(s, n))
  BY <1>1, <1>2, FS_Subset
<1>4. Cardinality(Repl(s, i)) # 0
  BY <1>1, <1>2, FS_EmptySet
<1>5. QED BY <1>2, <1>3, <1>4

\* A line that answers no command changes no reply's handler.
LEMMA LineSaid ==
  ASSUME NEW hs, NEW lines \in Seq(LineSet), NEW cs, NEW l \in LineSet, ~IsReply(l),
         Aligned(hs, lines, cs)
  PROVE  Aligned(hs, Append(lines, l), cs)
<1> DEFINE t == Append(lines, l)
           n == Len(lines)
<1>1. /\ n \in Nat /\ Len(t) = n + 1 /\ DOMAIN lines = 1..n /\ DOMAIN t = 1..n + 1
      /\ (\A i \in 1..n : t[i] = lines[i]) /\ t[n + 1] = l
  BY Appended
<1> HIDE DEF t, n
<1>2. \A i \in 0..n : RepliesIn(t, i) = RepliesIn(lines, i)
  <2> SUFFICES ASSUME NEW i \in 0..n PROVE RepliesIn(t, i) = RepliesIn(lines, i)
    OBVIOUS
  <2>1. \A k \in 1..i : IsReply(t[k]) <=> IsReply(lines[k])
    BY <1>1
  <2>2. i \in Nat
    BY <1>1
  <2>3. QED BY <2>1, <2>2, SameReplies
<1>3. RepliesIn(t, n + 1) = RepliesIn(lines, n)
  <2>1. RepliesIn(t, n + 1) = RepliesIn(t, n)
    BY <1>1, RepliesCounted
  <2>2. n \in 0..n
    BY <1>1
  <2>3. QED BY <1>2, <2>1, <2>2
<1>4. \A i \in 1..n + 1 : IsReply(t[i]) => i \in 1..n /\ t[i] = lines[i]
  BY <1>1
<1>5. Aligned(hs, t, cs)
  BY <1>1, <1>2, <1>3, <1>4 DEF Aligned, n
<1>6. QED BY <1>5 DEF t

\* Neither does a line that tmux changes to another that answers none.
LEMMA LinesAlike ==
  ASSUME NEW hs, NEW s \in Seq(LineSet), NEW cs, NEW t \in Seq(LineSet), Len(t) = Len(s),
         \A i \in 1..Len(s) : t[i] = s[i] \/ (~IsReply(t[i]) /\ ~IsReply(s[i])),
         Aligned(hs, s, cs)
  PROVE  Aligned(hs, t, cs)
<1>1. DOMAIN s = 1..Len(s) /\ DOMAIN t = 1..Len(s) /\ Len(s) \in Nat
  OBVIOUS
<1>2. \A i \in 0..Len(s) : RepliesIn(t, i) = RepliesIn(s, i)
  <2> SUFFICES ASSUME NEW i \in 0..Len(s) PROVE RepliesIn(t, i) = RepliesIn(s, i)
    OBVIOUS
  <2>1. \A k \in 1..i : IsReply(t[k]) <=> IsReply(s[k])
    BY <1>1
  <2>2. i \in Nat
    BY <1>1
  <2>3. QED BY <2>1, <2>2, SameReplies
<1>3. QED BY <1>1, <1>2 DEF Aligned

\* _send_list: the list and its handler go to the ends of their queues together.
LEMMA ListSent ==
  ASSUME NEW hs \in Handlers, NEW lines \in Seq(LineSet), NEW cs \in Seq(CmdSet),
         NEW c \in CmdSet, Aligned(hs, lines, cs)
  PROVE  Aligned(Append(hs, OwedFor(c)), lines, Append(cs, c))
<1> DEFINE h2 == Append(hs, OwedFor(c))
           c2 == Append(cs, c)
           r == RepliesIn(lines, Len(lines))
<1>1. /\ Len(cs) \in Nat /\ Len(c2) = Len(cs) + 1 /\ DOMAIN cs = 1..Len(cs)
      /\ DOMAIN c2 = 1..Len(cs) + 1
      /\ (\A i \in 1..Len(cs) : c2[i] = cs[i]) /\ c2[Len(cs) + 1] = c
  BY Appended
<1>2. /\ Len(hs) \in Nat /\ Len(h2) = Len(hs) + 1
      /\ (\A i \in 1..Len(hs) : h2[i] = hs[i]) /\ h2[Len(hs) + 1] = OwedFor(c)
  BY Appended DEF Handlers, OwedFor
<1>3. Len(lines) \in Nat /\ DOMAIN lines = 1..Len(lines) /\ r \in Nat
  BY ReplFinite
<1>4. \A i \in DOMAIN lines : IsReply(lines[i]) => RepliesIn(lines, i) \in 1..r
  BY <1>3, RepliesUpTo
<1> HIDE DEF h2, c2, r
<1>5. Len(hs) = r + Len(cs)
  BY DEF Aligned, r
<1>6. \A i \in DOMAIN lines : IsReply(lines[i])
     => h2[RepliesIn(lines, i)] = HandlerFor(lines[i])
  BY <1>1, <1>2, <1>3, <1>4, <1>5 DEF Aligned
<1>7. \A i \in DOMAIN c2 : h2[r + i] = OwedFor(c2[i])
  <2> SUFFICES ASSUME NEW i \in DOMAIN c2 PROVE h2[r + i] = OwedFor(c2[i])
    OBVIOUS
  <2>1. CASE i \in DOMAIN cs
    <3>1. r + i \in 1..Len(hs) /\ hs[r + i] = OwedFor(cs[i])
      BY <1>1, <1>3, <1>5, <2>1 DEF Aligned, r
    <3>2. QED BY <3>1, <2>1, <1>1, <1>2
  <2>2. CASE i = Len(cs) + 1
    BY <2>2, <1>1, <1>2, <1>3, <1>5
  <2>3. QED BY <1>1, <2>1, <2>2
<1>8. Len(h2) = r + Len(c2)
  BY <1>1, <1>2, <1>3, <1>5
<1>9. Aligned(h2, lines, c2)
  BY <1>6, <1>7, <1>8 DEF Aligned, r
<1>10. QED BY <1>9 DEF h2, c2

\* tmux answers the oldest list: its handler is now owed to a line in the pipe.
LEMMA ListRun ==
  ASSUME NEW hs \in Handlers, NEW lines \in Seq(LineSet), NEW cs \in Seq(CmdSet), cs # <<>>,
         NEW l \in LineSet, IsReply(l), HandlerFor(l) = OwedFor(Head(cs)),
         Aligned(hs, lines, cs)
  PROVE  Aligned(hs, Append(lines, l), Tail(cs))
<1> DEFINE t == Append(lines, l)
           c2 == Tail(cs)
           n == Len(lines)
           r == RepliesIn(lines, n)
<1>1. /\ n \in Nat /\ Len(t) = n + 1 /\ DOMAIN lines = 1..n /\ DOMAIN t = 1..n + 1
      /\ (\A i \in 1..n : t[i] = lines[i]) /\ t[n + 1] = l
  BY Appended
<1>2. /\ Len(c2) \in Nat /\ Len(cs) = Len(c2) + 1 /\ DOMAIN c2 = 1..Len(c2)
      /\ DOMAIN cs = 1..Len(c2) + 1 /\ Head(cs) = cs[1]
      /\ \A i \in 1..Len(c2) : c2[i] = cs[i + 1]
  BY Popped
<1> HIDE DEF t, n, c2
<1>3. r \in Nat
  BY <1>1, ReplFinite
<1>4. \A i \in 0..n : RepliesIn(t, i) = RepliesIn(lines, i)
  <2> SUFFICES ASSUME NEW i \in 0..n PROVE RepliesIn(t, i) = RepliesIn(lines, i)
    OBVIOUS
  <2>1. \A k \in 1..i : IsReply(t[k]) <=> IsReply(lines[k])
    BY <1>1
  <2>2. i \in Nat
    BY <1>1
  <2>3. QED BY <2>1, <2>2, SameReplies
<1>5. RepliesIn(t, n + 1) = r + 1
  <2>1. RepliesIn(t, n + 1) = RepliesIn(t, n) + 1
    BY <1>1, RepliesCounted
  <2>2. n \in 0..n
    BY <1>1
  <2>3. QED BY <1>4, <2>1, <2>2
<1> HIDE DEF r
<1>6. Len(hs) = r + Len(cs)
  BY DEF Aligned, r, n
<1>7. /\ \A i \in 1..n : IsReply(lines[i]) => hs[RepliesIn(lines, i)] = HandlerFor(lines[i])
      /\ \A i \in DOMAIN cs : hs[r + i] = OwedFor(cs[i])
  BY <1>1 DEF Aligned, r, n
<1>8. hs[r + 1] = HandlerFor(l)
  BY <1>2, <1>7
<1>9. \A i \in DOMAIN t : IsReply(t[i]) => hs[RepliesIn(t, i)] = HandlerFor(t[i])
  <2> SUFFICES ASSUME NEW i \in DOMAIN t, IsReply(t[i])
               PROVE  hs[RepliesIn(t, i)] = HandlerFor(t[i])
    OBVIOUS
  <2>1. CASE i \in 1..n
    BY <1>1, <1>4, <1>7, <2>1
  <2>2. CASE i = n + 1
    BY <1>1, <1>5, <1>8, <2>2
  <2>3. QED BY <1>1, <2>1, <2>2
<1>10. \A i \in DOMAIN c2 : hs[(r + 1) + i] = OwedFor(c2[i])
  <2> SUFFICES ASSUME NEW i \in DOMAIN c2 PROVE hs[(r + 1) + i] = OwedFor(c2[i])
    OBVIOUS
  <2>1. i \in Nat /\ i + 1 \in DOMAIN cs /\ c2[i] = cs[i + 1]
    BY <1>2
  <2>2. r + (i + 1) = (r + 1) + i
    BY <1>3, <2>1
  <2>3. hs[r + (i + 1)] = OwedFor(cs[i + 1])
    BY <1>7, <2>1
  <2>4. QED BY <2>1, <2>2, <2>3
<1>11. Len(hs) = (r + 1) + Len(c2)
  BY <1>2, <1>3, <1>6
<1>12. Aligned(hs, t, c2)
  BY <1>1, <1>5, <1>9, <1>10, <1>11 DEF Aligned
<1>13. QED BY <1>12 DEF t, c2

\* Reading a line that answers no command takes no handler.
LEMMA LineRead ==
  ASSUME NEW hs \in Handlers, NEW lines \in Seq(LineSet), lines # <<>>, NEW cs \in Seq(CmdSet),
         ~IsReply(Head(lines)), Aligned(hs, lines, cs)
  PROVE  Aligned(hs, Tail(lines), cs)
<1> DEFINE t == Tail(lines)
           n == Len(t)
<1>1. /\ n \in Nat /\ Len(lines) = n + 1 /\ DOMAIN t = 1..n /\ DOMAIN lines = 1..n + 1
      /\ Head(lines) = lines[1] /\ \A i \in 1..n : t[i] = lines[i + 1]
  BY Popped
<1> HIDE DEF t
<1>2. \A i \in 0..n : RepliesIn(lines, i + 1) = RepliesIn(t, i)
  <2> SUFFICES ASSUME NEW i \in 0..n PROVE RepliesIn(lines, i + 1) = RepliesIn(t, i)
    OBVIOUS
  <2>1. \A k \in 1..i : t[k] = lines[k + 1]
    BY <1>1
  <2>2. i \in Nat
    BY <1>1
  <2>3. QED BY <1>1, <2>1, <2>2, RepliesAfter
<1>3. RepliesIn(lines, Len(lines)) = RepliesIn(t, Len(t))
  BY <1>1, <1>2
<1>4. \A i \in 1..n : i + 1 \in DOMAIN lines /\ t[i] = lines[i + 1] /\ i \in 0..n
  BY <1>1
<1>5. Aligned(hs, t, cs)
  BY <1>1, <1>2, <1>3, <1>4 DEF Aligned
<1>6. QED BY <1>5 DEF t

\* Reading a reply takes the handler at the head, and it is the reply's own.
LEMMA ReplyRead ==
  ASSUME NEW hs \in Handlers, NEW lines \in Seq(LineSet), lines # <<>>, NEW cs \in Seq(CmdSet),
         IsReply(Head(lines)), Aligned(hs, lines, cs)
  PROVE  /\ hs # <<>> /\ Head(hs) = HandlerFor(Head(lines))
         /\ Aligned(Tail(hs), Tail(lines), cs)
<1> DEFINE t == Tail(lines)
           h2 == Tail(hs)
           n == Len(t)
           r == RepliesIn(t, n)
<1>1. /\ n \in Nat /\ Len(lines) = n + 1 /\ DOMAIN t = 1..n /\ DOMAIN lines = 1..n + 1
      /\ Head(lines) = lines[1] /\ \A i \in 1..n : t[i] = lines[i + 1]
  BY Popped
<1> HIDE DEF t
<1>2. \A i \in 0..n : RepliesIn(lines, i + 1) = RepliesIn(t, i) + 1
  <2> SUFFICES ASSUME NEW i \in 0..n PROVE RepliesIn(lines, i + 1) = RepliesIn(t, i) + 1
    OBVIOUS
  <2>1. \A k \in 1..i : t[k] = lines[k + 1]
    BY <1>1
  <2>2. i \in Nat
    BY <1>1
  <2>3. QED BY <1>1, <2>1, <2>2, RepliesAfter
<1>3. RepliesIn(lines, Len(lines)) = r + 1 /\ r \in Nat /\ Len(cs) \in Nat
  BY <1>1, <1>2, ReplFinite
<1>4. Len(hs) = (r + 1) + Len(cs)
  BY <1>3 DEF Aligned
<1> HIDE DEF r
<1>5. hs # <<>>
  BY <1>3, <1>4 DEF Handlers
<1>6. /\ Len(h2) \in Nat /\ Len(hs) = Len(h2) + 1 /\ Head(hs) = hs[1]
      /\ \A i \in 1..Len(h2) : h2[i] = hs[i + 1]
  BY <1>5, Popped DEF Handlers
<1> HIDE DEF h2
<1>7. Head(hs) = HandlerFor(Head(lines))
  <2>1. RepliesIn(lines, 1) = 1
    BY <1>1, <1>2, RepliesCounted
  <2>2. QED BY <2>1, <1>1, <1>6 DEF Aligned
<1>8. \A i \in DOMAIN t : IsReply(t[i]) => h2[RepliesIn(t, i)] = HandlerFor(t[i])
  <2> SUFFICES ASSUME NEW i \in DOMAIN t, IsReply(t[i])
               PROVE  h2[RepliesIn(t, i)] = HandlerFor(t[i])
    OBVIOUS
  <2>1. i \in 1..n /\ i \in 0..n /\ i + 1 \in DOMAIN lines /\ t[i] = lines[i + 1]
    BY <1>1
  <2>2. RepliesIn(t, i) \in 1..r
    BY <1>1, <2>1, RepliesUpTo DEF r
  <2>3. RepliesIn(t, i) \in 1..Len(h2)
    BY <2>2, <1>3, <1>4, <1>6
  <2>4. hs[RepliesIn(t, i) + 1] = HandlerFor(t[i])
    BY <1>2, <2>1 DEF Aligned
  <2>5. QED BY <1>6, <2>3, <2>4
<1>9. \A i \in DOMAIN cs : h2[r + i] = OwedFor(cs[i])
  <2> SUFFICES ASSUME NEW i \in DOMAIN cs PROVE h2[r + i] = OwedFor(cs[i])
    OBVIOUS
  <2>1. i \in 1..Len(cs) /\ hs[(r + 1) + i] = OwedFor(cs[i])
    BY <1>3 DEF Aligned
  <2>2. r + i \in 1..Len(h2) /\ (r + i) + 1 = (r + 1) + i
    BY <2>1, <1>3, <1>4, <1>6
  <2>3. QED BY <1>6, <2>1, <2>2
<1>10. Len(h2) = r + Len(cs)
  BY <1>3, <1>4, <1>6
<1>11. Aligned(h2, t, cs)
  BY <1>1, <1>8, <1>9, <1>10 DEF Aligned, r
<1>12. QED BY <1>5, <1>7, <1>11 DEF t, h2

\* HandlersAligned, and that nothing was sent before start(), which resets both.
AlignedInv == /\ HandlersAligned
              /\ phase = "starting" => handlers = <<>> /\ typing = 0

\* Sending a list with the handler it is owed keeps the handlers aligned.
LEMMA SendAligned ==
  ASSUME TypeOK, AlignedInv, NEW c \in CmdSet, NEW h, h = OwedFor(c), SendList(c, h),
         UNCHANGED pipe
  PROVE  HandlersAligned'
  BY ListSent DEF SendList, AlignedInv, HandlersAligned, TypeOK, Handlers

\* The handler a reseed is owed is the one that reads a seed.
LEMMA ReseedsAreOwed ==
  ASSUME NEW cont, NEW p \in Panes \cup {NoPane}
  PROVE  ReseedCmd(cont, p) \in CmdSet /\ OwedFor(ReseedCmd(cont, p)) = "seed"
  BY CmdTyped DEF ReseedCmd, Cmd, OwedFor

\* reseed() keeps them aligned and never takes the view back before start().
LEMMA ReseedAligned ==
  ASSUME TypeOK, Aligned(handlers, pipe', cmds), NEW cont, Reseed(cont), pipe' \in Seq(LineSet)
  PROVE  HandlersAligned' /\ phase' # "starting"
<1>1. ReseedCmd(cont, paneId) \in CmdSet /\ OwedFor(ReseedCmd(cont, paneId)) = "seed"
  BY ReseedsAreOwed DEF TypeOK
<1>2. handlers \in Handlers /\ cmds \in Seq(CmdSet)
  BY DEF TypeOK, Handlers
<1>3. CASE phase \in {"closed", "seeding"}
  BY <1>3 DEF Reseed, HandlersAligned
<1>4. CASE phase \in {"starting", "live"} /\ stdinOpen
  <2>1. /\ cmds' = Append(cmds, ReseedCmd(cont, paneId))
        /\ handlers' = Append(handlers, "seed") /\ phase' = "seeding"
    BY <1>4 DEF Reseed, SendList
  <2>2. QED BY <1>1, <1>2, <2>1, ListSent DEF HandlersAligned
<1>5. CASE phase \in {"starting", "live"} /\ ~stdinOpen
  BY <1>5 DEF Reseed, SendList, HandlersAligned
<1>6. QED BY <1>3, <1>4, <1>5 DEF TypeOK

\* So does everything the reader does with one line of the stream.
LEMMA FeedAligned ==
  ASSUME TypeOK, AlignedInv, FeedLine
  PROVE  HandlersAligned' /\ (phase' = "starting" => phase = "starting" /\ handlers' = handlers)
<1> DEFINE line == Head(pipe)
<1>1. pipe \in Seq(LineSet) /\ pipe # <<>> /\ pipe' = Tail(pipe) /\ pipe' \in Seq(LineSet)
  BY DEF FeedLine, TypeOK
<1>2. handlers \in Handlers /\ cmds \in Seq(CmdSet) /\ Aligned(handlers, pipe, cmds)
  BY DEF TypeOK, Handlers, AlignedInv, HandlersAligned
<1>3. ASSUME line.type \notin Replies PROVE Aligned(handlers, pipe', cmds)
  BY <1>1, <1>2, <1>3, LineRead DEF IsReply
<1>4. ASSUME UNCHANGED <<handlers, cmds>>, line.type \notin Replies PROVE HandlersAligned'
  BY <1>3, <1>4 DEF HandlersAligned
<1>5. CASE line.type = "output"
  BY <1>4, <1>5 DEF FeedLine, OutputLine, Replies
<1>6. CASE line.type = "pause"
  <2>1. line.type \notin Replies
    BY <1>6 DEF Replies
  <2>2. PauseLine(line)
    BY <1>6 DEF FeedLine
  <2>3. QED BY <1>1, <1>3, <1>4, <2>1, <2>2, ReseedAligned DEF PauseLine
<1>7. CASE line.type = "exit"
  BY <1>4, <1>7 DEF FeedLine, ExitLine, Replies
<1>8. CASE line.type \notin {"output", "pause", "exit"}
  <2>1. BlockLine(line)
    BY <1>8 DEF FeedLine
  <2>2. CASE line.type \notin Replies
    BY <1>4, <2>1, <2>2 DEF BlockLine
  <2>3. CASE line.type \in Replies
    <3>1. /\ handlers # <<>> /\ Head(handlers) = HandlerFor(line)
          /\ Aligned(Tail(handlers), pipe', cmds)
      BY <1>1, <1>2, <2>3, ReplyRead DEF IsReply
    <3>2. Tail(handlers) \in Handlers /\ phase # "starting"
      BY <3>1, <1>2 DEF AlignedInv, Handlers
    <3>3. ASSUME NEW items, NEW p \in Panes \cup {NoPane}, GoLive(items, p)
          PROVE  HandlersAligned' /\ phase' # "starting"
      <4>1. ReseedCmd(queued, p) \in CmdSet /\ OwedFor(ReseedCmd(queued, p)) = "seed"
        BY ReseedsAreOwed
      <4>2. Aligned(Append(Tail(handlers), "seed"), pipe', Append(cmds, ReseedCmd(queued, p)))
        BY <1>1, <1>2, <3>1, <3>2, <4>1, ListSent
      <4>3. QED BY <3>1, <3>2, <3>3, <4>2 DEF GoLive, HandlersAligned
    <3>4. paneId \in Panes \cup {NoPane} /\ line.pane \in Panes \cup {NoPane}
      <4>1. line \in LineSet
        BY <1>1
      <4>2. QED BY <4>1 DEF LineSet, TypeOK
    <3> HIDE DEF line
    <3>5. CASE SeedReply(line)
      BY <3>3, <3>4, <3>5 DEF SeedReply
    <3>6. CASE handlers' = Tail(handlers) /\ UNCHANGED <<cmds, phase>>
      BY <3>1, <3>2, <3>6 DEF HandlersAligned
    <3>7. QED BY <2>1, <2>3, <3>1, <3>5, <3>6 DEF BlockLine
  <2>4. QED BY <2>2, <2>3
<1>9. QED BY <1>5, <1>6, <1>7, <1>8

\* Every step keeps the handlers aligned.
LEMMA AlignedStep == TypeOK /\ AlignedInv /\ [Next]_vars => AlignedInv'
<1> SUFFICES ASSUME TypeOK, AlignedInv, [Next]_vars PROVE AlignedInv'
  OBVIOUS
<1>1. /\ handlers \in Handlers /\ cmds \in Seq(CmdSet) /\ pipe \in Seq(LineSet)
      /\ Aligned(handlers, pipe, cmds)
  BY DEF TypeOK, Handlers, AlignedInv, HandlersAligned
<1>2. CASE UNCHANGED <<handlers, cmds, pipe>> /\ typing' \in {typing, 0}
             /\ phase' \in {phase, "closed"}
  BY <1>2 DEF AlignedInv, HandlersAligned
<1>3. ASSUME NEW l \in LineSet, ~IsReply(l), pipe' = Append(pipe, l),
             UNCHANGED <<handlers, cmds, phase, typing>>
      PROVE  AlignedInv'
  BY <1>1, <1>3, LineSaid DEF AlignedInv, HandlersAligned
<1>4. ASSUME NEW p \in Panes, ProgramWrites(p) PROVE AlignedInv'
  <2>1. written'[p] \in Nat
    BY <1>4 DEF ProgramWrites, TypeOK
  <2>2. Output(p, written'[p]) \in LineSet /\ ~IsReply(Output(p, written'[p]))
    BY <2>1, LineTyped DEF Output, IsReply, Replies
  <2>3. QED BY <1>2, <1>3, <1>4, <2>2 DEF ProgramWrites, client, input
<1>5. ASSUME NEW p \in Panes, PauseAfter(p) PROVE AlignedInv'
  <2>1. PICK k \in 0..Len(pipe) :
          pipe' = Append([i \in 1..Len(pipe) |->
                           IF i > k /\ IsOutputOf(p, pipe[i]) THEN Line("lost")
                                                             ELSE pipe[i]],
                         Pause(p))
    BY <1>5 DEF PauseAfter
  <2> DEFINE left == [i \in 1..Len(pipe) |->
                       IF i > k /\ IsOutputOf(p, pipe[i]) THEN Line("lost") ELSE pipe[i]]
  <2>2. /\ Line("lost") \in LineSet /\ ~IsReply(Line("lost"))
        /\ Pause(p) \in LineSet /\ ~IsReply(Pause(p))
    BY LineTyped DEF LineTypes, IsReply, Replies, Line, Pause
  <2>3. left \in Seq(LineSet) /\ Len(left) = Len(pipe)
    BY <1>1, <2>2
  <2>4. \A i \in 1..Len(pipe) : left[i] = pipe[i] \/ (~IsReply(left[i]) /\ ~IsReply(pipe[i]))
    BY <2>2 DEF IsOutputOf, IsReply, Replies
  <2> HIDE DEF left
  <2>5. Aligned(handlers, left, cmds)
    BY <1>1, <2>3, <2>4, LinesAlike
  <2>6. Aligned(handlers, Append(left, Pause(p)), cmds)
    BY <2>2, <2>3, <2>5, LineSaid
  <2>7. pipe' = Append(left, Pause(p)) /\ UNCHANGED <<handlers, cmds, phase, typing>>
    BY <1>5, <2>1 DEF PauseAfter, client, input, left
  <2>8. QED BY <2>6, <2>7 DEF AlignedInv, HandlersAligned
<1>6. ASSUME NEW p \in Panes, SelectPane(p) PROVE AlignedInv'
  BY <1>2, <1>6 DEF SelectPane, client, input
<1>7. CASE RunCommand
  <2>1. /\ cmds # <<>> /\ cmds' = Tail(cmds) /\ UNCHANGED <<handlers, phase, typing>>
    BY <1>7 DEF RunCommand, client, input
  <2>2. Head(cmds) \in CmdSet
    BY <1>1, <2>1
  <2>3. /\ Seed(active, written[active], size) \in LineSet
        /\ Line("done") \in LineSet /\ Line("unreadable") \in LineSet
    <3>1. active \in Panes /\ written[active] \in Nat /\ size \in Nat
      BY DEF TypeOK
    <3>2. QED BY <3>1, LineTyped DEF LineTypes, Replies
  <2>4. \E l \in LineSet : /\ pipe' = Append(pipe, l) /\ IsReply(l)
                           /\ HandlerFor(l) = OwedFor(Head(cmds))
    <3>1. CASE Head(cmds).type = "reseed"
      <4>1. pipe' \in {Append(pipe, Seed(active, written[active], size)),
                       Append(pipe, Line("unreadable"))}
        BY <1>7, <3>1 DEF RunCommand
      <4>2. QED BY <2>3, <3>1, <4>1 DEF Seed, Line, IsReply, Replies, HandlerFor, OwedFor
    <3>2. CASE Head(cmds).type # "reseed"
      <4>1. pipe' = Append(pipe, Line("done"))
        BY <1>7, <3>2 DEF RunCommand
      <4>2. QED BY <2>3, <3>2, <4>1 DEF Line, IsReply, Replies, HandlerFor, OwedFor
    <3>3. QED BY <3>1, <3>2
  <2>5. HandlersAligned'
    BY <1>1, <2>1, <2>4, ListRun DEF HandlersAligned
  <2>6. QED BY <2>1, <2>5 DEF AlignedInv
<1>8. CASE ServerExits
  <2>1. Line("exit") \in LineSet /\ ~IsReply(Line("exit"))
    BY LineTyped DEF LineTypes, IsReply, Replies, Line
  <2>2. QED BY <1>2, <1>3, <1>8, <2>1 DEF ServerExits, client, input
<1>21. CASE StdinBreaks
  BY <1>2, <1>21 DEF StdinBreaks, client, input
<1>9. CASE FeedLine
  BY <1>9, FeedAligned DEF AlignedInv, FeedLine, input
<1>10. CASE PutPending \/ ChunkDone \/ EndOfFile \/ PutEnd
  BY <1>2, <1>10 DEF PutPending, ChunkDone, EndOfFile, PutEnd, client, input
<1>11. ASSUME NEW sized \in BOOLEAN, Start(sized) PROVE AlignedInv'
  <2>1. /\ ReseedCmd("plain", NoPane) \in CmdSet
        /\ OwedFor(ReseedCmd("plain", NoPane)) = "seed"
    BY ReseedsAreOwed
  <2>2. phase' = "seeding" /\ pipe' = pipe
    BY <1>11 DEF Start
  <2>3. handlers = <<>>
    BY <1>11 DEF Start, AlignedInv
  <2>4. cmds = <<>>
    <3>1. Len(cmds) = 0
      <4>1. Len(pipe) \in Nat /\ Len(cmds) \in Nat
        BY <1>1
      <4>2. RepliesIn(pipe, Len(pipe)) \in Nat
        BY <4>1, ReplFinite
      <4>3. Len(handlers) = RepliesIn(pipe, Len(pipe)) + Len(cmds) /\ Len(handlers) = 0
        BY <1>1, <2>3 DEF Aligned
      <4>4. QED BY <4>1, <4>2, <4>3
    <3>2. QED BY <1>1, <3>1
  <2>8. CASE ~stdinOpen
    BY <1>1, <1>11, <2>2, <2>8 DEF Start, AlignedInv, HandlersAligned
  <2>5. CASE sized /\ stdinOpen
    <3> DEFINE c == Cmd("size", NoPane, 1)
    <3>1. c \in CmdSet /\ OwedFor(c) = "none"
      BY CmdTyped DEF Cmd, OwedFor
    <3> HIDE DEF c
    <3>2. Aligned(Append(handlers, "none"), pipe, Append(cmds, c))
      BY <1>1, <3>1, ListSent
    <3>3. Append(handlers, "none") = <<"none">> /\ Append(cmds, c) = <<c>>
      BY <2>3, <2>4
    <3>4. Aligned(<<"none">>, pipe, <<c>>)
      BY <3>2, <3>3
    <3>5. <<"none">> \in Handlers /\ <<c>> \in Seq(CmdSet)
      BY <3>1 DEF Handlers
    <3>6. Aligned(Append(<<"none">>, "seed"), pipe, Append(<<c>>, ReseedCmd("plain", NoPane)))
      BY <1>1, <2>1, <3>4, <3>5, ListSent
    <3>7. handlers' = Append(<<"none">>, "seed")
         /\ cmds' = Append(<<c>>, ReseedCmd("plain", NoPane))
      BY <1>11, <2>5 DEF Start, c
    <3>8. QED BY <2>2, <3>6, <3>7 DEF AlignedInv, HandlersAligned
  <2>6. CASE ~sized /\ stdinOpen
    <3>1. /\ handlers' = Append(handlers, "seed")
          /\ cmds' = Append(cmds, ReseedCmd("plain", NoPane))
      BY <1>11, <2>3, <2>4, <2>6 DEF Start
    <3>2. QED BY <1>1, <2>1, <2>2, <3>1, ListSent DEF AlignedInv, HandlersAligned
  <2>7. QED BY <2>5, <2>6, <2>8
<1>12. CASE Resize
  <2>1. Cmd("size", NoPane, cols') \in CmdSet /\ OwedFor(Cmd("size", NoPane, cols')) = "none"
    <3>1. cols' \in Nat
      BY <1>12 DEF Resize, TypeOK
    <3>2. QED BY <3>1, CmdTyped DEF Cmd, OwedFor
  <2>2. QED BY <1>12, <2>1, SendAligned DEF Resize, TakesMessage, AlignedInv
<1>13. CASE ResizeSettled \/ Refresh
  <2>1. \E cont : Reseed(cont)
    BY <1>13 DEF ResizeSettled, Refresh
  <2>2. pipe' = pipe
    BY <1>13 DEF ResizeSettled, Refresh
  <2>3. QED BY <1>1, <2>1, <2>2, ReseedAligned DEF AlignedInv
<1>14. CASE WriteInput
  <2>1. phase # "starting" /\ UNCHANGED <<phase, pipe>>
    BY <1>14 DEF WriteInput, TakesMessage
  <2>2. CASE UNCHANGED <<cmds, handlers>>
    BY <1>1, <2>1, <2>2 DEF AlignedInv, HandlersAligned
  <2>3. CASE SendList(Cmd("input", paneId, inputs'), "none")
    <3>1. inputs' \in Nat /\ paneId \in Panes \cup {NoPane}
      BY <1>14 DEF WriteInput, TypeOK
    <3>2. Cmd("input", paneId, inputs') \in CmdSet
         /\ OwedFor(Cmd("input", paneId, inputs')) = "none"
      BY <3>1, CmdTyped DEF Cmd, OwedFor
    <3>3. QED BY <2>1, <2>3, <3>2, SendAligned DEF AlignedInv
  <2>4. QED BY <1>14, <2>2, <2>3 DEF WriteInput
<1>15. CASE PasteLoad
  BY <1>15 DEF PasteLoad, TakesMessage, client, AlignedInv, HandlersAligned
<1>16. CASE PasteSend
  <2>1. phase # "starting" /\ UNCHANGED <<phase, pipe>>
    BY <1>16 DEF PasteSend, AlignedInv
  <2>2. CASE UNCHANGED <<cmds, handlers>>
    BY <1>1, <2>1, <2>2 DEF AlignedInv, HandlersAligned
  <2>3. CASE SendList(Cmd("input", paneId, typing), "none")
    <3>1. typing \in Nat /\ paneId \in Panes \cup {NoPane}
      BY DEF TypeOK
    <3>2. Cmd("input", paneId, typing) \in CmdSet
         /\ OwedFor(Cmd("input", paneId, typing)) = "none"
      BY <3>1, CmdTyped DEF Cmd, OwedFor
    <3>3. QED BY <2>1, <2>3, <3>2, SendAligned DEF AlignedInv
  <2>4. QED BY <1>16, <2>2, <2>3 DEF PasteSend
<1>17. CASE Deliver
  BY <1>2, <1>17 DEF Deliver, client, input
<1>18. CASE Close
  BY <1>2, <1>18 DEF Close
<1>19. CASE UNCHANGED vars
  BY <1>2, <1>19 DEF vars, client, input
<1>20. QED
  BY <1>4, <1>5, <1>6, <1>7, <1>8, <1>9, <1>10, <1>11, <1>12, <1>13, <1>14, <1>15, <1>16,
     <1>17, <1>18, <1>19, <1>21
     DEF Next, Reader

\* At first tmux greets its client, which is no reply to it.
LEMMA AlignedInit == Init => AlignedInv
<1> SUFFICES ASSUME Init PROVE AlignedInv
  OBVIOUS
<1> DEFINE g == Line("greeting")
<1>1. pipe = <<g>> /\ cmds = <<>> /\ handlers = <<>> /\ typing = 0
  BY DEF Init
<1>2. ~IsReply(g)
  BY DEF Line, IsReply, Replies
<1> HIDE DEF g
<1>3. Len(pipe) = 1 /\ DOMAIN pipe = {1} /\ pipe[1] = g /\ Len(cmds) = 0 /\ Len(handlers) = 0
      /\ DOMAIN cmds = {}
  BY <1>1
<1>4. RepliesIn(pipe, 0 + 1) = 0
  BY <1>2, <1>3, RepliesCounted
<1>5. QED BY <1>1, <1>2, <1>3, <1>4 DEF AlignedInv, HandlersAligned, Aligned

\* ControlProtocol matches the replies in the pipe to the handlers by order alone:
\* every reply, read or still to come, meets the handler of the list it answers.
THEOREM RepliesMeetHandlers == Spec => []HandlersAligned
<1>1. Init => AlignedInv
  BY AlignedInit
<1>2. AlignedInv => HandlersAligned
  BY DEF AlignedInv
<1>3. QED BY <1>1, <1>2, AlignedStep, TypeCorrect, PTL DEF Spec

-------------------------------------------------------------------------------
(***************************************************************************)
(* InputsInOrder: tmux runs the inputs in the order they were taken.       *)
(***************************************************************************)

\* Command lists are numbered.
LEMMA CmdIds == \A s \in Seq(CmdSet) : \A i \in DOMAIN s : s[i].id \in Nat
<1> SUFFICES ASSUME NEW s \in Seq(CmdSet), NEW i \in DOMAIN s PROVE s[i].id \in Nat
  OBVIOUS
<1>1. s[i] \in CmdSet
  OBVIOUS
<1>2. QED BY <1>1 DEF CmdSet

\* A list that types keys or pastes a text into a pane.
IsInput(c) == c.type = "input"

\* Inputs reach a pane in the order they were taken: those tmux ran, those it has
\* still to run and the paste that is being loaded are numbered in this order.
InOrder(cs, lg, ty, n) ==
  /\ \A i, j \in DOMAIN lg : i < j => lg[i] < lg[j]
  /\ \A i \in DOMAIN lg : lg[i] <= n /\ (ty # 0 => lg[i] < ty)
  /\ \A i \in DOMAIN cs : IsInput(cs[i]) =>
       /\ cs[i].id <= n /\ (ty # 0 => cs[i].id < ty)
       /\ \A k \in DOMAIN lg : lg[k] < cs[i].id
  /\ \A i, j \in DOMAIN cs : i < j /\ IsInput(cs[i]) /\ IsInput(cs[j]) => cs[i].id < cs[j].id
  /\ ty <= n

\* The invariant of the inputs: InOrder of what is under way.
InputInv == InOrder(cmds, log, typing, inputs)

\* A list that is no input leaves the inputs in order.
LEMMA OtherSent ==
  ASSUME TypeOK, InputInv, NEW c \in CmdSet, ~IsInput(c)
  PROVE  InOrder(Append(cmds, c), log, typing, inputs)
<1> DEFINE cs == Append(cmds, c)
<1>1. /\ Len(cmds) \in Nat /\ DOMAIN cmds = 1..Len(cmds) /\ DOMAIN cs = 1..Len(cmds) + 1
      /\ (\A i \in 1..Len(cmds) : cs[i] = cmds[i]) /\ cs[Len(cmds) + 1] = c
  BY Appended DEF TypeOK
<1> HIDE DEF cs
<1>2. \A i \in DOMAIN cs : IsInput(cs[i]) => i \in DOMAIN cmds /\ cs[i] = cmds[i]
  BY <1>1
<1>3. InOrder(cs, log, typing, inputs)
  BY <1>2 DEF InputInv, InOrder
<1>4. QED BY <1>3 DEF cs

\* A new input, or the paste that was being loaded, goes behind all others.
LEMMA InputSent ==
  ASSUME TypeOK, InputInv, NEW c \in CmdSet, NEW n \in Nat, c.id <= n, inputs <= n,
         \/ typing # 0 /\ c.id = typing
         \/ c.id > inputs
  PROVE  InOrder(Append(cmds, c), log, 0, n)
<1> DEFINE cs == Append(cmds, c)
<1>1. /\ Len(cmds) \in Nat /\ DOMAIN cmds = 1..Len(cmds) /\ DOMAIN cs = 1..Len(cmds) + 1
      /\ (\A i \in 1..Len(cmds) : cs[i] = cmds[i]) /\ cs[Len(cmds) + 1] = c
  BY Appended DEF TypeOK
<1> HIDE DEF cs
<1>2. /\ inputs \in Nat /\ typing \in Nat /\ c.id \in Nat
      /\ \A i \in DOMAIN cmds : cmds[i].id \in Nat
  BY CmdIds DEF TypeOK, CmdSet
<1>3. \A i \in DOMAIN log : log[i] \in Nat
  BY DEF TypeOK
<1>4. /\ \A i \in DOMAIN log : log[i] < c.id
      /\ \A i \in DOMAIN cmds : IsInput(cmds[i]) => cmds[i].id < c.id
  BY <1>2, <1>3 DEF InputInv, InOrder
<1>5. \A i \in DOMAIN cs : (i \in DOMAIN cmds /\ cs[i] = cmds[i]) \/ (i = Len(cmds) + 1
     /\ cs[i] = c)
  BY <1>1
<1>6. \A i, j \in DOMAIN cs : i < j => i \in DOMAIN cmds
  BY <1>1
<1>7. \A i \in DOMAIN log : log[i] <= n
  BY <1>2, <1>3 DEF InputInv, InOrder
<1>8. \A i \in DOMAIN cs : IsInput(cs[i])
     => cs[i].id <= n /\ \A k \in DOMAIN log : log[k] < cs[i].id
  BY <1>2, <1>4, <1>5 DEF InputInv, InOrder
<1>9. \A i, j \in DOMAIN cs : i < j /\ IsInput(cs[i]) /\ IsInput(cs[j]) => cs[i].id < cs[j].id
  <2> SUFFICES ASSUME NEW i \in DOMAIN cs, NEW j \in DOMAIN cs, i < j,
                      IsInput(cs[i]), IsInput(cs[j])
               PROVE  cs[i].id < cs[j].id
    OBVIOUS
  <2>1. i \in DOMAIN cmds /\ cs[i] = cmds[i]
    BY <1>1, <1>6
  <2>2. CASE j \in DOMAIN cmds /\ cs[j] = cmds[j]
    BY <2>1, <2>2 DEF InputInv, InOrder
  <2>3. CASE cs[j] = c
    BY <1>4, <2>1, <2>3
  <2>4. QED BY <1>5, <2>2, <2>3
<1>10. InOrder(cs, log, 0, n)
  BY <1>2, <1>7, <1>8, <1>9 DEF InputInv, InOrder
<1>11. QED BY <1>10 DEF cs

\* tmux runs the oldest list.
LEMMA InputRuns ==
  ASSUME TypeOK, InputInv, cmds # <<>>
  PROVE  InOrder(Tail(cmds), IF IsInput(Head(cmds)) THEN Append(log, Head(cmds).id) ELSE log,
       typing, inputs)
<1> DEFINE cs == Tail(cmds)
           c == Head(cmds)
           lg == Append(log, c.id)
<1>1. /\ Len(cs) \in Nat /\ DOMAIN cs = 1..Len(cs) /\ DOMAIN cmds = 1..Len(cs) + 1
      /\ c = cmds[1] /\ c \in CmdSet /\ (\A i \in 1..Len(cs) : cs[i] = cmds[i + 1])
  BY Popped DEF TypeOK
<1>2. \A i \in DOMAIN cmds : cmds[i].id \in Nat
  BY CmdIds DEF TypeOK
<1>3. c.id \in Nat
  BY <1>1, <1>2
<1>4. /\ Len(log) \in Nat /\ DOMAIN log = 1..Len(log) /\ DOMAIN lg = 1..Len(log) + 1
      /\ (\A i \in 1..Len(log) : lg[i] = log[i]) /\ lg[Len(log) + 1] = c.id
  BY <1>3, Appended DEF TypeOK
<1> HIDE DEF cs, c, lg
<1>5. /\ \A i \in DOMAIN cs : i + 1 \in DOMAIN cmds /\ cs[i] = cmds[i + 1] /\ i \in Nat
      /\ 1 \in DOMAIN cmds
  BY <1>1
<1>6. InOrder(cs, log, typing, inputs)
  BY <1>5 DEF InputInv, InOrder
<1>7. ASSUME IsInput(c) PROVE InOrder(cs, lg, typing, inputs)
  <2>1. /\ \A i \in DOMAIN log : log[i] < c.id
        /\ \A i \in DOMAIN cs : IsInput(cs[i]) => c.id < cs[i].id
        /\ c.id <= inputs /\ (typing # 0 => c.id < typing)
    BY <1>1, <1>5, <1>7 DEF InputInv, InOrder
  <2>2. \A i \in DOMAIN lg : (i \in DOMAIN log /\ lg[i] = log[i]) \/ (i = Len(log) + 1
       /\ lg[i] = c.id)
    BY <1>4
  <2>3. \A i, j \in DOMAIN lg : i < j => i \in DOMAIN log
    BY <1>4
  <2>4. \A i, j \in DOMAIN lg : i < j => lg[i] < lg[j]
    BY <2>1, <2>2, <2>3 DEF InputInv, InOrder
  <2>5. QED BY <1>6, <2>1, <2>2, <2>4 DEF InOrder
<1>8. QED BY <1>6, <1>7 DEF cs, c, lg

\* The same of _send_list, which sends nothing on a closed view.
LEMMA SendOther ==
  ASSUME TypeOK, InputInv, NEW c \in CmdSet, ~IsInput(c), NEW h, SendList(c, h),
         UNCHANGED <<log, typing, inputs>>
  PROVE  InputInv'
  BY OtherSent DEF SendList, InputInv

\* A reseed types nothing.
LEMMA ReseedsAreNoInput ==
  ASSUME NEW cont, NEW p \in Panes \cup {NoPane}
  PROVE  ReseedCmd(cont, p) \in CmdSet /\ ~IsInput(ReseedCmd(cont, p))
  BY CmdTyped DEF ReseedCmd, Cmd, IsInput

\* reseed() leaves the inputs in order.
LEMMA ReseedOrder ==
  ASSUME TypeOK, InputInv, NEW cont, Reseed(cont), UNCHANGED <<log, typing, inputs>>
  PROVE  InputInv'
<1>1. ReseedCmd(cont, paneId) \in CmdSet /\ ~IsInput(ReseedCmd(cont, paneId))
  BY ReseedsAreNoInput DEF TypeOK
<1>2. CASE UNCHANGED cmds
  BY <1>2 DEF InputInv
<1>3. QED BY <1>1, <1>2, SendOther DEF Reseed

\* The reader sends reseeds and no input.
LEMMA FeedOrder ==
  ASSUME TypeOK, InputInv, FeedLine
  PROVE  InputInv'
<1> DEFINE line == Head(pipe)
<1>1. UNCHANGED <<log, typing, inputs>>
  BY DEF FeedLine, server, input
<1>2. CASE UNCHANGED cmds
  BY <1>1, <1>2 DEF InputInv
<1>3. CASE line.type = "output"
  BY <1>2, <1>3 DEF FeedLine, OutputLine
<1>4. CASE line.type = "pause"
  BY <1>1, <1>2, <1>4, ReseedOrder DEF FeedLine, PauseLine
<1>5. CASE line.type = "exit"
  BY <1>2, <1>5 DEF FeedLine, ExitLine
<1>6. CASE line.type \notin {"output", "pause", "exit"}
  <2>1. ASSUME NEW items, NEW p \in Panes \cup {NoPane}, GoLive(items, p) PROVE InputInv'
    BY <1>1, <1>2, <2>1, ReseedsAreNoInput, OtherSent DEF GoLive, InputInv
  <2>2. BlockLine(line)
    BY <1>6 DEF FeedLine
  <2>3. paneId \in Panes \cup {NoPane} /\ line.pane \in Panes \cup {NoPane}
    <3>1. line \in LineSet
      BY DEF TypeOK, FeedLine
    <3>2. QED BY <3>1 DEF LineSet, TypeOK
  <2> HIDE DEF line
  <2>4. CASE SeedReply(line)
    BY <2>1, <2>3, <2>4 DEF SeedReply
  <2>5. QED BY <1>2, <2>2, <2>4 DEF BlockLine
<1>7. QED BY <1>3, <1>4, <1>5, <1>6

\* Every step keeps the inputs in order.
LEMMA InputStep == TypeOK /\ InputInv /\ [Next]_vars => InputInv'
<1> SUFFICES ASSUME TypeOK, InputInv, [Next]_vars PROVE InputInv'
  OBVIOUS
<1>1. CASE UNCHANGED <<cmds, log, typing, inputs>>
  BY <1>1 DEF InputInv
<1>2. ASSUME NEW p \in Panes, ProgramWrites(p) \/ PauseAfter(p) \/ SelectPane(p)
      PROVE  InputInv'
  BY <1>1, <1>2 DEF ProgramWrites, PauseAfter, SelectPane, input
<1>3. CASE RunCommand
  <2>1. InOrder(cmds', log', typing, inputs)
    BY <1>3, InputRuns DEF RunCommand, IsInput
  <2>2. QED BY <1>3, <2>1 DEF RunCommand, InputInv, input
<1>4. CASE ServerExits \/ StdinBreaks
  BY <1>1, <1>4 DEF ServerExits, StdinBreaks, input
<1>5. CASE FeedLine
  BY <1>5, FeedOrder
<1>6. CASE PutPending \/ ChunkDone \/ EndOfFile \/ PutEnd
  BY <1>1, <1>6 DEF PutPending, ChunkDone, EndOfFile, PutEnd, server, input
<1>7. ASSUME NEW sized \in BOOLEAN, Start(sized) PROVE InputInv'
  <2> DEFINE first == IF sized THEN <<Cmd("size", NoPane, 1)>> ELSE <<>>
  <2>1. UNCHANGED <<log, typing, inputs>>
    BY <1>7 DEF Start, server, input
  <2>2. CASE cmds' = cmds
    BY <1>1, <2>1, <2>2
  <2>3. CASE cmds' = Append(first, ReseedCmd("plain", NoPane))
    <3>1. Cmd("size", NoPane, 1) \in CmdSet /\ ~IsInput(Cmd("size", NoPane, 1))
      BY CmdTyped DEF Cmd, IsInput
    <3>2. first \in Seq(CmdSet) /\ \A i \in DOMAIN first : ~IsInput(first[i])
      <4>1. CASE sized
        BY <3>1, <4>1
      <4>2. CASE ~sized
        BY <4>2
      <4>3. QED BY <4>1, <4>2
    <3> HIDE DEF first
    <3>3. \A i \in DOMAIN cmds' : ~IsInput(cmds'[i])
      BY <2>3, <3>2, ReseedsAreNoInput, Appended
    <3>4. QED BY <2>1, <3>3 DEF InputInv, InOrder
  <2>4. QED BY <1>7, <2>2, <2>3 DEF Start
<1>8. CASE Resize
  <2>1. Cmd("size", NoPane, cols') \in CmdSet /\ ~IsInput(Cmd("size", NoPane, cols'))
    <3>1. cols' \in Nat
      BY <1>8 DEF Resize, TypeOK
    <3>2. QED BY <3>1, CmdTyped DEF Cmd, IsInput
  <2>2. QED BY <1>8, <2>1, SendOther DEF Resize, server
<1>9. CASE ResizeSettled \/ Refresh
  BY <1>9, ReseedOrder DEF ResizeSettled, Refresh, server, input
<1>10. CASE WriteInput
  <2>1. inputs \in Nat /\ inputs' = inputs + 1 /\ typing = 0 /\ UNCHANGED <<log, typing>>
    BY <1>10 DEF WriteInput, TakesMessage, TypeOK, server
  <2>2. CASE UNCHANGED cmds
    <3>1. /\ \A i \in DOMAIN log : log[i] \in Nat
          /\ \A i \in DOMAIN cmds : cmds[i].id \in Nat
      BY CmdIds DEF TypeOK
    <3>2. QED BY <2>1, <2>2, <3>1 DEF InputInv, InOrder
  <2>3. CASE cmds' = Append(cmds, Cmd("input", paneId, inputs'))
    <3>1. Cmd("input", paneId, inputs') \in CmdSet
      <4>1. inputs' \in Nat /\ paneId \in Panes \cup {NoPane}
        BY <2>1 DEF TypeOK
      <4>2. QED BY <4>1, CmdTyped
    <3>2. Cmd("input", paneId, inputs').id = inputs + 1
      BY <2>1 DEF Cmd
    <3>3. InOrder(cmds', log, 0, inputs')
      BY <2>1, <2>3, <3>1, <3>2, InputSent
    <3>4. QED BY <2>1, <3>3 DEF InputInv
  <2>4. QED BY <1>10, <2>2, <2>3 DEF WriteInput, SendList
<1>11. CASE PasteLoad
  <2>1. /\ inputs \in Nat /\ inputs' = inputs + 1 /\ typing = 0 /\ typing' = inputs'
        /\ UNCHANGED <<log, cmds>>
    BY <1>11 DEF PasteLoad, TakesMessage, TypeOK, server
  <2>2. /\ \A i \in DOMAIN log : log[i] \in Nat
        /\ \A i \in DOMAIN cmds : cmds[i].id \in Nat
    BY CmdIds DEF TypeOK
  <2>3. QED BY <2>1, <2>2 DEF InputInv, InOrder
<1>12. CASE PasteSend
  <2>1. typing \in Nat \ {0} /\ inputs \in Nat /\ typing' = 0 /\ UNCHANGED <<log, inputs>>
    BY <1>12 DEF PasteSend, TypeOK, server
  <2>2. CASE UNCHANGED cmds
    BY <2>1, <2>2 DEF InputInv, InOrder
  <2>3. CASE cmds' = Append(cmds, Cmd("input", paneId, typing))
    <3>1. Cmd("input", paneId, typing) \in CmdSet
      BY <2>1, CmdTyped DEF TypeOK
    <3>2. Cmd("input", paneId, typing).id = typing /\ typing <= inputs
      BY DEF Cmd, InputInv, InOrder
    <3>3. InOrder(cmds', log, 0, inputs)
      BY <2>1, <2>3, <3>1, <3>2, InputSent
    <3>4. QED BY <2>1, <3>3 DEF InputInv
  <2>4. QED BY <1>12, <2>2, <2>3 DEF PasteSend, SendList
<1>13. CASE Deliver
  BY <1>1, <1>13 DEF Deliver, server, input
<1>14. CASE Close
  <2>1. typing' = 0 /\ inputs \in Nat /\ UNCHANGED <<cmds, log, inputs>>
    BY <1>14 DEF Close, TypeOK
  <2>2. QED BY <2>1 DEF InputInv, InOrder
<1>15. CASE UNCHANGED vars
  BY <1>1, <1>15 DEF vars, server, input
<1>16. QED
  BY <1>2, <1>3, <1>4, <1>5, <1>6, <1>7, <1>8, <1>9, <1>10, <1>11, <1>12, <1>13, <1>14, <1>15
     DEF Next, Reader

\* What a user types and pastes through a view (write, paste) reaches tmux in the
\* order the message loop took it, though a paste waits for another process.
THEOREM InputsKeepOrder == Spec => []InputsInOrder
<1>1. Init => InputInv
  BY DEF Init, InputInv, InOrder
<1>2. InputInv => InputsInOrder
  BY DEF InputInv, InOrder, InputsInOrder
<1>3. QED BY <1>1, <1>2, InputStep, TypeCorrect, PTL DEF Spec
================================================================================
