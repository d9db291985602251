# A-Term: a verification project

A-Term is a browser terminal over tmux. A Python server (`a_term/`) shows the
panes of tmux sessions that Tether, another process, owns; a React client
(`frontend/`) draws them. This directory holds TLA+ models of its core, the
TLC runs that check them on small instances, and theorems about them with
proofs that TLAPS checks. The reference is the source: each definition names
in `PROJECT.json` ("map") the lines it was read from.

## 1. The system

| Component | State | Operations | Talks to | Hard behaviours | What makes it correct |
|---|---|---|---|---|---|
| Control-mode client (`services/tmux_control.py`) | phase, pane_id, queued reseed, resize timer, handlers, pending items | start, feed a chunk, reseed, write, paste, resize, close | `tmux -C` over pipes; the output queue; the WebSocket handler | replies without request ids, output also present in a capture, `pause-after` dropping output, reseeds during reseeds, a full queue | one unbroken stream after each seed; every reply to its handler; convergence to what the program wrote; the end is reported |
| Output batching (`services/_output_batch.py`) | UTF-8 tail, held escape, batch | decode, hold, flush | output queue, WebSocket | characters and escapes cut by a chunk | the text sent is the bytes decoded, soon |
| View connection (`api/handlers/websocket_connection.py`, `websocket_messages.py`, `utils/tmux/external.py`) | view context, tasks, the counted attach options of a session | set up, message loop, size claim, tear down | control client, Tether, browser, other views | failure and departure at every await; claims racing respawns | nothing leaks; one respawn is followed |
| Session lifecycle (`services/lifecycle.py`, `session_close.py`) | none of its own | create, add, end, end pane, close, respawn, reconcile | Tether (HTTP over a socket), the pane store | a request is a series of calls with no lock around them; lost answers; respawns and loaded tools; an instance out of sight | what it says it ended is ended; a failed create is undone; a pass spares what lives |
| Pane store (`storage/panes.py`, `local_db.py`) | SQLite: panes, pane_sessions | insert, attach, detach, delete, link, unlink, prune | every request thread | check-then-act across transactions, cascades | links name panes; the layout limit |
| Views (`api/root_control.py`, `services/session_broker.py`) | none | ensure_view, ensure_project_tool_session | lifecycle, store, Tether | two requests for the same session | a link names a pane that exists |
| Event watcher and pool (`services/tether_events.py`, `tether/client.py`) | last seq and boot id; sockets seen | subscribe, apply, catch up; fan out | Tether's event stream, the store | missed, replayed and late events; an instance that is down | dead links go, live ones stay |
| Maintenance (`services/maintenance.py`, `upload_cleanup.py`, `project_catalog.py`) | lock, status, history | run a cycle at intervals or on request | lifecycle, Tether's catalog, the uploads | overlapping cycles, outages, projects registered meanwhile | one cycle at a time; settings outlive outages |
| Shows (`services/shows.py`, `api/shows.py`, `use-agent-shows.ts`) | a ring; cursor, known and pending shows | receive, list, poll, dismiss | Tether's events, the push service, the user | a ring that wraps, a restart, repeats | a show is shown and pushed once |
| View socket (`use-websocket-connection.ts`, `use-a-term-websocket.ts`, `components/ATerm.tsx`) | refs: socket, connecting, retries, three timers | connect, disconnect, reconnect, socket and timer callbacks | the server, the terminal | sockets and timers that outlive the hook's interest in them | one connection, one retry; an attempt always ends |
| Write queue (`use-a-term-write-queue.ts`) | pending writes, the write under way, a held reseed | enqueue, drain, restart | view socket, xterm | a repaint while the user scrolls, writes in flight across a restart, output received while hidden | all output arrives, in order; one stream on screen |
| Size claims (`use-a-term-resize.ts`, `ATerm.tsx`) | two timers, the last claim | observe, settle, claim | view socket, the session's other views | claims of other views, handled beside its own; clean-up of effects; a claim skipped as already made | the active view's size is the window's |
| Window ownership (`use-window-pane-ownership.ts`) | a registry in localStorage | claim, heartbeat, release | other windows | read-modify-write between windows, frozen windows | one owner per pane |
| Pane caches (`use-a-term-panes.ts`) | two query caches | fetch, mutate, invalidate, swap | the API | answers in any order; an optimistic swap rolled back | the caches settle on the server's lists |
| Active session (`use-active-session.ts`, `use-a-term-tabs-state.ts`) | URL, remembered and attached sessions | follow, open, attach, drop | two lists fetched apart | effects that feed each other | no session nobody asked for; the effects come to rest |
| Automatic panes (`use-auto-create-pane.ts`) | three refs and a flow | effect, count, create | the caches, the user, other windows | an effect that runs again under its own flow; a close of all panes | a pane where there is none, and not one more |
| Dictation (`lib/voice`, `VoiceTranscriptPanel.tsx`, the Pause key of `use-a-term-orchestration.ts`) | transcripts, segments, a draft | cycles, corrections, open, send | the browser's recognizer | cycles that end when the browser likes | every word once, in order |
| Compose field (`NativeKeyboardInput.tsx`, `compose-input.ts`, `use-bracketed-paste.ts`, `use-a-term-handle.ts`) | drafts, pending commits, a paste queue | type, commit, switch | a view's handle and socket | a view that goes half way through a paste | a draft is kept until it arrived |
| Uploads (`use-a-term-action-handlers.ts`, `use-file-upload.ts`) | one target ref, one flag | choose, paste, drop, finish | the API, the panes | uploads that overlap and share the ref | a path goes where its file was given |
| Attention (`lib/attention.ts`, `use-session-attention.ts`) | the record of what was seen, copied by each window | mark, fetch, follow the storage event | Tether's activity, other windows | writes from stale copies | who needs the owner is shown until opened |
| Polling an agent (`use-agent-polling.ts`) | an abort controller, a flag | start, stop, poll | the API | a poll replaced by another | the flag is never left on |

Beside these: reads of tmux and `/proc` (`_session_sources`), files and
projects, authentication and limits, the command line, and the client's
layout, keyboard and settings. `PROJECT.json` lists them as not modelled, with
the reason.

### How a view works

The browser opens a WebSocket for a session. The server starts a control-mode
tmux client, which answers a *reseed* (flags, screen, history) with a *seed*
and streams `%output` after it. A reader task turns lines into items on a
bounded queue, and a batch loop sends them. Keys, pastes, resizes and refreshes
come back one message at a time. The views of one session share its tmux
window, which has the size claimed last.

### How panes and sessions meet

Tether owns the sessions, SQLite the panes and the links between them. Every
request is a series of calls to one or the other; requests run in a thread
pool; a maintenance pass and a watcher of Tether's events clean the links. The
windows of a browser share the panes through localStorage, and each works on
lists that it fetches apart.

## 2. The modules

| Module | What it models |
|---|---|
| `PaneView` | What a terminal view promises: the abstract specification. |
| `ControlTerminal` | One view: tmux server, control client, output queue, batch loop and browser. |
| `OutputBatch` | The batch loop on its own: bytes cut anywhere, text, frames. |
| `ViewConnection` | The handlers of a session's views: setup, undo, size claim, teardown. |
| `PaneLinks` | Requests, sweepers, Tether's other clients and restarts over sessions, panes and links. |
| `EventWatcher` | The watchers of Tether's event streams over two instances. |
| `Maintenance` | The maintenance cycle against requests and outages. |
| `AgentShows` | What agents show, from the event to the browser that dismisses it. |
| `ViewSocket` | The browser's end of a view. |
| `WriteQueue` | What becomes of a view's messages until xterm has them. |
| `SizeClaims` | When a view claims the size of the window. |
| `WindowOwnership`, `PaneCache`, `ActiveSession`, `AutoCreate` | Which panes a window shows, what it believes of them, which session is active, and the pane it makes for itself. |
| `Dictation`, `Compose`, `Uploads` | What the user says, types and uploads, until a pane has it. |
| `Attention`, `AgentPolling` | What agents do, as windows show it. |
| `MCControl`, `MCPaneLinks` | Instances of `ControlTerminal` and `PaneLinks`. |
| `MCServer`, `MCBrowser` | The components of the server and of the browser in one run each. |
| `SequenceFacts` | What the proofs share: facts about sequences, sets of numbers and counts. |
| `ControlTerminalProofs`, `ControlStreamProofs` | Theorems about `ControlTerminal`: its types, seeds, replies and inputs; its stream, the refinement, and its pauses. |
| `PaneLinksProofs`, `ViewSocketProofs` | Theorems about those modules. |
| `ServerProofs` | Theorems about `ViewConnection`, `OutputBatch`, `Maintenance`, `EventWatcher` and `AgentShows`, in a behaviour of `MCServer`. |
| `WindowProofs`, `ScreenProofs` | Theorems about the modules of the browser, in a behaviour of `MCBrowser`. |

In each, an action is a whole handler, or the part of one between two points
where another task, thread or callback can run. Definitions whose comment
begins with "Bug:" are used by no specification: each is a plausible mistake in
the definition below it, with which the property named for it in
`PROJECT.json` fails. A definition marked "history" serves only the properties.

### The server

**ControlTerminal.** Bytes are numbers: the k-th byte a program writes to a pane
is k, so a screen is "the pane and its last byte". A seed carries the pane, byte
and size it was captured at. `pipe` is the client's stdout, `cmds` its stdin,
`handlers` the protocol's list, `pending` and `queue` the way to the browser,
`xterm` what the browser shows. tmux runs a command list atomically, so one
reply stands for all its blocks. `reader` says where the reader task is; while
it is `"feed"` a chunk is being parsed and no other task of the event loop runs
(`LoopFree`). `stdinOpen` is whether the client's stdin takes
commands: when the client is gone `_send_list` returns before it registers a handler, and a
reseed leaves the view seeding with no reply to come, until the reader reads the end.
Sizes are numbered, so "the size last asked for" is the largest.
`cols` is the client's and `size` tmux's. The restoring of options, the sandbox
and the text of seeds are left out. It implements `PaneView`
(`NeverRewinds`): what is painted of a pane only grows, or is painted anew.

tmux, outside `src/`, is modelled by how the client relies on it: replies in the
order of commands, `%output` in order, a paused pane silent until continued,
output discarded at a pause (`"lost"` stands where), a final `%exit` or none.

**OutputBatch** looks inside `Deliver` of `ControlTerminal`. Bytes are those of
one four-byte character, ESC, the bracket that opens a sequence and the BEL that
ends it; a chunk ends after any of them. `utf8`, `batch` and `holds` are the
loop's state. `BATCH_SIZE_LIMIT` counts characters, as in the code.

**ViewConnection.** `view[v].at` is the await a handler is in. Any of them may
find its browser gone or its command failed. All views are of one session, which
is Tether's (with claims and generations) or the user's own (with the shared,
counted `refs` of `external.py`, and `look` for what its options are).

**PaneLinks.** `status`, `gen` and `tool` are Tether's; `pane`, `link` and `mode` (what a
link says its session runs) are SQLite's; `job` holds the requests under way, a record
whose `pc` is the next call. `asked` is history: what a request set out to end or had
created. `Mishap` spends a budget on calls that fail, respawns, restarts, tools that other
apps load and answers that are lost (`outcome_uncertain`): Tether may have done what was
asked. A pass of `reconcile_links` is `SweepReads`, `SweepLists`, `SweepDrops` for each
link, and `SweepPrunes`. `WatcherDrops` is the effect of an event at any later time, or
never. `ON DELETE CASCADE` and the foreign key are in `Cascade` and `InsertLink`. A pane
counts in the layout (`VisibleLinked`) when it is visible and shows a session, which is
what the SQL counts. `active_mode`, order and geometry are left out.

Two instances of Tether may run. A-Term creates in the active one; the sessions
`Elsewhere` are the other's. Its socket comes and goes (`sock`), and `seen` is whether it
answered this process, which a restart forgets. With a socket, or seen, it is asked
(`Away`: it cannot be reached, and a call fails); with neither it is left out, and its
sessions are not listed and answer 404 (`Hidden`).

`load_tool` tells Tether first and the link afterwards (`LoadTool`, `RememberTool`);
another app's load reaches the link by an event, late or never (`news`). A close decides by
the mode the link stores; `loaded` is history.

**EventWatcher** replaces `WatcherDrops` by its cause: the loop of a watcher with
its cursor, on the log of one boot of a daemon. `tether[i].socket` is the file of
an instance, which outlives it or not; `seen` is what the pool remembers. A pass
is one step here; `PaneLinks` has its parts.

**Maintenance.** A cycle is a thread with its steps; `lock` names the one that
holds `_cycle_lock`. What a step read (`cycle[n].read`) it uses later.

**AgentShows.** Shows are numbered as sent. `Kept` stands for the 50 of the ring,
of the browser's memory and of its queue.

### The browser

A handler, and the effects of the render it causes, are one step unless another
callback can come between them.

**ViewSocket.** `hook` holds the refs of the two hooks and what they lead to in
the browser: timers that are armed whether a ref names them or not. Every callback
(open, message, close, error, the two timers) and every caller (the effect of
`ATermComponent`, the reconnect button, the page becoming visible, unmounting) is an
action. A socket that closed and that nothing refers to any more stands for the next one
the hook creates, so four sockets go a long way. What a new connection does to the screen
is in `WriteQueue`.

**WriteQueue.** A message is plain output or starts with a full reset; the server
seeds at a connect and when asked, as `ControlTerminal` shows. At an open the terminal is
restarted: its reader, while above the bottom, keeps what is on screen until a repaint is
taken, and a write that xterm has lands behind the clearing; `streams` are the connections
whose output the terminal shows. A page that becomes visible connects every mounted view
without a socket, hidden ones too (`Opens`), and `runWrite` drops what a hidden view gets.
The view shown later opens a connection of its own (`Show`), which seeds it.

**SizeClaims** is one view. It renders some time after what it renders from
changed; `rendered` is what its closures and effects saw. The server handles the claims of
one connection in order (`way`), those of several beside each other, for as long as their
attempts take: `late` holds what other views claimed, and what this one claimed on earlier
connections, until it is handled, at any time. `window` is the claim handled last; `beaten`
is history: one of another connection was handled, or its own refused, while the view was
active, and none of its own applied since.

**WindowOwnership.** A registry entry is a set of panes; `stale` are the windows
whose heartbeat stopped. A window reads the registry and changes its copy (`Changes`, in
each handler), and writes it whole some time later (`Write`): windows in different
processes have no lock between them, so others may have written meanwhile, and the write
undoes theirs. Each write is told to the other windows (`told`), which sync. A read sees
the last write, as it does in browsers that share one store; a claim by hand may be
lost to an overwriting write, and the user makes it again.

**PaneCache.** Queries, mutations and their answers come in any order; `excused`
is history: an answer was lost.

**ActiveSession.** The lists of sessions and of panes may disagree. `asked` is
history: sessions the user opened, attached or had in a pane.

**AutoCreate.** An effect is due when an input changed, and the clean-up of its
last run comes first. Its flow (count, then create) goes on under it. The user adds a
pane, closes one, or closes all: one delete after the other, then a create.

**Dictation.** Words are numbers, each said once: transcripts are merged by their
words, and a word said twice in a row may be taken for one that is repeated. `settled` is
history: what the user said and corrected; `gone` is how much of it a retry after an error
took. The Pause key opens the panel, and sends `finalTranscript` alone (`PauseKey`).

**Compose.** Texts are numbers. What the code compares later (the draft's
revision, the view's handle) is a flag of the commit that says whether it is the
same. `arrived` is history: what went over a socket whole.

**Uploads.** Each upload remembers, as history, the session its file was meant
for, and whether one of four known cases misled it. A menu may be that of a pane without a
session.

**Attention.** A session is a pane's only one. Time counts what agents do; the
server's clock and the browser's are one.

**AgentPolling.** Each poll is a loop with a controller of its own; all share one
ref and one flag.

## 3. The runs

| Run | Module, specification | Shows |
|---|---|---|
| `control_stream` | `MCControl`, `StreamSpec` | types, one awaited seed, aligned replies, a whole stream, resumed pauses, ordered input, refinement of `PaneView`, convergence, the reported end |
| `control_paused_pane` | `ControlTerminal`, `Spec` | **violation** of `PausedPaneResumes` |
| `pane_links` | `MCPaneLinks`, `SweepSpec` | types, truthful ends, a pass spares the living, dead links go |
| `pane_requests` | `MCPaneLinks`, `RequestSpec` | links name panes, no pane after a failed create, agents spared |
| `pane_links_unseen` | `MCPaneLinks`, `Spec` | **violation** of `UnreachableNeverCounts` |
| `pane_limit` | `MCPaneLinks`, `RequestSpec` | **violation** of `LayoutIsBounded` |
| `pane_links_sweep` | `PaneLinks`, `Spec` | **violation** of `SweepDropsOnlyEnded` |
| `server` | `MCServer`, `ServerSpec` | types; a respawn is followed and a view ends clean (`ViewConnection`); text is whole, and what is held is sent (`OutputBatch`); links follow ends (`EventWatcher`); cycles take turns and spare settings (`Maintenance`); a show is shown once (`AgentShows`) |
| `view_tmux_end` | `ViewConnection`, `FairSpec` | **violation** of `TmuxEndEndsView` |
| `browser` | `MCBrowser`, `BrowserSpec` | types; one socket, owned timers, attempts that end (`ViewSocket`); one stream and all output (`WriteQueue`); windows that share the panes (`WindowOwnership`); and one property of each other module of the browser, two of `ActiveSession` |
| `auto_create` | `AutoCreate`, `PromptSpec` | **violation** of `LastCloseCreates` |
| `view_socket_timeout` | `ViewSocket`, `Spec` | **violation** of `ConnectingMeansTrying` |

`server` and `browser` are sums: a behaviour is one of its `part`, one of the `Parts` of
the configuration, and the other components stay as they start. The components in them
meet only through what each models of its surroundings, so their state spaces add up
instead of multiplying. Components that do meet are in one module: a request, the store
and the passes in `PaneLinks`; the client, the queue and the browser in `ControlTerminal`;
the hook and its sockets in `ViewSocket`.

Some properties have two halves that a user needs together: `LinksFollowEnds`
(the links of live sessions stay, those of ended ones go), `CyclesAreSafe` (one
cycle at a time, and what it deletes). Others were two halves of which one is
liveness; they are apart, so that the safety can be proved: `TextIsWhole` (no
character lost) and `HeldTextIsSent` (none held for ever), `EndedViewsLeaveNothing`
and `BrowserEndEndsView` (a view whose browser is gone ends). What each composition
must come to is one property of two parts: `NothingWaitsForEver` (`BrowserEndEndsView`,
`HeldTextIsSent`) and `EverythingSettles` (`SocketAttemptEnds`, `EffectsRest`), with a
mutant for each part.

### Bounds, and why they are enough

- `control_stream`: two panes, and either 2 bytes and 2 messages of the browser
  in one of them, or one switch or one unreadable seed, with a byte of each pane
  and one message (`Within`). A queue of 1 (256 in the code). Two bytes tell
  "twice" from "missing"; two messages let a resize, a refresh or a paste overlap
  another while a seed is under way; a queue of one is full whenever the browser
  is one item behind, which is when tmux pauses the pane; with a switch the
  output of one pane can arrive before and after the seed of the other.
- `pane_links`: 2 sessions, one of each instance of Tether, a pane, one request and two
  mishaps, against a pass, the watcher and other clients: the other instance can be seen,
  go, and be forgotten by a restart. `pane_requests`: two panes, two requests at once, and
  one thing that goes wrong (a respawn, a lost call, a load or a restart); once a session
  was given another tool there is one pane, whose sessions are only ended, closed or
  loaded (`Within`). The passes and the other instance are left out of it, since how they
  meet a request is checked by `pane_links`, which in turn leaves out respawns and tools:
  no pass knows a generation or a mode. Two sessions are a shell and its agent; two panes
  let a session move. The limit of panes is 1 (6 in the code).
- `server`: two views, two attempts of a claim (five in the code) and one
  respawn, so that both may be overtaken; 4 bytes, which is the long character
  or a whole sequence with a byte after it, in chunks of up to 3; one session,
  of the second instance (`OfActive` names those of the first), with one event in
  each of two boots; two
  cycles and two projects (an empty list is not one without the project); five
  shows in a ring of 3.
- `browser`: 4 sockets and 3 attempts (30 in the code): a replaced one, one that
  is closing, the current one and the next. 4 outputs over 3 connections; three
  polls of two rounds; two panes and two mutations; two sessions, with
  3 moves of the user or the lists; 2 panes ever made; 4 words over 3 cycles; 2
  texts and 2 breaks of views; 2 uploads; 2 sizes and 6 changes around a view;
  2 changes of agents and 2 moves of their owner. Two windows share two panes, with two
  turns (`MaxTurns`: windows that close or freeze, panes that come, go or
  are claimed), with any number of reads, writes and syncs. With these every action fires,
  and the mutant of each property, a plausible bug, is found.
  Where a component starts in several like states (which session a field or an
  upload is for), one is taken. The sockets are alike, so `SocketAttemptEnds`
  asks of one what `AttemptsEnd` says of all.

Deadlock is not checked where the system may come to rest: a closed view, a
pane store whose ids are all spent, an unmounted component.

### Fairness

- `ControlTerminal`: weak fairness of the reader, of tmux running commands, of
  the first start, of the resize timer, of the paste's continuation and of the
  delivery to the browser. The event loop runs every task that is ready, and
  tmux a command it has read. The program, the user, the pausing of panes and
  the end of the session have none.
- `PaneLinks`: weak fairness of the reconcile pass, since the maintenance loop
  runs one at every interval and a pass that starts ends. Nothing is assumed of
  requests, of users or of the event stream.
- `ViewConnection`: weak fairness of each view's handler: an await on tmux, on
  Tether or on a clean-up ends, with or without success, and the wait for the
  first size has its timeout. A browser need never go, nor tmux end.
- `OutputBatch`: weak fairness of taking a chunk and of the pause that the
  timeout of the queue makes.
- `ViewSocket`: weak fairness of the connection timer of each socket and of the
  close of a socket that `close()` was called on. A network never has to answer.
- `ActiveSession`: weak fairness of its effects: React runs an effect whose
  inputs changed. `EffectsRest` speaks of behaviours whose lists come to agree.
- `AutoCreate`: `PromptSpec` of the violation lets the effect run before
  anything else, which is what React mostly does.

## 4. What the violations show

1. **A paused pane that is never resumed** (`control_paused_pane`).
   `tmux_control.py:557-558`: "Blocks while the browser falls behind; tmux then
   pauses the pane after PAUSE_AFTER_SECONDS and we reseed." A control client gets the
   output of every pane of the window, so tmux pauses panes the view does not show;
   `_pause` (523-525) ignores a `%pause` of a pane that is not `pane_id` when it is read.
   When the user selects that pane, the plain reseed that shows it has no `:continue`: the
   screen is painted and stays frozen.
2. **A layout over its limit** (`pane_limit`). "Maximum {MAX_PANES} panes
   allowed" (`storage/panes.py:98`): a pane counts only once a session is linked
   to it, so two creates at one below the limit both pass. A visible pane that
   lost its sessions does not count either, and counts again, unchecked, when
   it is given one.
3. **A pass that drops a live link** (`pane_links_sweep`). "Drop pane links to
   sessions that ended" (`lifecycle.py:277`): the live ids are read before the
   links (283, 285), so a session created and linked in between is dropped. What
   the code does promise, that a session it *saw* live is spared, holds
   (`SweepSparesLive`, proved).
4. **A view that says connecting for good** (`view_socket_timeout`). "Set up
   connection timeout with exponential-backoff retry"
   (`use-websocket-connection.ts:137`): the handler leaves `connectingRef` set,
   and the retry's `connect()` returns at once (`use-a-term-websocket.ts:117`).
5. **A view that outlives its tmux client** (`view_tmux_end`). "Set up and stream
   a view until the browser or tmux goes away" (`websocket_connection.py:209`):
   when tmux ends the client the batch loop is over, but `_run_session` goes on
   waiting in `_run_message_loop`, which only the browser ends. Until then the
   view counts as active and the options of a user's session stay changed.
6. **A last close that makes no pane** (`auto_create`). "Auto-creates a default
   pane when: ... Last pane is closed (N→0 transition)"
   (`use-auto-create-pane.ts:21-23`): a flow resets `isAutoCreatingRef` only if
   its run of the effect was not cleaned up meanwhile (96, 131), and its own
   create changes an input of the effect. The ref stays set for the life of the
   page, and line 66 returns from every later run.
7. **A pass that drops what it cannot see** (`pane_links_unseen`). "an unreachable
   instance raises (never "its sessions ended")" (`client.py:457`): `_candidates` (424)
   leaves out an instance without a socket that has not answered this process. After a
   restart of A-Term, with the socket gone, the listing succeeds without its sessions, and
   the pass drops their links though they live. What was seen in this process is safe
   (`SweepSparesLive`, proved). An end of such a session answers that it ended
   (`TetherPool.raw` gives its 404), and it lives on (`missed` in `EndMeansEnded`).

`control_stream` checks the promise that 1 breaks for a user who stays in a pane
(`PaneResumes`), where it holds.

### Exceptions the properties state

Where the code knows of a case, or leaves one, a property that holds names it:

- `StreamCatchesUp`: sessions that ended between the pass of a fresh stream and
  its subscription. `events()` is a generator, so the pass runs before the
  request (`tether_events.py:121-126`); the next reconcile pass repairs it.
- `KeepsLiveLinks`, `SweepSparesLive` and `EndMeansEnded`: after a restart of A-Term an
  instance that is down and has no socket counts as absent (violation 7).
- `CloseSparesAgents`: sessions that were given another tool. "An agent close also ends
  shell companions" (`session_close.py:36`), but what is a shell is read from the mode the
  link stores (39): an agent that another app loaded into the pane's shell is ended with
  it while the event that tells of the load is still to come, or was missed.
- `FailedCreateLeavesNoPane` speaks of the pane alone. "A failed create leaves nothing
  behind" (`lifecycle.py:102-103`), but only sessions that `create_session` returned are
  ended (138): one whose answer was lost, or whose link was refused because the pane went
  meanwhile, stays live and unseen.
- `ShownWhileThere` says that a pane stays, not that it is the only one. "Close all a-term
  panes and create a new ad-hoc aTerm" (`a-term-handler-actions.ts:97`), but the last
  `removePane` leaves the window empty, which is what `useAutoCreatePane` waits for, and
  both make a pane.
- `SeedingHasOneReply`: a client that is gone, whose stdin was seen broken before the end
  was read: the view is seeding and nothing was asked (`tmux_control.py:541`). The end
  comes next (`EndIsReported`).
- `StreamIsWhole`: what follows a seed that could not be read, until the next that could.
- `DraftsKept`: a socket that was gone when a text was submitted, or went before its paste
  ended (lost, or closed by a view that hid), while the handle stayed the same: the view
  had not rendered that, or had reconnected, and the text is not there, or half there.
- `PathsGoWhereGiven`: the menu was that of a pane without a session, so that the ref says
  "the active one" (`use-a-term-action-handlers.ts:62`); an earlier upload's end clears
  the target of a dialog that is open (78); a cancelled dialog leaves its target to the
  next drop (66-68); and a drop's pane may be gone when its upload ends.
- `OneStreamOnScreen`: a reader above the bottom keeps the screen of the connection before,
  and so may a terminal until the repaint that is due: the restart does not clear what is
  held, and a write under way lands behind it (`use-a-term-write-queue.ts:190-193`).
- `ActiveViewSizes`: the claim of another connection that is handled while the view is
  active, from another device or sent long before, and a claim of its own that is refused:
  nothing tells the view, which claims again at its next size, activation or connection.
- `OwnersDisjoint`: a pane that a window claimed by hand, which the code gives it whoever
  else has it; and what a window still shows of a write that another has undone, until it
  hears.
- `WordsKept`: the retry after an error takes the words there are. The Pause key, whose
  "second press sends transcript" (`use-a-term-orchestration.ts:367`), sends
  `finalTranscript` alone: not the words the browser has not settled, not the corrections
  made in the panel; with nothing final it cancels.
- `AttentionUntilOpened`: a window that marks what it has open writes the whole
  record from its copy, and so undoes a mark of another window that it has not
  heard of (`attention.ts:154`): an open session then asks for its owner.
- `CachesSettle`: a mutation whose answer was lost.

### Met while reading, not run

Each is a consequence of the code as read; no run shows it. On the server: a
batch that stays incomplete while data keeps coming has no bound
(`_output_batch.py:149`); two requests for a missing shell both create one
(`panes.py:329`), and two that show one session both make a pane
(`root_control.py:144`); sessions linked after `end_pane` read the links lose
their link to the cascade and live on (`lifecycle.py:172`); a project
that is registered after the maintenance cycle read the catalog may lose its
settings; the options of a user's session are restored even if applying them
failed. In the browser: `connect()` ignores a new working directory during an
attempt (`use-a-term-websocket.ts:117`); an aborted poll's end drops the
controller of the poll that replaced it (`use-agent-polling.ts:91-93`), which then
cannot be aborted; two open windows may answer each other's storage events without end,
since each sync writes a new `updatedAt` (`use-window-pane-ownership.ts:158`); two windows
may both count no pane and each make one; a slot's switch to another project that fails
late leaves both panes; a slow switch of modes navigates after a later one.

## 5. The proofs

All theorems hold for every value of the constants: any number of panes,
sessions, requests, views, windows and sockets, any bound. They assume only what
the modules state: the value that stands for none is not one of the set
(`NoPane`, `NoSession`, `NoSocket`); bounds are natural numbers, and the capacity of the
queue, the limit of panes, the attempts, the rounds of a poll and the shows a ring
keeps are at least one; the views of a server are finitely many (`ViewsAreFinite`: they are
counted); sessions are numbered from 1 (`SessionsNumbered`: the code takes the
first of a list, and 0 stands for none). The bounds of the two compositions are
natural numbers (`TextIsBounded`, `EventsAreBounded`, `RunsAreBounded`,
`WordsAreBounded`, `BoundsAreNumbers`), with at least one boot, message on the
wire, pane and size. They cap budgets; no proof uses their values.

For each, below is the invariant that makes it inductive and why the
property alone is not. A property of a module that `MCServer` or `MCBrowser`
instantiates is proved of the composition's specification in three parts: the
composition starts in the invariant and takes only steps of the module (`...Lift`),
a step of the module keeps the invariant, the invariant implies the property.

### The control client

- `ControlTerminalProofs!TypeCorrect`: `TypeOK` is inductive by itself. One
  lemma for the server, one for each helper that sends (`SendTypes`,
  `ReseedTypes`, `GoLiveTypes`), one for the reader, one for the other tasks.
- `ControlTerminalProofs!OneSeedAwaited`: an open view has no two seed handlers, none
  unless it is seeding, and one while it is, unless its client is gone and its stdin was
  seen broken. The invariant, by phase (`SeedPerPhase`: one while seeding on a stdin that
  works, at most one on one that does not, none while starting or live), is inductive with
  the types and with the order in which a client goes (`StdinLast`). `AppendSeed` and
  `TailSeed` say what adding and popping a handler do to the number of seed handlers.
- `ControlTerminalProofs!RepliesMeetHandlers`: replies carry no request id, and
  handlers are popped in order. `HandlersAligned` says, of each position, that
  the reply in the pipe, then the paste that is being loaded, then the command
  still to run, is the one its handler was registered for. The lemmas are about
  the replies among the first n lines (`Repl`): what one more line, or one less,
  does to them. It is inductive with the fact that nothing was sent before
  `start()`, which resets both lists (`AlignedInv`).
- `ControlTerminalProofs!InputsKeepOrder`: the inputs tmux ran, those it has still
  to run and the paste that waits for `load-buffer` are numbered in the order
  they were taken (`InOrder`). The property speaks of the first only.
- `ControlStreamProofs!StreamHasNoHole`: `StreamIsWhole` is about what comes
  after an item; whether a line of the pipe may be passed on depends on what the
  pipe holds. `StreamInv` adds, pane by pane, that the output in the pipe goes on
  where it left off unless tmux paused there, that the last line is of the last
  byte written unless the pane is paused, that a paused pane's lines precede the
  word of it (`PaneInv`), that a live view's pipe goes on where the items before
  it end (`JoinInv`), and that nothing follows `%exit` (`EndInv`). That a seed
  starts a new stream is `OneSeedAwaited` and `RepliesMeetHandlers`: a live view
  awaits no reply that would be a seed (`NoSeedOnTheWay`).
- `ControlStreamProofs!ViewImplementsPaneView`: the refinement. What is on its way
  comes in a rising order, none of it was not written, and none is behind what
  the terminal shows (`Forward`). Then the initial states map to initial states
  and every step to a step of `PaneView` or a stutter.
- `ControlStreamProofs!PausedPaneIsResumed`: until the user leaves the pane all
  seeds are of it and a pause of it is still to be read, queued or answered by a
  reseed that continues it (`StayInv`). The specification is `StreamSpec`; with
  switches the statement is false (violation 1).

### Requests, panes and links

- `PaneLinksProofs!TypeCorrect`: includes that every call that names a session
  has one.
- `PaneLinksProofs!NoLinkOutlivesItsPane`: every link is to a pane that exists.
  Three things could break it: a link that is made (the foreign key is looked at
  in the same step), a pane that goes (the cascade), a pane id that is used
  again (never).
- `PaneLinksProofs!EndedWhenSaid`: `EndMeansEnded` is not inductive: it needs
  what a request knows half way. `Kept` says, of each request that ends
  sessions, that each asked for is over or still to do, that the one about to be
  unlinked is over, and that the loop is left only with nothing to do. It is
  kept by the steps of *others* because a session never comes back
  (`EndedIsFinal`, `KeptStays`): a respawn changes the generation, not the
  session.
- `PaneLinksProofs!LiveLinksSpared`: `SweepHonest` (what was live when a pass read Tether
  is what it counts as live, or could not see, and once it has listed the links it drops
  none but the latter). `UnseenIsHidden` is why: a listing succeeds only while nothing
  known is away. `EndedWhenSaid` has the like exception, `missed`.
- `PaneLinksProofs!NoPaneLeftBehind` and `AgentsSpared` share an invariant,
  `JobsFit`, `LinksBorn` and `NewsTrue`: the pane of a create is its own until the rollback
  has deleted it; what a link says its session runs, what a request read of it, what a
  close has in hand as shells, and what events have still to tell is what the session runs,
  unless it was given another tool (`Runs`). The steps of others keep it because a deleted
  pane is never used again and a session keeps what it runs unless it is given another tool
  (`Lasting`).

### The rest of the server

- `ServerProofs!RespawnIsFollowed` and `NothingIsLeft`: `ViewInv`. A claim that
  has read the generation again has the one there is, or was respawned since and
  knows (`Follows`). For what a view leaves, the stage of its handler says what
  it holds (`Holds`), and two counts say how many views hold it (`Counts`): the
  connections are exactly the views with tasks; `refs` is at most the views that
  applied the options, since a view whose options failed releases all the same.
  `NothingIsLeft` states `EndedViewsLeaveNothing`, which needs no fairness.
- `ServerProofs!CyclesTakeTurns`: until the loop is cancelled, a thread at work
  holds the lock and the status says so (`CycleInv`). After a cancellation
  `asyncio.to_thread` leaves its thread at work, and the property claims nothing.
- `ServerProofs!LinksFollow`: what ended and still has a link is still to be
  learnt (`Learning`), by the stream that reads it on, a gap, another boot, or a
  fresh stream; for which a cursor of the boot that runs has to be inside its
  log (`Cursors`), and a log to tell the truth (`LogsTrue`).
- `ServerProofs!ShownToUserOnce`: the ring is a run of consecutive shows up to the
  last one sent; what the browser knows is not after its cursor, and what it was
  offered is not after it either; an answer under way is the run that comes next,
  without a gap to what the ring has (`ShowInv`). Which of the shows a `Set` keeps
  and in which order does not matter to it: `DistinctOf` says that they are among
  those it was given, for which it needs that of n numbers each has its place
  (`NthOf`).
- `ServerProofs!TextStaysWhole`: `TextIsWhole` compares what was sent with what is seen
  of the bytes taken, and says nothing of the bytes that wait. `BatchInv` adds that
  what the loop holds back is the start of one long character, from a place between
  two characters (`StartIsHeld`), that the chunks end one after the other and not
  before what was taken (`ChunksInOrder`), and that what was written is valid text.
  `Shown`, what is seen of bytes, is defined by recursion over them; the proof needs
  only what one byte more adds (`ShownAppend`) and that two texts, one after the other,
  are seen one after the other (`ShownConcat`).
  `DecodeValid` then says that decoding what was held and a chunk takes all that is
  whole, replaces nothing and holds the rest; `WholeOf`, which bytes of valid text
  belong to a whole character, is what it rests on.
- `ServerProofs!ServerTypes`: the types of all five parts at once. `ViewInv`, `BatchInv`
  and `CycleInv` have theirs; a bound is not always inductive: a log stays within its
  bound since a daemon that is down has a start left (`Budgets`), and the ring, its
  copies and an answer within `Kept` since an answer is part of a ring (`Sized`).

### The browser

- `ViewSocketProofs`: `TypeCorrect`, `HoldsOneSocket` and `NoStrayTimer` (pings
  that are live, one retry, nothing after an unmount) follow from one invariant,
  `IInv`. None is inductive alone:
  replacing a socket, hiding a view and unmounting clear only the timers that
  the refs *name*, so the invariant says first that the refs name every timer
  that is armed (`Tidy`), then relates timers and sockets to the socket the hook
  holds (`Safe`), and says of a view that is gone that it holds none (`Gone`),
  which makes every late event one of a socket that is no longer its own. There
  is a lemma for each helper (`TimersCleared`, `Disconnected`, `ConnectSafe`,
  `Rescheduled`, `SocketLetGo`), used by every handler that calls it. `ConnectSafe`
  takes the refs as the caller left them, because `reconnect()` lets the socket go
  before it connects.
- `WindowProofs!PollingStops`: a flag that is on has the ref name a loop at work
  that nobody aborted (`Current`), and a poll that has not begun is not in the
  ref (`Untouched`).
- `WindowProofs!OwnersAreDisjoint`: the registry, and every changed copy that a window is
  about to write over it, gives no pane to two windows but those claimed (`Fair`,
  `FairChanges`). A write from an old read keeps this because the copy was fair when it was
  read and the change made to it kept it so, whatever became of the registry since. A window
  that shows what the registry does not give it is about to sync (`ToldOrTrue`).
- `WindowProofs!NoUnasked`: what the URL names was asked for or a pane shows it
  (`SessionInv`); a session that is listed and nobody's is active by the URL alone.
- `WindowProofs!PanesStayShown`: a list under way has what is shown and still there
  (`ListHasThem`): the answer to a create, which may show more than the list was read with,
  has it read again. With it, every step by which a pane leaves the window is the close of a
  pane the server no longer has (`NothingVanishes`).
- `WindowProofs!WordsStayKept`: a dictation's text is spread over the closure of a
  cycle, its segments, two transcripts of the hook and two drafts of the panel, each
  made by merging others. `DictationInv` says that there are words w, all different,
  settled up to the h-th, and that the rest are parts of w: the hook's two transcripts
  merge into all of it, the cycle began with two parts of it that its segments go on
  from, the guess is its end, and a correction began when the panel showed a start of
  it and has none of the words since (`Told`). The lemmas are about parts: merging two
  that overlap or meet gives the part they cover (`BothOf`), because in words that
  differ the longest overlap is the only one. Each callback of the recognizer, and
  each move of the user, keeps it (`...Told`), with the same words or others. What a
  retry took is the start of the settled words (`LeftIs`); what is final is how the words
  begin (`FinalBegins`), which is why the Pause key sends a start of them.
- `ScreenProofs!BrowserTypes`: the types of all twelve parts, those of a part whose
  invariant has them and the rest here. Some are not inductive: the panes a window
  shows are no more than it was told of and made itself, since a pane whose create is
  unanswered may be listed and answered for (`PanesShown`); a draft is no newer than the
  last text (`TextsUpto`); the write under way is the part of one message before its
  reset (`BeforeReset`); what views were told and claimed are sizes (`SizesAre`).
- `ScreenProofs!PathsGoHome`: an upload that nothing misled has its pane as its
  target, or none and that pane was active (`Aimed`), and the ref names the pane of
  an open dialog until the end of an upload clears it (`UploadInv`).
- `ScreenProofs!AttentionIsHonest`: no mark is later than what the owner saw, a
  window with no storage event to come has the record as it is, and a visible
  one has marked what it has open (`AttentionInv`).
- `ScreenProofs!ListsSettle`: a cached list is the server's, or such an answer is
  on its way, or a fetch or a mutation that asks for one is (`CacheInv`). A fetch
  that a mutation cancels, and the snapshot a swap is rolled back to, are where
  an answer could be late.
- `ScreenProofs!NothingIsLost`: in a view that is shown, the terminal, then the write under
  way, the pending ones and the messages on the wire make the whole of the output
  (`WriteInv`), but while something is held back or a reseed asked for. Becoming visible
  opens a connection of its own, which is what makes good what a hidden view dropped.
- `ScreenProofs!ShowsOneStream`: what is on the wire and pending came by the present
  connection; in a view that is shown, without anything held and with no repaint behind
  them, so did the write that xterm has and what is on the screen, unless that write
  repaints it (`StreamInv`). A restart alone is not enough: it
  may leave what the old connection showed.
- `ScreenProofs!WindowHasItsSize`: what an active view remembers having claimed is
  what the window comes to, and that is its size unless a timer runs or the view is beaten
  with no claim of its own under way; a view without a socket, or rendered hidden,
  remembers none (`ClaimInv`). Claims of other connections are handled in any order: those
  handled while the view is not active are made good by the claim of its activation.
- `ScreenProofs!DraftsAreKept`: a commit of the latest text is of the draft, and a
  paste whose view still has its handle goes over an open socket, all of it, but
  for a socket that went unnoticed (`CarriedBy`); a text is one session's
  (`TextsApart`), so what is forgotten of one says nothing of another (`Moved`).

The runs check the same definitions: `MCControl`, `MCPaneLinks`, `MCServer` and
`MCBrowser` extend or instantiate the modules the theorems are about, and
`StreamSpec`, `SweepSpec` and `RequestSpec` only take steps of `Next`.

### Only model-checked

Liveness: `ShowsEverything`, `EndIsReported`, `DeadLinksGo`, `NothingWaitsForEver` and
`EverythingSettles`, whose `SocketAttemptEnds` asks of one socket what `AttemptsEnd` says
of all. With fairness and `ENABLED` it is beyond the prover. Every invariant
and every other action property of the passing runs is proved.

Induction over data, as the library states it, is beyond the prover too: its theorems
take an operator as a parameter. What decoding and merging do to every input is proved
without them: `Shown` and `Merge` are recursive functions on the numbers up to a length,
which exist (`SequenceFacts!Recursion`), and a statement about all lengths is proved of
the least one for which it could fail (`LeastNat`, from the library's well-founded
minimum).

## 6. Not modelled, and the plan

Abstracted where the properties do not tell it apart: the text of seeds,
encodings but for the cut of a character, geometry, logging, wording, the
parsing and validation of requests. In a component that is modelled in part,
`PROJECT.json` says which operations are missing. `reset_all_sessions`,
`reset_project_sessions` and `disable_project_a_term` are loops over operations
that are modelled; the heartbeat of a view closes its socket, which is the
browser leaving.

Not modelled at all, and why:

- reads of tmux and `/proc`, spawning, the sandbox: they keep no state, and what
  they answer is tmux's;
- files, projects, uploads' storage, settings: a request is one file operation
  or one transaction; what meets the maintenance cycle is in `Maintenance`;
- authentication, caller trust, limits, the catalog of tools and sessions,
  capabilities: decisions on one request, without steps;
- the command line: it calls the API and becomes tmux;
- the client's presentation: components that only render (most of `frontend/`),
  layouts, keyboards, gestures, dialogs, settings, themes. Their state is
  one component's and changes with one event.

This is why the models cover about a tenth of the lines: the rest of the
implementation is markup, styles, requests passed on, schemas and reads, where a
definition would restate an assignment.

The plan, all of which is done:

1. `ControlTerminal` with `PaneView`: the heart of the program.
2. `PaneLinks`: what requests do to sessions, panes and links.
3. `ViewSocket`: connecting and reconnecting.
4. The rest of the server: `ViewConnection`, `OutputBatch`, `EventWatcher`,
   `Maintenance`, `AgentShows`.
5. The rest of the browser, from `WriteQueue` to `Attention`.
6. Proofs: every safety property of the runs, and their types.
