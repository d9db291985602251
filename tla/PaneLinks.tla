-------------------------------- MODULE PaneLinks --------------------------------
(***************************************************************************)
(* Which pane shows which Tether session: a_term/services/lifecycle.py,    *)
(* session_close.py, session_broker.py and storage/panes.py, with          *)
(* ensure_view of api/root_control.py and the two sweepers of the links,   *)
(* reconcile_links and the event watcher.                                  *)
(*                                                                         *)
(* Tether owns the sessions, SQLite the panes and the links.  No lock      *)
(* joins them: a request is a series of calls to one or the other, each    *)
(* atomic, and FastAPI runs the synchronous handlers in a thread pool.  So *)
(* a job is one request, and every call by which it changes something, or  *)
(* whose answer it uses later, is a step of its own.                       *)
(*                                                                         *)
(* Two instances of Tether may run, the active one and one more.  A call   *)
(* about a session asks the active one, then the other on 404; the other   *)
(* counts while its socket is there, or once it answered this process.     *)
(*                                                                         *)
(* active_mode, the order and the geometry of panes are left out: no call  *)
(* here decides anything by them.                                          *)
(***************************************************************************)
EXTENDS Naturals, FiniteSets

CONSTANTS
  Sessions,    \* session ids Tether may hand out
  Elsewhere,   \* those the other instance of Tether owns
  Panes,       \* pane ids A-Term may hand out; a uuid is never used again
  Jobs,        \* slots of the thread pool: requests under way at once
  NoPane,      \* no link, no pane
  NoSession,
  MaxPanes,    \* MAX_PANES
  MaxMishaps   \* bound: calls to Tether that fail, answers lost, sessions
               \* respawned or given another tool, restarts

ASSUME NoneAssumption == NoPane \notin Panes /\ NoSession \notin Sessions
ASSUME ElsewhereAssumption == Elsewhere \subseteq Sessions
ASSUME BoundsAssumption == MaxPanes \in Nat \ {0} /\ MaxMishaps \in Nat

VARIABLES
  status,   \* Tether: "unborn", "live" or "ended"
  gen,      \* Tether: the session's generation, bumped by a respawn
  tool,     \* Tether: what the session runs, "shell" or "agent"
  news,     \* Tether: the tools its events have still to tell of a session
  loaded,   \* history: the sessions given another tool than at their birth
  sock,     \* the other instance's socket: "up" or "gone"
  seen,     \* client.py's _seen: the other instance answered this process
  pane,     \* table panes: "unused", "visible", "detached" or "deleted"
  link,     \* table pane_sessions: the pane that shows a session
  mode,     \* table pane_sessions: what the link says the session runs
  job,      \* the requests under way
  sweep,    \* the reconcile pass under way
  mishaps   \* the budget spent

tether == <<status, gen, tool, news, loaded>>
other  == <<sock, seen>>
store  == <<pane, link, mode>>
vars   == <<tether, other, store, job, sweep, mishaps>>

Modes  == {"shell", "agent"}
Live   == {s \in Sessions : status[s] = "live"}
Linked == {s \in Sessions : link[s] # NoPane}
Shown(p)  == {s \in Sessions : link[s] = p}
Exists(p) == p \in Panes /\ pane[p] \in {"visible", "detached"}

\* A session that answers, and so is listed: the other instance's only while
\* its socket is there.
Answers(s) == status[s] = "live" /\ (s \in Elsewhere => sock = "up")
\* The other instance is known and cannot be reached: what the active one has
\* no answer to is an error, and the strict listing raises.
Away == sock = "gone" /\ seen
\* Bug: the 404 of the active instance is the answer, whoever else was asked.
NotFoundByOne(s) == ~Answers(s)
\* The active instance answers 404, and nothing is left to ask.
NotFound(s) == ~Answers(s) /\ ~Away
\* For history: a live session whose instance is gone and never answered this
\* process, so that it does not count.
Hidden(s) == status[s] = "live" /\ s \in Elsewhere /\ sock = "gone" /\ ~seen
\* _seen, after a call that asked every instance, or for one session.
Listed   == seen' = (seen \/ sock = "up") /\ UNCHANGED sock
Asked(s) == /\ seen' = (seen \/ (sock = "up" /\ (s \in Elsewhere \/ status[s] # "live")))
            /\ UNCHANGED sock

\* Panes the layout limit counts: visible ones that show a session.
VisibleLinked == {p \in Panes : pane[p] = "visible" /\ Shown(p) # {}}

\* A request.  op is what was asked, pc the next call.  session and gen are
\* the session being ended (created, shown) and the generation read of it;
\* todo the sessions still to end, or that a failing create must end; modes
\* the sessions still to create; mode what the session runs, as read (for a
\* close, what the link says).  asked and missed are history: the sessions the
\* request set out to end, or had Tether create, and those of them that it took
\* for gone while they lived.
Ops  == {"none", "create", "add", "rollback", "end", "pane", "close", "companions",
         "view", "reuse", "show", "load"}
PCs  == {"idle", "create", "insert", "reread", "read", "end", "unlink",
         "delete", "remaining", "newpane", "link", "find", "attach",
         "load", "remember", "ok", "failed"}
Idle == [op |-> "none", pc |-> "idle", pane |-> NoPane, session |-> NoSession,
         gen |-> 0, mode |-> "shell", modes |-> {}, todo |-> {}, asked |-> {},
         missed |-> {}]
JobSet == [op : Ops, pc : PCs, pane : Panes \cup {NoPane},
           session : Sessions \cup {NoSession}, gen : Nat, mode : Modes,
           modes : SUBSET Modes, todo : SUBSET Sessions, asked : SUBSET Sessions,
           missed : SUBSET Sessions]
\* The calls that name a session.
Naming == {"insert", "reread", "end", "unlink", "remaining", "newpane", "link", "find",
           "load", "remember"}

\* A pass of reconcile_links: the live ids it read, the links it will drop.
\* was and hidden are history: the sessions that were live when it read Tether,
\* and those of them it could not see (once the links are listed, those among
\* them it will drop).
NoSweep  == [pc |-> "idle", alive |-> {}, todo |-> {}, was |-> {}, hidden |-> {}]
SweepSet == [pc : {"idle", "list", "drop"}, alive : SUBSET Sessions,
             todo : SUBSET Sessions, was : SUBSET Sessions, hidden : SUBSET Sessions]

Init ==
  /\ status = [s \in Sessions |-> "unborn"]
  /\ gen = [s \in Sessions |-> 0]
  /\ tool = [s \in Sessions |-> "shell"]
  /\ news = [s \in Sessions |-> {}]
  /\ loaded = {}
  /\ sock \in {"up", "gone"}
  /\ seen = FALSE
  /\ pane = [p \in Panes |-> "unused"]
  /\ link = [s \in Sessions |-> NoPane]
  /\ mode = [s \in Sessions |-> "shell"]
  /\ job = [j \in Jobs |-> Idle]
  /\ sweep = NoSweep
  /\ mishaps = 0

Free(j)     == job[j].pc \in {"idle", "ok", "failed"}
Become(j, r) == job' = [job EXCEPT ![j] = r]
Goto(j, pc) == Become(j, [job[j] EXCEPT !.pc = pc])
\* The request is over.  History stays on record: what it had ended when it
\* answers ok, what it had created when a create fails.
Over(r, pc) ==
  CASE pc = "ok" /\ r.op \in {"end", "pane", "close", "companions"} ->
         [Idle EXCEPT !.pc = "ok", !.asked = r.asked, !.missed = r.missed]
    [] pc = "failed" /\ r.op = "rollback" ->
         [Idle EXCEPT !.pc = "failed", !.pane = r.pane, !.asked = r.asked]
    [] OTHER -> Idle
Finish(j, pc) == Become(j, Over(job[j], pc))

\* A call to Tether that fails, or whose answer is lost.
Mishap == mishaps < MaxMishaps /\ mishaps' = mishaps + 1

-------------------------------------------------------------------------------
(***************************************************************************)
(* create_pane_with_sessions, and create_session for a pane that is there. *)
(***************************************************************************)

\* The pane's row: one transaction, which counts the panes already shown.
HasRoom == Cardinality(VisibleLinked) < MaxPanes

StartCreate(j, modes, place) ==
  /\ Free(j)
  /\ place = "visible" => HasRoom
  /\ \E p \in Panes :
       /\ pane[p] = "unused"
       /\ pane' = [pane EXCEPT ![p] = place]
       /\ Become(j, [Idle EXCEPT !.op = "create", !.pc = "create",
                                 !.pane = p, !.modes = modes])
  /\ UNCHANGED <<tether, other, link, mode, sweep, mishaps>>

\* A session for a pane that is there and has no live one of its kind
\* (_ensure_project_shell_session, _replace_agent_session and
\* reset_project_sessions): none that answered the listing it starts from.
\* Only the choice of an agent takes an empty pane.
StartAdd(j, p, m) ==
  /\ Free(j)
  /\ Exists(p)
  /\ \A s \in Shown(p) : Answers(s) => tool[s] # m
  /\ m = "shell" => Shown(p) # {}
  /\ Listed
  /\ Become(j, [Idle EXCEPT !.op = "add", !.pc = "create",
                            !.pane = p, !.modes = {m}])
  /\ UNCHANGED <<tether, store, sweep, mishaps>>

\* Bug: the except branch ends the sessions and forgets the empty pane.
RollbackSessionsOnly(r) ==
  [r EXCEPT !.op = "rollback", !.modes = {},
            !.pc = IF r.todo = {} THEN "failed" ELSE "read"]

\* Bug: the except branch ends the last session created, if there is one or not.
RollbackEndsLast(r) ==
  [r EXCEPT !.op = "rollback", !.modes = {}, !.pc = "end"]

\* The except branch: end what was created, newest first or not, then the pane.
\* A lone create_session has none.
Rollback(r) ==
  IF r.op = "add"
  THEN Idle
  ELSE [r EXCEPT !.op = "rollback", !.modes = {},
                 !.pc = IF r.todo = {} THEN "delete" ELSE "read"]

\* Shell first, then the agent.
NextMode(modes) == IF "shell" \in modes THEN "shell" ELSE "agent"

\* A session begins.
Born(s, m) ==
  /\ status[s] = "unborn"
  /\ status' = [status EXCEPT ![s] = "live"]
  /\ tool' = [tool EXCEPT ![s] = m]
  /\ UNCHANGED <<gen, news, loaded>>

\* POST /v1/sessions, to the active instance.  Tether creates the session,
\* refuses, or creates it without A-Term hearing of it (outcome_uncertain).
CreateSession(j) ==
  LET r == job[j]
      m == NextMode(r.modes)
  IN /\ r.pc = "create"
     /\ \/ \E s \in Sessions \ Elsewhere :
             /\ Born(s, m)
             /\ Become(j, [r EXCEPT !.pc = "insert", !.session = s, !.mode = m,
                                    !.modes = @ \ {m}, !.asked = @ \cup {s}])
             /\ UNCHANGED mishaps
        \/ \E s \in Sessions \ Elsewhere :
             /\ Born(s, m)
             /\ Mishap
             /\ Become(j, Rollback([r EXCEPT !.asked = @ \cup {s}]))
        \/ /\ Become(j, Rollback(r))
           /\ UNCHANGED <<tether, mishaps>>
     /\ UNCHANGED <<other, store, sweep>>

\* The row link_session writes: a session is in one pane, a second link moves it.
LinkTo(r) ==
  /\ link' = [link EXCEPT ![r.session] = r.pane]
  /\ mode' = [mode EXCEPT ![r.session] = r.mode]

\* link_session inserts the row: the foreign key refuses a deleted pane.
InsertLink(j) ==
  LET r == job[j]
  IN /\ r.pc = "insert"
     /\ IF Exists(r.pane)
        THEN LinkTo(r) /\ Goto(j, "reread")
        ELSE Become(j, Rollback(r)) /\ UNCHANGED <<link, mode>>
     /\ UNCHANGED <<tether, other, pane, sweep, mishaps>>

\* link_session reads its row back, on another connection: gone is an error.
RereadLink(j) ==
  LET r == job[j]
      q == [r EXCEPT !.todo = @ \cup {r.session}]
  IN /\ r.pc = "reread"
     /\ \/ link[r.session] = NoPane /\ Become(j, Rollback(r))
        \/ link[r.session] # NoPane /\ r.modes # {} /\ Become(j, [q EXCEPT !.pc = "create"])
        \/ link[r.session] # NoPane /\ r.modes = {} /\ Finish(j, "ok")
     /\ UNCHANGED <<tether, other, store, sweep, mishaps>>

-------------------------------------------------------------------------------
(***************************************************************************)
(* Ending: end_session, and what ends sessions through it.                 *)
(***************************************************************************)
StartEnd(j, s) ==
  /\ Free(j)
  /\ Become(j, [Idle EXCEPT !.op = "end", !.pc = "read",
                            !.todo = {s}, !.asked = {s}])
  /\ UNCHANGED <<tether, other, store, sweep, mishaps>>

\* end_pane: the links as they are now.
StartEndPane(j, p) ==
  /\ Free(j)
  /\ Exists(p)
  /\ Become(j, [Idle EXCEPT !.op = "pane", !.pane = p,
                            !.pc = IF Shown(p) = {} THEN "delete" ELSE "read",
                            !.todo = Shown(p), !.asked = Shown(p)])
  /\ UNCHANGED <<tether, other, store, sweep, mishaps>>

\* close_session: the link is read before the session is ended.
StartClose(j, s) ==
  /\ Free(j)
  /\ Become(j, [Idle EXCEPT !.op = "close", !.pc = "read", !.pane = link[s],
                            !.mode = IF link[s] = NoPane THEN "shell" ELSE mode[s],
                            !.todo = {s}, !.asked = {s}])
  /\ UNCHANGED <<tether, other, store, sweep, mishaps>>

\* The current session is dealt with: the next one, or what follows the loop.
Ended(r) ==
  LET left == r.todo \ {r.session}
      then == IF r.op = "close" THEN "remaining" ELSE "delete"
  IN IF left = {} /\ r.op = "end"
     THEN Over(r, "ok")
     ELSE [r EXCEPT !.todo = left, !.gen = 0, !.pc = IF left = {} THEN then ELSE "read"]

\* Bug: the caller takes a refused End for a session already gone.
EndRaisedIsGone(r) == Ended(r)

\* end_session raised: the request fails, but a rollback swallows it.
EndRaised(r) ==
  IF r.op = "rollback" THEN Ended(r) ELSE Over(r, "failed")

\* The session is taken for gone, whether it is or the instance that owns it is
\* out of sight.
Gone(r) ==
  [r EXCEPT !.pc = "unlink",
            !.missed = IF Hidden(r.session) THEN @ \cup {r.session} ELSE @]

\* GET /v1/sessions/<id>: the generation that fences the End.
ReadSession(j, s) ==
  LET r == [job[j] EXCEPT !.session = s]
  IN /\ job[j].pc = "read"
     /\ s \in job[j].todo
     /\ \/ /\ Answers(s)
           /\ Become(j, [r EXCEPT !.pc = "end", !.gen = gen[s]])
           /\ UNCHANGED mishaps
        \/ /\ NotFound(s)
           /\ Become(j, Gone(r))
           /\ UNCHANGED mishaps
        \/ /\ ~Answers(s) /\ Away
           /\ Become(j, EndRaised(r))
           /\ UNCHANGED mishaps
        \/ Mishap /\ Become(j, EndRaised(r))
     /\ Asked(s)
     /\ UNCHANGED <<tether, store, sweep>>

\* POST /v1/sessions/<id>/end, fenced.  404 is a session already gone; a
\* changed generation is an error; so is an answer that never comes, whether
\* Tether ended the session or not.
EndSession(j) ==
  LET r == job[j]
      s == r.session
      Fits == Answers(s) /\ gen[s] = r.gen
      Dies == /\ status' = [status EXCEPT ![s] = "ended"]
              /\ UNCHANGED <<gen, tool, news, loaded>>
  IN /\ r.pc = "end"
     /\ \/ /\ Fits
           /\ Dies
           /\ Become(j, [r EXCEPT !.pc = "unlink"])
           /\ UNCHANGED mishaps
        \/ /\ NotFound(s)
           /\ Become(j, Gone(r))
           /\ UNCHANGED <<tether, mishaps>>
        \/ /\ ~Fits /\ ~NotFound(s)
           /\ Become(j, EndRaised(r))
           /\ UNCHANGED <<tether, mishaps>>
        \/ /\ Fits
           /\ Dies
           /\ Mishap
           /\ Become(j, EndRaised(r))
        \/ /\ Mishap
           /\ Become(j, EndRaised(r))
           /\ UNCHANGED tether
     /\ Asked(s)
     /\ UNCHANGED <<store, sweep>>

Unlink(j) ==
  /\ job[j].pc = "unlink"
  /\ link' = [link EXCEPT ![job[j].session] = NoPane]
  /\ Become(j, Ended(job[j]))
  /\ UNCHANGED <<tether, other, pane, mode, sweep, mishaps>>

\* Bug: PRAGMA foreign_keys is off on this connection.
CascadeNothing(ps) == link

\* ON DELETE CASCADE: the links of a deleted pane go with it.
Cascade(ps) == [s \in Sessions |-> IF link[s] \in ps THEN NoPane ELSE link[s]]

DeletePane(j) ==
  /\ job[j].pc = "delete"
  /\ pane' = [pane EXCEPT ![job[j].pane] = "deleted"]
  /\ link' = Cascade({job[j].pane})
  /\ Finish(j, IF job[j].op = "rollback" THEN "failed" ELSE "ok")
  /\ UNCHANGED <<tether, other, mode, sweep, mishaps>>

\* Bug: closing any session of the pane closes the pane.
ShouldCleanAlways(closed, remaining) == TRUE

\* An agent's close also ends its shell companions, and the pane goes: agent and
\* shell by what the links say.
ShouldCleanPane(closed, remaining) ==
  \/ remaining = {}
  \/ closed # "shell" /\ \A s \in remaining : mode[s] = "shell"

\* close_session, once the session is ended: the links that are left.
CloseRemaining(j) ==
  LET r == job[j]
      remaining == Shown(r.pane)
  IN /\ r.pc = "remaining"
     /\ IF Exists(r.pane) /\ ShouldCleanPane(r.mode, remaining)
        THEN Become(j, [r EXCEPT !.op = "companions", !.todo = remaining,
                                 !.asked = @ \cup remaining,
                                 !.pc = IF remaining = {} THEN "delete" ELSE "read"])
        ELSE Finish(j, "ok")
     /\ UNCHANGED <<tether, other, store, sweep, mishaps>>

-------------------------------------------------------------------------------
(***************************************************************************)
(* Showing a session: ensure_view, the broker's reuse, attach and detach.  *)
(***************************************************************************)

\* ensure_view ("view") and ensure_project_tool_session ("reuse") look for a
\* link first; without one they read the session (or list it) and make it a
\* detached pane.
StartView(j, s, op) ==
  /\ Free(j)
  /\ status[s] = "live"
  /\ op = "reuse" => link[s] = NoPane
  /\ IF link[s] = NoPane
     THEN /\ Answers(s)
          /\ Asked(s)
          /\ Become(j, [Idle EXCEPT !.op = op, !.session = s, !.mode = tool[s],
                                    !.pc = "newpane"])
     ELSE /\ Become(j, [Idle EXCEPT !.op = op, !.session = s, !.pc = "find"])
          /\ UNCHANGED other
  /\ UNCHANGED <<tether, store, sweep, mishaps>>

NewPane(j) ==
  /\ job[j].pc = "newpane"
  /\ \E p \in Panes :
       /\ pane[p] = "unused"
       /\ pane' = [pane EXCEPT ![p] = "detached"]
       /\ Become(j, [job[j] EXCEPT !.pc = "link", !.pane = p])
  /\ UNCHANGED <<tether, other, link, mode, sweep, mishaps>>

\* link_session of a session that may have been linked meanwhile: it moves.
LinkView(j) ==
  LET r == job[j]
  IN /\ r.pc = "link"
     /\ IF Exists(r.pane)
        THEN /\ LinkTo(r)
             /\ IF r.op = "view" THEN Goto(j, "find") ELSE Finish(j, "ok")
        ELSE /\ Finish(j, "failed")
             /\ UNCHANGED <<link, mode>>
     /\ UNCHANGED <<tether, other, pane, sweep, mishaps>>

\* ensure_view, the link and the pane read again: a detached pane is brought
\* into the layout if the caller asked to show it.
FindPane(j) ==
  LET p == link[job[j].session]
  IN /\ job[j].pc = "find"
     /\ \/ /\ Exists(p)
           /\ pane[p] = "detached"
           /\ Become(j, [job[j] EXCEPT !.pc = "attach", !.pane = p])
        \/ Finish(j, "ok")
     /\ UNCHANGED <<tether, other, store, sweep, mishaps>>

\* The attach endpoint, after its checks.
StartShow(j, p) ==
  /\ Free(j)
  /\ pane[p] = "detached"
  /\ \E s \in Shown(p) : Answers(s)
  /\ Listed
  /\ Become(j, [Idle EXCEPT !.op = "show", !.pc = "attach", !.pane = p])
  /\ UNCHANGED <<tether, store, sweep, mishaps>>

\* attach_pane: the limit and the update in one transaction.
AttachPane(j) ==
  /\ job[j].pc = "attach"
  /\ IF HasRoom /\ Exists(job[j].pane)
     THEN /\ pane' = [pane EXCEPT ![job[j].pane] = "visible"]
          /\ Finish(j, "ok")
     ELSE /\ Finish(j, "failed")
          /\ UNCHANGED pane
  /\ UNCHANGED <<tether, other, link, mode, sweep, mishaps>>

\* The detach endpoint.
DetachPane(p) ==
  /\ pane[p] = "visible"
  /\ \E s \in Shown(p) : Answers(s)
  /\ Listed
  /\ pane' = [pane EXCEPT ![p] = "detached"]
  /\ UNCHANGED <<tether, link, mode, job, sweep, mishaps>>

-------------------------------------------------------------------------------
(***************************************************************************)
(* Another tool for a session: load_tool, and what the events tell of it.  *)
(***************************************************************************)

\* Tether gives the session tool t (t may be the one it has).  Its event comes
\* later, and so may those before it.
Reload(s, t) ==
  /\ gen' = [gen EXCEPT ![s] = @ + 1]
  /\ tool' = [tool EXCEPT ![s] = t]
  /\ news' = [news EXCEPT ![s] = @ \cup {tool[s], t}]
  /\ loaded' = IF t = tool[s] THEN loaded ELSE loaded \cup {s}
  /\ UNCHANGED status

\* switch_agent_tool finds the pane's agent session.
StartLoad(j, s) ==
  /\ Free(j)
  /\ link[s] # NoPane
  /\ Answers(s)
  /\ tool[s] = "agent"
  /\ Listed
  /\ Become(j, [Idle EXCEPT !.op = "load", !.pc = "load", !.session = s])
  /\ UNCHANGED <<tether, store, sweep, mishaps>>

\* load_tool reads the generation and loads the tool, fenced by it: one step,
\* as what finds another generation does nothing.
LoadTool(j, t) ==
  LET r == job[j]
  IN /\ r.pc = "load"
     /\ \/ /\ Answers(r.session)
           /\ Mishap
           /\ Reload(r.session, t)
           /\ \/ Become(j, [r EXCEPT !.pc = "remember", !.mode = t])
              \/ Finish(j, "failed")
        \/ /\ Finish(j, "failed")
           /\ UNCHANGED <<tether, mishaps>>
     /\ Asked(r.session)
     /\ UNCHANGED <<store, sweep>>

\* update_link, on whatever row the session has by now.
RememberTool(j) ==
  LET r == job[j]
  IN /\ r.pc = "remember"
     /\ mode' = [mode EXCEPT ![r.session] = r.mode]
     /\ Finish(j, "ok")
     /\ UNCHANGED <<tether, other, pane, link, sweep, mishaps>>

\* TetherEventWatcher._apply_session: a descriptor the events carry, in their
\* order; the last one tells the tool the session has.
WatcherTells(s, t) ==
  /\ t \in news[s]
  /\ mode' = [mode EXCEPT ![s] = t]
  /\ \E rest \in SUBSET news[s] :
       /\ tool[s] \in IF rest = {} THEN {t} ELSE rest
       /\ news' = [news EXCEPT ![s] = rest]
  /\ UNCHANGED <<status, gen, tool, loaded, other, pane, link, job, sweep, mishaps>>

-------------------------------------------------------------------------------
(***************************************************************************)
(* The sweepers: reconcile_links and the event watcher.                    *)
(***************************************************************************)

\* Bug: the list Tether returns includes the sessions that ended.
LiveIdsEver == {{s \in Sessions : status[s] # "unborn"}}

\* Bug: the listing is not strict: an instance out of reach is left out of it.
LiveIdsOfThoseThere == {{s \in Sessions : Answers(s)}}

\* What session_catalog.live_ids may return: none while the other instance is
\* known and away.  A Tether that is down raises: the pass is given up before
\* it read or dropped anything.
LiveIds == IF Away THEN {} ELSE {{s \in Sessions : Answers(s)}}

SweepReads ==
  /\ sweep.pc = "idle"
  /\ \E ids \in LiveIds :
       sweep' = [NoSweep EXCEPT !.pc = "list", !.alive = ids, !.was = Live,
                                !.hidden = {s \in Sessions : Hidden(s)}]
  /\ Listed
  /\ UNCHANGED <<tether, store, job, mishaps>>

\* list_links, later: the links to sessions that were not in the first list.
SweepLists ==
  /\ sweep.pc = "list"
  /\ LET todo == Linked \ sweep.alive
     IN sweep' = [pc |-> "drop", alive |-> {}, todo |-> todo,
                  was |-> sweep.was \cap todo, hidden |-> sweep.hidden \cap todo]
  /\ UNCHANGED <<tether, other, store, job, mishaps>>

SweepDrops(s) ==
  /\ sweep.pc = "drop"
  /\ s \in sweep.todo
  /\ link' = [link EXCEPT ![s] = NoPane]
  /\ sweep' = [sweep EXCEPT !.todo = @ \ {s}]
  /\ UNCHANGED <<tether, other, pane, mode, job, mishaps>>

\* delete_empty_panes: the empty ones of those old enough, whichever they are.
SweepPrunes ==
  /\ sweep.pc = "drop"
  /\ sweep.todo = {}
  /\ \E old \in SUBSET Panes :
       pane' = [p \in Panes |-> IF Exists(p) /\ p \in old /\ Shown(p) = {}
                                THEN "deleted" ELSE pane[p]]
  /\ sweep' = NoSweep
  /\ UNCHANGED <<tether, other, link, mode, job, mishaps>>

\* TetherEventWatcher.handle of session.ended: at any time after the end, or
\* never (the stream was down, and nothing is replayed after a restart).
WatcherDrops(s) ==
  /\ status[s] = "ended"
  /\ link' = [link EXCEPT ![s] = NoPane]
  /\ UNCHANGED <<tether, other, pane, mode, job, sweep, mishaps>>

-------------------------------------------------------------------------------
(***************************************************************************)
(* The surroundings: Tether's other clients and the A-Term process.        *)
(***************************************************************************)

\* Another app has a session created, on either instance.
BornOutside(s, m) ==
  /\ s \in Elsewhere => sock = "up"
  /\ Born(s, m)
  /\ UNCHANGED <<other, store, job, sweep, mishaps>>

\* The program exits, or another app ends the session.
SessionEnds(s) ==
  /\ status[s] = "live"
  /\ status' = [status EXCEPT ![s] = "ended"]
  /\ UNCHANGED <<gen, tool, news, loaded, other, store, job, sweep, mishaps>>

\* reset_session (the same tool), of A-Term or of another app, which may load
\* another tool as well.  The fence makes the read and the call one step: a
\* respawn that finds another generation does nothing.
Respawn(s, t) ==
  /\ status[s] = "live"
  /\ Mishap
  /\ Reload(s, t)
  /\ UNCHANGED <<other, store, job, sweep>>

\* The other instance stops, and its socket goes with it, or starts.  Its
\* sessions live on in tmux.
OtherGoes    == sock = "up" /\ sock' = "gone" /\ UNCHANGED <<tether, seen, store, job, sweep, mishaps>>
OtherReturns == sock = "gone" /\ sock' = "up" /\ UNCHANGED <<tether, seen, store, job, sweep, mishaps>>

\* Any listing the browser asks for.
AppLists ==
  /\ Listed
  /\ UNCHANGED <<tether, store, job, sweep, mishaps>>

\* A restart: the requests and the pass are lost, and so is what the process
\* knew of the other instance and the events before it.  The database and
\* Tether stay as they are.
Restart ==
  /\ Mishap
  /\ job' = [j \in Jobs |-> Idle]
  /\ sweep' = NoSweep
  /\ seen' = FALSE
  /\ news' = [s \in Sessions |-> {}]
  /\ UNCHANGED <<status, gen, tool, loaded, sock, store>>

Sweep == SweepReads \/ SweepLists \/ (\E s \in Sessions : SweepDrops(s)) \/ SweepPrunes

Create(j) ==
  \/ \E modes \in {{"shell"}, Modes}, place \in {"visible", "detached"} :
       StartCreate(j, modes, place)
  \/ \E p \in Panes, m \in Modes : StartAdd(j, p, m)
  \/ CreateSession(j) \/ InsertLink(j) \/ RereadLink(j)

End(j) ==
  \/ \E s \in Sessions : status[s] # "unborn" /\ (StartEnd(j, s) \/ StartClose(j, s))
  \/ \E p \in Panes : StartEndPane(j, p)
  \/ \E s \in Sessions : ReadSession(j, s)
  \/ EndSession(j) \/ Unlink(j) \/ DeletePane(j) \/ CloseRemaining(j)

View(j) ==
  \/ \E s \in Sessions, op \in {"view", "reuse"} : StartView(j, s, op)
  \/ \E p \in Panes : StartShow(j, p)
  \/ NewPane(j) \/ LinkView(j) \/ FindPane(j) \/ AttachPane(j)

Load(j) ==
  \/ \E s \in Sessions : StartLoad(j, s)
  \/ \E t \in Modes : LoadTool(j, t)
  \/ RememberTool(j)

\* What happens to a session outside the requests and the passes.
Outside(s) ==
  \/ WatcherDrops(s) \/ SessionEnds(s)
  \/ \E t \in Modes : BornOutside(s, t) \/ Respawn(s, t) \/ WatcherTells(s, t)

Next ==
  \/ \E j \in Jobs : Create(j) \/ End(j) \/ View(j) \/ Load(j)
  \/ Sweep
  \/ \E s \in Sessions : Outside(s)
  \/ \E p \in Panes : DetachPane(p)
  \/ OtherGoes \/ OtherReturns \/ AppLists
  \/ Restart

Spec == Init /\ [][Next]_vars

\* Maintenance runs a pass at every interval, and a pass that starts ends.
\* Nothing is promised of a request, a user, or the event stream.
FairSpec == Spec /\ WF_vars(Sweep)

-------------------------------------------------------------------------------
(***************************************************************************)
(* Properties.                                                             *)
(***************************************************************************)

TypeOK ==
  /\ status \in [Sessions -> {"unborn", "live", "ended"}]
  /\ gen \in [Sessions -> Nat]
  /\ tool \in [Sessions -> Modes]
  /\ news \in [Sessions -> SUBSET Modes]
  /\ loaded \subseteq Sessions
  /\ sock \in {"up", "gone"}
  /\ seen \in BOOLEAN
  /\ pane \in [Panes -> {"unused", "visible", "detached", "deleted"}]
  /\ link \in [Sessions -> Panes \cup {NoPane}]
  /\ mode \in [Sessions -> Modes]
  /\ job \in [Jobs -> JobSet]
  /\ \A j \in Jobs : job[j].pc \in Naming => job[j].session \in Sessions
  /\ sweep \in SweepSet
  /\ mishaps \in 0..MaxMishaps

\* No link outlives its pane: whatever requests race, a link is to a pane
\* that is there (the foreign key of pane_sessions, and its cascade).
LinksNamePanes == \A s \in Linked : Exists(link[s])

\* A request that says it ended sessions did: end_session, end_pane and
\* close_session answer without an error only when every session they set
\* out to end is over, whatever respawned or ended them meanwhile ("a changed
\* generation is reported", lifecycle.py), and whatever instance owned it was
\* away.  Only a session whose instance is gone, and never answered this
\* process, passes for ended.
EndMeansEnded ==
  \A j \in Jobs :
    job[j].pc = "ok" => \A s \in job[j].asked \ job[j].missed : status[s] = "ended"

\* A create that fails leaves no pane behind, wherever it failed.
FailedCreateLeavesNoPane ==
  \A j \in Jobs :
    job[j].pc = "failed" => ~Exists(job[j].pane)

\* "An agent close also ends shell companions" (session_close.py) and nothing
\* else: closing a session ends no agent it was not asked to end, whatever the
\* links were read, moved and ended between.  A session given another tool since
\* its birth is left out: its link may say "shell" of an agent.
CloseSparesAgents ==
  [][\A j \in Jobs, s \in Sessions \ loaded :
       job[j].pc = "end" /\ job'[j] # job[j] /\ status[s] = "live" /\ status'[s] = "ended"
         => \/ tool[s] = "shell" \/ job[j].op # "companions"]_vars

\* "An unreachable Tether never counts as every session ended" (lifecycle.py):
\* a pass drops no link to a session that was live when the pass read Tether
\* and has not ended since, unless the instance that owns it was gone and never
\* answered this process.
SweepSparesLive ==
  [][\A s \in Linked :
       sweep.pc = "drop" /\ sweep'.todo # sweep.todo /\ link'[s] = NoPane
         => status[s] = "ended" \/ s \notin sweep.was \/ s \in sweep.hidden]_vars

\* A link to a session that ended does not stay: whatever was missed, the
\* event, the request's own unlink or the process, a pass catches up, unless
\* a known instance is away.
DeadLinksGo ==
  \A s \in Sessions : (s \in Linked /\ status[s] = "ended") ~> (s \notin Linked \/ Away)

\* What reconcile_links says of itself: "Drop pane links to sessions that
\* ended" (lifecycle.py).  It does not hold: see the README.
SweepDropsOnlyEnded ==
  [][\A s \in Linked :
       sweep.pc = "drop" /\ sweep'.todo # sweep.todo /\ link'[s] = NoPane
         => status[s] = "ended"]_vars

\* What live_session_ids says of itself: "an unreachable instance raises (never
\* 'its sessions ended')" (client.py).  It does not hold: see the README.
UnreachableNeverCounts ==
  [][\A s \in Linked :
       sweep.pc = "drop" /\ sweep'.todo # sweep.todo /\ link'[s] = NoPane
         => status[s] = "ended" \/ s \notin sweep.was]_vars

\* What a create that is refused says: "Maximum 6 panes allowed" in the
\* layout (storage/panes.py).  It does not hold: see the README.
LayoutIsBounded == Cardinality(VisibleLinked) <= MaxPanes
===============================================================================
