------------------------------ MODULE EventWatcher ------------------------------
(***************************************************************************)
(* The watchers of Tether's event streams (services/tether_events.py), one *)
(* per known instance, with the part of tether/client.py they stand on:    *)
(* events() and the pool's strict fan-out.                                 *)
(*                                                                         *)
(* A watcher keeps pane links in step with sessions it never asks about:   *)
(* what it missed it must learn from a replay, a gap or a reconcile pass.  *)
(* (The mode it keeps in a link is left out: links are there or not.)      *)
(* Daemons stop and start (a new boot has a new log), streams break, and   *)
(* A-Term itself restarts and forgets its cursors and which instances it   *)
(* ever reached.                                                           *)
(***************************************************************************)
EXTENDS Integers, Sequences

CONSTANTS
  Sessions,   \* linked sessions
  Owner,      \* Owner[s]: the instance that runs s
  MaxEvents,  \* bound: events of one boot of a daemon
  MaxBoots,   \* bound: boots of a daemon
  MaxRestarts \* bound: restarts of A-Term

VARIABLES
  tether,   \* tether[i]: up, its socket's file, the boot and the events of it
  ended,    \* sessions that ended
  linked,   \* sessions some pane has a link to
  watch,    \* watch[i]: the watcher's loop, and its cursor
  seen,     \* _seen: instances that answered this process
  restarts  \* restarts of A-Term so far

vars == <<tether, ended, linked, watch, seen, restarts>>

Instances == {"active", "agent"}
None == -1   \* no sequence number, no boot

\* A watcher that has just started: nothing read, no cursor.  (missed: history,
\* see SessionEnds.)
Started == [phase |-> "idle", seq |-> None, boot |-> None, next |-> 0, gap |-> FALSE,
            caughtUp |-> FALSE, missed |-> {}]

\* A watcher with a cursor resumes.
Resuming(w) == w.seq # None /\ w.boot # None

Init ==
  /\ tether = [i \in Instances |-> [up |-> TRUE, socket |-> TRUE, boot |-> 1, log |-> <<>>]]
  /\ ended = {}
  /\ linked = Sessions
  /\ watch = [i \in Instances |-> Started]
  /\ seen = {}
  /\ restarts = 0

-------------------------------------------------------------------------------
(***************************************************************************)
(* Tether's side.                                                          *)
(***************************************************************************)

\* A daemon that runs logs what happens to its sessions.
Logged(s, event) ==
  LET i == Owner[s] IN
    IF ~tether[i].up THEN tether
    ELSE [tether EXCEPT ![i].log = Append(@, event)]

HasRoom(s) == Len(tether[Owner[s]].log) < MaxEvents

\* The watcher misses it while it is between its pass and a subscription that
\* replays nothing.
SessionEnds(s) ==
  /\ s \notin ended
  /\ HasRoom(s)
  /\ ended' = ended \cup {s}
  /\ tether' = Logged(s, [type |-> "ended", session |-> s])
  /\ LET i == Owner[s] IN
       watch' = IF watch[i].phase = "subscribe" /\ ~Resuming(watch[i])
                THEN [watch EXCEPT ![i].missed = @ \cup {s}] ELSE watch
  /\ UNCHANGED <<linked, seen, restarts>>

\* It is respawned with another tool, or renamed.
SessionUpdates(s) ==
  /\ s \notin ended
  /\ tether[Owner[s]].up
  /\ HasRoom(s)
  /\ tether' = Logged(s, [type |-> "updated", session |-> s])
  /\ UNCHANGED <<ended, linked, watch, seen, restarts>>

\* A daemon stops, with its socket removed or left behind.
DaemonStops(i) ==
  /\ tether[i].up
  /\ tether[i].boot < MaxBoots
  /\ \E left \in BOOLEAN : tether' = [tether EXCEPT ![i].up = FALSE, ![i].socket = left]
  /\ watch' = [watch EXCEPT ![i].phase = IF @ = "stream" THEN "idle" ELSE @]
  /\ UNCHANGED <<ended, linked, seen, restarts>>

DaemonStarts(i) ==
  /\ ~tether[i].up
  /\ tether' = [tether EXCEPT ![i] = [up |-> TRUE, socket |-> TRUE, boot |-> @.boot + 1,
                                      log |-> <<>>]]
  /\ UNCHANGED <<ended, linked, watch, seen, restarts>>

-------------------------------------------------------------------------------
(***************************************************************************)
(* The pool.                                                               *)
(***************************************************************************)

\* Bug: another instance counts only while its socket is there.
CandidatesBySocket(known) == {i \in Instances : i = "active" \/ tether[i].socket}

\* The active instance always, another one while its socket exists or if it
\* answered this process before.
Candidates(known) ==
  {i \in Instances : i = "active" \/ i \in known \/ tether[i].socket}

\* live_session_ids: the strict fan-out raises when a candidate is away.
FanOut(known) == \A i \in Candidates(known) : tether[i].up

\* reconcile_links: what no candidate lists loses its link; nothing when the
\* fan-out raised.  (A session is never born here: PaneLinks has those.)
Reconcile ==
  LET answered == {i \in Candidates(seen) : tether[i].up}
      alive == {s \in Sessions \ ended : Owner[s] \in answered}
  IN /\ linked' = IF FanOut(seen) THEN linked \cap alive ELSE linked
     /\ seen' = IF FanOut(seen) \/ "active" \in answered THEN seen \cup answered ELSE seen

-------------------------------------------------------------------------------
(***************************************************************************)
(* A watcher's loop.                                                       *)
(***************************************************************************)

\* _run, the top of the loop.  events() is a generator: calling it sends
\* nothing, so the pass of a fresh stream comes before the subscription.
Connect(i) ==
  /\ watch[i].phase = "idle"
  /\ IF Resuming(watch[i])
     THEN UNCHANGED <<linked, seen>> /\ watch' = [watch EXCEPT ![i].phase = "subscribe"]
     ELSE /\ Reconcile
          /\ watch' = [watch EXCEPT ![i].phase = "subscribe", ![i].caughtUp = FanOut(seen),
                                    ![i].missed = {}]
  /\ UNCHANGED <<tether, ended, restarts>>

\* Bug: the cursor of another boot counts.
HelloKeepsCursor(w, i) == [w EXCEPT !.boot = tether[i].boot]

\* handle of the first line, which names the boot: a cursor of another boot is
\* no cursor.
Hello(w, i) ==
  [w EXCEPT !.seq = IF w.boot \notin {None, tether[i].boot} THEN None ELSE @,
            !.boot = tether[i].boot]

\* The request.  The daemon replays what came after the cursor if that is of
\* this boot, and says gap if it is of an earlier one.
Subscribe(i) ==
  LET w == watch[i]
      replays == Resuming(w) /\ w.boot = tether[i].boot
  IN /\ w.phase = "subscribe"
     /\ watch' = [watch EXCEPT ![i] =
          IF ~tether[i].up THEN [w EXCEPT !.phase = "idle"]
          ELSE [Hello(w, i) EXCEPT
                  !.phase = "stream", !.gap = Resuming(w) /\ ~replays,
                  !.next = IF replays THEN w.seq + 1 ELSE Len(tether[i].log) + 1]]
     /\ UNCHANGED <<tether, ended, linked, seen, restarts>>

\* No line in time, or the connection breaks: back to the top of the loop.
StreamBreaks(i) ==
  /\ watch[i].phase = "stream"
  /\ watch' = [watch EXCEPT ![i].phase = "idle"]
  /\ UNCHANGED <<tether, ended, linked, seen, restarts>>

\* handle of a heartbeat: where the stream stands.
Heartbeat(i) ==
  /\ watch[i].phase = "stream"
  /\ ~watch[i].gap
  /\ watch' = [watch EXCEPT ![i].seq = watch[i].next - 1]
  /\ UNCHANGED <<tether, ended, linked, seen, restarts>>

\* handle of a gap: events were lost, read everything again.
HandleGap(i) ==
  /\ watch[i].phase = "stream"
  /\ watch[i].gap
  /\ Reconcile
  /\ watch' = [watch EXCEPT ![i] = [@ EXCEPT !.seq = watch[i].next - 1, !.gap = FALSE,
                                          !.caughtUp = FanOut(seen),
                                          !.missed = {}]]
  /\ UNCHANGED <<tether, ended, restarts>>

\* get_session through the pool, for an event without a descriptor: the link
\* goes when every candidate says 404, and stays when one that may own the
\* session does not answer.
Unlisted(s) ==
  \A i \in Candidates(seen) : tether[i].up /\ (Owner[s] = i => s \in ended)

\* Whether an event takes the link of its session.
Drops(e, described) == e.type = "ended" \/ (~described /\ Unlisted(e.session))

\* handle of the next event of the stream.
HandleEvent(i) ==
  LET w == watch[i]
      e == tether[i].log[w.next]
  IN /\ w.phase = "stream"
     /\ ~w.gap
     /\ w.next <= Len(tether[i].log)
     /\ \E described \in BOOLEAN :
          linked' = IF Drops(e, described) THEN linked \ {e.session} ELSE linked
     /\ watch' = [watch EXCEPT ![i] = [w EXCEPT !.seq = w.next, !.next = @ + 1]]
     /\ UNCHANGED <<tether, ended, seen, restarts>>

\* A-Term itself restarts.
Restart ==
  /\ restarts < MaxRestarts
  /\ restarts' = restarts + 1
  /\ watch' = [i \in Instances |-> Started]
  /\ seen' = {}
  /\ UNCHANGED <<tether, ended, linked>>

Next ==
  \/ \E s \in Sessions : SessionEnds(s) \/ SessionUpdates(s)
  \/ \E i \in Instances :
       \/ DaemonStops(i) \/ DaemonStarts(i)
       \/ Connect(i) \/ Subscribe(i) \/ StreamBreaks(i) \/ Heartbeat(i) \/ HandleGap(i)
       \/ HandleEvent(i)
  \/ Restart

Spec == Init /\ [][Next]_vars

-------------------------------------------------------------------------------
(***************************************************************************)
(* Properties.                                                             *)
(***************************************************************************)

TypeOK ==
  /\ tether \in [Instances -> [up : BOOLEAN, socket : BOOLEAN, boot : 1..MaxBoots,
                   log : Seq([type : {"ended", "updated"}, session : Sessions])]]
  /\ ended \subseteq Sessions /\ linked \subseteq Sessions
  /\ watch \in [Instances -> [phase : {"idle", "subscribe", "stream"}, seq : None..MaxEvents,
                  boot : {None} \cup 1..MaxBoots, next : 0..MaxEvents + 1, gap : BOOLEAN,
                  caughtUp : BOOLEAN, missed : SUBSET Sessions]]
  /\ seen \subseteq Instances
  /\ restarts \in 0..MaxRestarts

\* The instance of a session never answered this process and has no socket.
Unreached(s) == Owner[s] \notin seen /\ ~tether[Owner[s]].socket

\* "An unreachable instance raises (never "its sessions ended")" (client.py):
\* the link of a session that lives goes only when its instance never answered
\* this process and has no socket either.
KeepsLiveLinks == [][\A s \in (linked \ linked') \ ended : Unreached(s)]_vars

\* "A fresh stream has no replay: catch up on what ended meanwhile"
\* (tether_events.py): through restarts, breaks, gaps and new boots, a watcher
\* whose last pass was answered and which has nothing left to read leaves no link
\* to a session of its instance that ended, but for those that ended between the
\* pass and the subscription.
StreamCatchesUp ==
  \A i \in Instances :
    watch[i].phase = "stream" /\ watch[i].caughtUp /\ ~watch[i].gap
      /\ watch[i].next > Len(tether[i].log)
    => \A s \in ended \cap linked : Owner[s] = i => s \in watch[i].missed

\* Both ways: the links that go are those of ended sessions, and they do go.
LinksFollowEnds == KeepsLiveLinks /\ []StreamCatchesUp
===============================================================================
