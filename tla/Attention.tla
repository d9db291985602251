--------------------------------- MODULE Attention --------------------------------
(***************************************************************************)
(* Which sessions need the owner (lib/attention.ts,                        *)
(* use-session-attention.ts).  Each window fetches the sessions with what  *)
(* their agents do, and keeps a record of when the owner last had each one *)
(* open.  The windows share the record through localStorage: each works on *)
(* a copy, which the storage event of another window's write drops.        *)
(*                                                                         *)
(* Here every session is a pane's only one, and an effect runs with the    *)
(* render it follows.                                                      *)
(***************************************************************************)
EXTENDS Naturals

CONSTANTS Windows, Sessions,
          Nobody,      \* no session is open
          MaxTime,     \* bound: changes of what an agent does
          MaxOpens     \* bound: times the owner opens a session or turns to a window

Activities == {"working", "idle", "blocked"}

VARIABLES
  time,
  agent,       \* what Tether knows of each session
  list,        \* list[w]: the sessions as w fetched them last
  open,        \* activeSessionId
  visible,     \* the windows that are visible
  store,       \* the record in localStorage
  cache,       \* seenCache
  notice,      \* the windows with a storage event to come
  watched,     \* when a visible window last had the session open
  lost,        \* the sessions whose last mark another window's write undid
  opens

vars == <<time, agent, list, open, visible, store, cache, notice, watched, lost, opens>>

Quiet == [activity |-> "idle", previous |-> "idle", at |-> 0]

Init ==
  /\ time = 0
  /\ agent = [s \in Sessions |-> Quiet]
  /\ list = [w \in Windows |-> agent]
  /\ open \in [Windows -> Sessions \cup {Nobody}] /\ visible = Windows
  /\ store = [s \in Sessions |-> 0] /\ cache = [w \in Windows |-> store]
  /\ notice = {} /\ watched = store /\ lost = {} /\ opens = 0

\* attentionOf.
Group(info, seenAt) ==
  LET unseen == info.at > seenAt
  IN IF info.activity = "blocked" /\ unseen THEN "needs-you"
     ELSE IF info.activity = "idle" /\ unseen /\ info.previous \in {"working", "blocked"}
     THEN "finished"
     ELSE IF info.activity = "working" THEN "working" ELSE "idle"

\* Bug: a window marks what it has open although nobody sees the window.
MarksAlways(w) == open'[w] # Nobody

\* `mark', of the effect and of visibilitychange.
Marks(w) == open'[w] # Nobody /\ w \in visible'

\* markSeen, on the window's copy of the record.
MarkSeen(w) ==
  LET marked == [cache[w] EXCEPT ![open'[w]] = time]
      undone == {s \in Sessions : marked[s] < store[s]}
  IN IF Marks(w)
     THEN /\ cache' = [cache EXCEPT ![w] = marked]
          /\ store' = marked
          /\ notice' = notice \cup (Windows \ {w})
          /\ lost' = (lost \ {open'[w]}) \cup undone
     ELSE UNCHANGED <<cache, store, notice, lost>>

Watch == watched' = [s \in Sessions |->
  IF \E w \in visible' : open'[w] = s THEN time' ELSE watched[s]]

Owner == opens < MaxOpens /\ opens' = opens + 1

\* The owner opens a session in a window, or the last one there is closed: the effect
\* runs for the new one.
Opens(w) ==
  /\ Owner
  /\ \E s \in (Sessions \cup {Nobody}) \ {open[w]} : open' = [open EXCEPT ![w] = s]
  /\ UNCHANGED <<time, agent, list, visible>>
  /\ MarkSeen(w) /\ Watch

\* The list is fetched: the effect runs when the open session has a new activity_at.
Fetches(w) ==
  /\ list[w] # agent
  /\ list' = [list EXCEPT ![w] = agent]
  /\ UNCHANGED <<time, agent, open, visible, opens>>
  /\ IF open[w] # Nobody /\ list[w][open[w]].at # agent[open[w]].at
     THEN MarkSeen(w) ELSE UNCHANGED <<cache, store, notice, lost>>
  /\ Watch

\* visibilitychange.
Hides(w) ==
  /\ Owner
  /\ w \in visible /\ visible' = visible \ {w}
  /\ UNCHANGED <<time, agent, list, open>>
  /\ MarkSeen(w) /\ Watch

Appears(w) ==
  /\ Owner
  /\ w \notin visible /\ visible' = visible \cup {w}
  /\ UNCHANGED <<time, agent, list, open>>
  /\ MarkSeen(w) /\ Watch

\* The storage event: the copy is dropped, and read again for the render.
Storage(w) ==
  /\ w \in notice /\ notice' = notice \ {w}
  /\ cache' = [cache EXCEPT ![w] = store]
  /\ UNCHANGED <<time, agent, list, open, visible, store, watched, lost, opens>>

\* An agent starts, waits for the owner, or ends its turn.
AgentChanges(s) ==
  /\ time < MaxTime /\ time' = time + 1
  /\ \E activity \in Activities \ {agent[s].activity} :
       agent' = [agent EXCEPT ![s] = [activity |-> activity, previous |-> @.activity,
                                      at |-> time']]
  /\ UNCHANGED <<list, open, visible, store, cache, notice, lost, opens>>
  /\ Watch

Next ==
  \/ \E w \in Windows : Opens(w) \/ Fetches(w) \/ Hides(w) \/ Appears(w) \/ Storage(w)
  \/ \E s \in Sessions : AgentChanges(s)

Spec == Init /\ [][Next]_vars

-------------------------------------------------------------------------------

\* The types of the variables.
TypeOK ==
  /\ time \in 0..MaxTime
  /\ agent \in [Sessions -> [activity : Activities, previous : Activities, at : 0..MaxTime]]
  /\ \A w \in Windows : DOMAIN list[w] = Sessions
  /\ open \in [Windows -> Sessions \cup {Nobody}] /\ visible \subseteq Windows
  /\ store \in [Sessions -> 0..MaxTime] /\ watched \in [Sessions -> 0..MaxTime]
  /\ cache \in [Windows -> [Sessions -> 0..MaxTime]]
  /\ notice \subseteq Windows /\ lost \subseteq Sessions /\ opens \in 0..MaxOpens

Shown(w, s) == Group(list[w][s], cache[w][s])

\* No window hides that a session needs the owner, unless it was open before the
\* owner's eyes since.
NeedsAreShown ==
  \A w \in Windows, s \in Sessions : cache[w][s] <= watched[s]

\* A session the owner has open asks for nothing in any window that is up to date,
\* unless another window's write undid its mark: both worked on copies.
OpenAsksNothing ==
  \A w \in Windows, v \in visible :
    LET s == open[v]
    IN s # Nobody /\ s \notin lost /\ notice = {} /\ list[w] = agent /\ list[v] = agent
         => Shown(w, s) \notin {"needs-you", "finished"}

\* "A blocked session is 'needs you' until it is opened; a turn that finished since it
\* was last open is 'finished'" (attention.ts), in every window, whatever order the
\* fetches, the marks of the windows and their storage events come in.
AttentionUntilOpened == NeedsAreShown /\ OpenAsksNothing
==================================================================================
