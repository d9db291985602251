------------------------------ MODULE ActiveSession ------------------------------
(***************************************************************************)
(* Which session a window has active: the URL, the remembered session and  *)
(* the lists it is derived from (use-active-session.ts), and the switch to *)
(* a session that is on screen (use-a-term-tabs-state.ts).                 *)
(*                                                                         *)
(* The lists of sessions and of panes are two queries: they may disagree.  *)
(* A pane stands for its session.  A session no A-Term pane shows is       *)
(* "free": another app's or agent's, which a View may show.                *)
(***************************************************************************)
EXTENDS Naturals

CONSTANTS Sessions, \* in the order they are listed: numbers from 1
          MaxMoves  \* bound: what the user, the queries and other windows do

None == 0

VARIABLES
  mobile,    \* a phone: every session is in its switcher
  list,      \* list[s]: "gone", "pane" or "free", as the session query has it
  panes,     \* the pane query's: sessions panes show
  owned,     \* of them, those this window shows
  attached,  \* attachedExternalSessionIds
  url,       \* ?session=
  persisted, \* the remembered session
  asked,     \* sessions the user asked for or had in a pane, for the properties
  moves

vars == <<mobile, list, panes, owned, attached, url, persisted, asked, moves>>

First(S) == IF S = {} THEN None ELSE CHOOSE s \in S : \A t \in S : s <= t

Listed == {s \in Sessions : list[s] # "gone"}
Shown == {s \in Sessions : list[s] = "pane"}
Free == {s \in Sessions : list[s] = "free"}

\* Bug: only a session of a pane counts when the URL names it.
ActiveShown ==
  IF url \in Shown THEN url ELSE IF persisted \in Shown THEN persisted ELSE First(Shown)

\* deriveActiveSessionId, without a project in the URL.
Active ==
  IF url \in Listed THEN url ELSE IF persisted \in Shown THEN persisted ELSE First(Shown)

\* Bug: the first session of the switcher will do.
PickableAny == IF mobile THEN panes \cup Listed ELSE owned \cup (attached \cap Free)

\* The sessions a window may switch to by itself.
Pickable == (IF mobile THEN panes ELSE owned) \cup (attached \cap Free)

\* The sessions on screen.
OnScreen == IF mobile THEN panes \cup Listed ELSE Pickable

\* resolvedActiveSessionId.
Resolved ==
  IF Active \in OnScreen THEN Active
  ELSE IF Pickable # {} THEN First(Pickable)
  ELSE IF panes = {} THEN Active ELSE None

Init ==
  /\ mobile \in BOOLEAN
  /\ list \in [Sessions -> {"gone", "pane", "free"}]
  /\ panes = Shown
  /\ owned \in SUBSET panes
  /\ attached = {}
  /\ url \in Sessions \cup {None} /\ persisted \in Sessions \cup {None}
  /\ asked = {url}
  /\ moves = 0

-------------------------------------------------------------------------------
(***************************************************************************)
(* The effects.                                                            *)
(***************************************************************************)

\* router.replace with the active session.
SyncParam ==
  /\ Active # None /\ url # Active
  /\ url' = Active
  /\ UNCHANGED <<mobile, list, panes, owned, attached, persisted, asked, moves>>

\* setPersistedSessionId.
Remember ==
  /\ persisted # Active
  /\ persisted' = Active
  /\ UNCHANGED <<mobile, list, panes, owned, attached, url, asked, moves>>

\* switchToSession(resolvedActiveSessionId).
FollowScreen ==
  /\ Resolved # None /\ Resolved # Active
  /\ url' = Resolved
  /\ asked' = asked \cup (panes \cap {Resolved})
  /\ UNCHANGED <<mobile, list, panes, owned, attached, persisted, moves>>

\* attachedExternalSessionIds, once the sessions are listed.
DropAttached ==
  /\ attached \ Free # {}
  /\ attached' = attached \cap Free
  /\ UNCHANGED <<mobile, list, panes, owned, url, persisted, asked, moves>>

Effects == SyncParam \/ Remember \/ FollowScreen \/ DropAttached

-------------------------------------------------------------------------------
(***************************************************************************)
(* The user, the queries and the other windows.                            *)
(***************************************************************************)

Moves == moves < MaxMoves /\ moves' = moves + 1

\* switchToSession, or a link.
UserOpens(s) ==
  /\ Moves
  /\ url' = s
  /\ asked' = asked \cup {s}
  /\ UNCHANGED <<mobile, list, panes, owned, attached, persisted>>

\* attachExternalSession, detachExternalSession.
UserAttaches(s) ==
  /\ Moves
  /\ s \in Free \/ s \in attached
  /\ attached' = IF s \in attached THEN attached \ {s} ELSE attached \cup {s}
  /\ asked' = asked \cup {s}
  /\ UNCHANGED <<mobile, list, panes, owned, url, persisted>>

\* A session that turns free while it is active stays: the user had it.
Keeps(s) == asked' = asked \cup ({s} \ {None})

SessionsFetched ==
  /\ Moves
  /\ list' \in [Sessions -> {"gone", "pane", "free"}]
  /\ Keeps(Active)
  /\ UNCHANGED <<mobile, panes, owned, attached, url, persisted>>

PanesFetched ==
  /\ Moves
  /\ panes' \in SUBSET Sessions
  /\ owned' \in SUBSET panes'
  /\ UNCHANGED <<mobile, list, attached, url, persisted, asked>>

Next ==
  \/ SyncParam \/ Remember \/ FollowScreen \/ DropAttached
  \/ SessionsFetched \/ PanesFetched
  \/ \E s \in Sessions : UserOpens(s) \/ UserAttaches(s)

Spec == Init /\ [][Next]_vars

\* React runs an effect whose condition stays true.
FairSpec == Spec /\ WF_vars(Effects)

-------------------------------------------------------------------------------
(***************************************************************************)
(* Properties.                                                             *)
(***************************************************************************)

TypeOK ==
  /\ list \in [Sessions -> {"gone", "pane", "free"}]
  /\ owned \subseteq panes /\ panes \subseteq Sessions /\ attached \subseteq Sessions
  /\ {url, persisted} \subseteq Sessions \cup {None}
  /\ asked \subseteq Sessions \cup {None}
  /\ moves \in 0..MaxMoves

\* "never a free-standing View" (use-active-session.ts): another app's or agent's
\* session is active only if the user opened it, attached it, or had it open when
\* its pane let it go; no remembered, listed or resolved session becomes one.
NoUnaskedSession == Active \in Free => Active \in asked

\* With lists that agree the effects come to rest: they do not send the URL back
\* and forth between a session that is listed and one that is on screen.
EffectsRest == <>[](panes = Shown) => <>[](~ENABLED Effects)
===============================================================================
