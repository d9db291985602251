----------------------------- MODULE WindowOwnership -----------------------------
(***************************************************************************)
(* Which browser window shows which pane (use-window-pane-ownership.ts):   *)
(* the windows of one browser share a registry in localStorage.  Each      *)
(* reads it, changes it and writes it back whole; no lock is taken, so     *)
(* another window may write in between, and its write is undone.  The      *)
(* other windows hear of a write by the storage event, and sync.           *)
(*                                                                         *)
(* A window whose timers are frozen goes stale after STALE_MS: the next    *)
(* window that writes the registry drops its entry, its own next sync      *)
(* included.                                                               *)
(***************************************************************************)
EXTENDS Naturals, FiniteSets

CONSTANTS
  Windows, Panes,
  MaxTurns   \* bound: windows that close or freeze, and panes claimed, come or gone

VARIABLES
  panes,    \* the visible panes of the server
  open,     \* windows that have the page open
  known,    \* known[w]: the panes its query last fetched
  registry, \* registry[w]: a set with its entry (a set of panes), or {}
  stale,    \* windows whose entry is older than STALE_MS
  claimed,  \* panes a window claimed, for the properties
  shows,    \* shows[w]: ownedPaneIds, the panes of the entry it last wrote
  told,     \* windows that a storage event, or the effect of their mount, will make sync
  changing, \* changing[w]: a set with the registry it has read and changed, or {}
  turns     \* the count of what MaxTurns bounds

vars == <<panes, open, known, registry, stale, claimed, shows, told, changing, turns>>

Init ==
  /\ panes = Panes /\ open = {}
  /\ known = [w \in Windows |-> {}]
  /\ registry = [w \in Windows |-> {}]
  /\ stale = {} /\ claimed = {} /\ told = {} /\ turns = 0
  /\ shows = [w \in Windows |-> {}]
  /\ changing = [w \in Windows |-> {}]

\* A window runs one script at a time.
Idle(w) == changing[w] = {}

Turn == turns < MaxTurns /\ turns' = turns + 1

\* pruneRegistry.
Pruned == [w \in Windows |-> IF w \in stale THEN {} ELSE registry[w]]

\* getClaimedByOtherWindows.
ClaimedElsewhere(w) == UNION (UNION {Pruned[v] : v \in Windows \ {w}})

NoOthers(w) == \A v \in Windows \ {w} : Pruned[v] = {}

\* readRegistry and the change made to it: the new registry, of r, has this entry for w.
Changes(w, r, entry) ==
  /\ Idle(w)
  /\ changing' = [changing EXCEPT ![w] = {[r EXCEPT ![w] = entry]}]

\* Bug: a window with panes takes every pane it sees.
NewFor(w, mine, ps) == ps

\* The panes a window that has some takes on: those nobody else has.
New(w, mine, ps) == IF mine = {} THEN {} ELSE ps \ ClaimedElsewhere(w)

\* resolveOwnedPaneIds, with the panes of the render and the pane, if any, of its
\* active session.
Resolve(w, ps) == \E act \in {{p} : p \in ps} \cup {{}} :
  LET kept == (UNION Pruned[w]) \cap ps
      mine == IF kept = {} /\ NoOthers(w) THEN ps ELSE kept
      taken == IF Pruned[w] = {} THEN {} ELSE New(w, mine, ps)
  IN Changes(w, Pruned, {mine \cup taken \cup (act \ ClaimedElsewhere(w))})

\* Bug: no window listens to the others.
HearNothing(w) == told' = told

\* The storage event goes to the other windows.
Hear(w) == told' = told \cup (open \ {w})

-------------------------------------------------------------------------------

\* writeRegistry, and setOwnedPaneIds.  An entry that is written back keeps its age.
Write(w) ==
  /\ \E r \in changing[w] :
       /\ registry' = r
       /\ stale' = {v \in stale \ {w} : r[v] # {}}
       /\ shows' = [shows EXCEPT ![w] = UNION r[w]]
  /\ Hear(w)
  /\ changing' = [changing EXCEPT ![w] = {}]
  /\ UNCHANGED <<panes, open, known, claimed, turns>>

\* A window opens, before it has fetched anything.  The effect of its mount syncs again.
Open(w) ==
  /\ w \notin open
  /\ open' = open \cup {w} /\ told' = told \cup {w}
  /\ Resolve(w, {})
  /\ UNCHANGED <<panes, known, registry, stale, claimed, shows, turns>>

\* The effect of a new list or of a new active session.
Renders(w) ==
  /\ w \in open
  /\ known' = [known EXCEPT ![w] = panes]
  /\ Resolve(w, panes)
  /\ told' = told \ {w}
  /\ UNCHANGED <<panes, open, registry, stale, claimed, shows, turns>>

\* The heartbeat, or another window's write (the storage event).
Syncs(w) ==
  /\ w \in open
  /\ Resolve(w, known[w])
  /\ told' = told \ {w}
  /\ UNCHANGED <<panes, open, known, registry, stale, claimed, shows, turns>>

\* claimPane, for a pane this window has just created or attached.
ClaimPane(w, p) ==
  /\ w \in open /\ p \in panes /\ Turn
  /\ claimed' = claimed \cup {p}
  /\ Changes(w, Pruned, {(UNION Pruned[w]) \cup {p}})
  /\ UNCHANGED <<panes, open, known, registry, stale, shows, told>>

\* pagehide: removeWindowOwner, which writes only if the window has an entry.
PageHide(w) ==
  /\ w \in open /\ Idle(w) /\ Turn
  /\ open' = open \ {w} /\ told' = told \ {w}
  /\ known' = [known EXCEPT ![w] = {}] /\ shows' = [shows EXCEPT ![w] = {}]
  /\ IF registry[w] = {} THEN UNCHANGED changing ELSE Changes(w, registry, {})
  /\ UNCHANGED <<panes, registry, stale, claimed>>

\* STALE_MS pass without the window's heartbeat: it is frozen, or crashed.
GoesStale(w) ==
  /\ registry[w] # {} /\ Turn
  /\ stale' = stale \cup {w}
  /\ UNCHANGED <<panes, open, known, registry, claimed, shows, told, changing>>

\* A pane is created, attached, detached or ended, here or elsewhere.
PaneAppears(p) ==
  /\ panes' = panes \cup {p} /\ Turn
  /\ UNCHANGED <<open, known, registry, stale, claimed, shows, told, changing>>

PaneEnds(p) ==
  /\ panes' = panes \ {p} /\ Turn
  /\ UNCHANGED <<open, known, registry, stale, claimed, shows, told, changing>>

Next ==
  \/ \E w \in Windows :
       \/ Write(w) \/ Open(w) \/ Renders(w) \/ Syncs(w) \/ PageHide(w) \/ GoesStale(w)
       \/ \E p \in Panes : ClaimPane(w, p)
  \/ \E p \in Panes : PaneAppears(p) \/ PaneEnds(p)

Spec == Init /\ [][Next]_vars

-------------------------------------------------------------------------------

\* What a registry may be: an entry for each window, or none.
IsRegistry(r) ==
  /\ r \in [Windows -> SUBSET SUBSET Panes]
  /\ \A w \in Windows : Cardinality(r[w]) <= 1

TypeOK ==
  /\ panes \subseteq Panes /\ claimed \subseteq Panes
  /\ open \subseteq Windows /\ stale \subseteq Windows /\ told \subseteq Windows
  /\ known \in [Windows -> SUBSET Panes] /\ shows \in [Windows -> SUBSET Panes]
  /\ IsRegistry(registry)
  /\ turns \in 0..MaxTurns /\ DOMAIN changing = Windows
  /\ \A w \in Windows : /\ \A r \in changing[w] : IsRegistry(r)
                         /\ Cardinality(changing[w]) <= 1

\* Two windows show a pane that neither of them claimed only while one of them is about
\* to hear of it: the registry, whoever wrote it last and over whatever, never gives
\* such a pane to two windows, and a window that shows what the registry does not give
\* it is about to sync.  So it is whatever windows open, freeze, come back, close and
\* overwrite each other's entries meanwhile.
OwnersDisjoint ==
  /\ \A v, w \in Windows :
       v # w => (UNION registry[v]) \cap (UNION registry[w]) \subseteq claimed
  /\ \A w \in open : shows[w] = UNION registry[w] \/ w \in told \/ ~Idle(w)
=================================================================================
