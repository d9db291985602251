------------------------------- MODULE AutoCreate -------------------------------
(***************************************************************************)
(* The pane a window makes for itself when it has none                     *)
(* (lib/hooks/use-auto-create-pane.ts), with what changes its inputs: the  *)
(* pane list and the mutations of use-a-term-panes.ts, and the user who    *)
(* adds a pane, closes one or closes all (a-term-handler-actions.ts).      *)
(*                                                                         *)
(* The effect runs again when an input changed, and the cleanup of its     *)
(* last run comes first.  What it started goes on meanwhile: a count, then *)
(* a create.  (createAndFocusPane is another function at every render,     *)
(* which makes the effect run more often still; left out.)                 *)
(***************************************************************************)
EXTENDS Integers

CONSTANT MaxPanes   \* bound: panes ever created

VARIABLES
  server,     \* the window's panes on the server; a pane is its number
  elsewhere,  \* another window has panes
  born,       \* panes ever created
  fetch,      \* the list under way: what the server answered, or None
  loaded,     \* hasLoadedOnce
  panes,      \* the panes the window shows
  external,   \* hasVisibleExternalSlot
  creating,   \* isPaneCreating: whose create the mutation last began, or "none"
  user,       \* the user's request
  ref,        \* isAutoCreatingRef
  prev,       \* prevPanesLengthRef, as panes (None: the initial load is not processed)
  due,        \* an input changed: the effect is to run
  flow,       \* what the effect started
  newPane,    \* a set with the pane it made, or {}
  cancelled,  \* the run that started it has been cleaned up
  before      \* history: panes shown when the effect last ran

window == <<loaded, panes, external>>
effect == <<ref, prev, due, flow, newPane, cancelled, before>>
vars == <<server, elsewhere, born, fetch, window, creating, user, effect>>

None == {0}   \* no list

\* A request of the user: the step it is at, the panes it has yet to close (or the one it
\* made), and whether a new pane follows the last of them.
Idle == [pc |-> "idle", left |-> {}, adds |-> FALSE]

Init ==
  /\ born \in {0, 1} /\ server = 1..born /\ elsewhere \in BOOLEAN
  /\ fetch = None
  /\ loaded = FALSE /\ panes = {} /\ external = FALSE
  /\ creating = "none" /\ user = Idle
  /\ ref = FALSE /\ prev = None /\ due = FALSE /\ flow = "none" /\ newPane = {}
  /\ cancelled = FALSE /\ before = {}

\* The window shows these panes from here on.
Shows(ps) == panes' = ps /\ due' = (due \/ ps # panes)

-------------------------------------------------------------------------------
(***************************************************************************)
(* The list, and what others do.                                           *)
(***************************************************************************)

\* The query reads the list, at its interval or because it was invalidated.
Fetch ==
  /\ fetch = None
  /\ fetch' = server
  /\ UNCHANGED <<server, elsewhere, born, window, creating, user, effect>>

Listed ==
  /\ fetch # None
  /\ fetch' = None
  /\ loaded' = TRUE
  /\ panes' = fetch
  /\ due' = (due \/ ~loaded \/ fetch # panes)
  /\ UNCHANGED <<server, elsewhere, born, external, creating, user, ref, prev, flow,
                 newPane, cancelled, before>>

\* Another window opens its first pane or closes its last.
OtherWindow ==
  /\ elsewhere' = ~elsewhere
  /\ UNCHANGED <<server, born, fetch, window, creating, user, effect>>

\* A session of another app is attached to the window, or let go.
ExternalSlot ==
  /\ external' = ~external
  /\ due' = TRUE
  /\ UNCHANGED <<server, elsewhere, born, fetch, loaded, panes, creating, user, ref, prev, flow,
                 newPane, cancelled, before>>

-------------------------------------------------------------------------------
(***************************************************************************)
(* Requests, the user's and the effect's.                                  *)
(***************************************************************************)

\* mutateAsync of the create mutation.
BeginCreate(who) == creating' = who /\ due' = (due \/ creating = "none")

\* The server makes the pane.
Born == /\ born < MaxPanes /\ born' = born + 1
        /\ server' = server \cup {born'}

\* Bug: a list that is under way is not read again.
AnsweredKeepsList(who, made, ok) ==
  /\ creating' = IF creating = who THEN "none" ELSE creating
  /\ IF ok THEN panes' = panes \cup made ELSE UNCHANGED panes
  /\ due' = (due \/ panes' # panes \/ creating = who)
  /\ UNCHANGED fetch

\* The answer to a create (onSuccess: upsertPane, and a list under way is read again), or
\* its failure.
Answered(who, made, ok) ==
  /\ creating' = IF creating = who THEN "none" ELSE creating
  /\ IF ok THEN panes' = panes \cup made /\ fetch' = None ELSE UNCHANGED <<panes, fetch>>
  /\ due' = (due \/ panes' # panes \/ creating = who)

\* addAdHocPaneAction, and the end of closeAllPanesAction.
UserAdds ==
  /\ loaded
  /\ user = Idle \/ (user.pc = "next" /\ user.left = {} /\ user.adds)
  /\ user' = [user EXCEPT !.pc = "create"]
  /\ BeginCreate("user")
  /\ UNCHANGED <<server, elsewhere, born, fetch, window, ref, prev, flow, newPane, cancelled,
                 before>>

UserPaneBorn ==
  /\ user.pc = "create"
  /\ Born
  /\ user' = [user EXCEPT !.pc = "created", !.left = {born'}]
  /\ UNCHANGED <<elsewhere, fetch, window, creating, effect>>

\* Refused, answered, or made without the browser hearing of it.
UserAnswered ==
  /\ \/ user.pc = "create" /\ Answered("user", {}, FALSE)
     \/ user.pc = "created" /\ \E ok \in BOOLEAN : Answered("user", user.left, ok)
  /\ user' = Idle
  /\ UNCHANGED <<server, elsewhere, born, loaded, external, ref, prev, flow, newPane, cancelled,
                 before>>

\* The user closes a pane, or all that are shown (closeAllPanesAction).
UserCloses ==
  /\ user = Idle
  /\ \/ \E p \in panes : user' = [pc |-> "delete", left |-> {p}, adds |-> FALSE]
     \/ panes # {} /\ user' = [pc |-> "delete", left |-> panes, adds |-> TRUE]
  /\ UNCHANGED <<server, elsewhere, born, fetch, window, creating, effect>>

\* The one whose turn it is.
First == CHOOSE p \in user.left : TRUE

CloseAllGoesOn ==
  /\ user.pc = "next"
  /\ user.left # {}
  /\ user' = [user EXCEPT !.pc = "delete"]
  /\ UNCHANGED <<server, elsewhere, born, fetch, window, creating, effect>>

Deleted ==
  /\ user.pc = "delete"
  /\ First \in server
  /\ server' = server \ {First}
  /\ user' = [user EXCEPT !.pc = "deleted"]
  /\ UNCHANGED <<elsewhere, born, fetch, window, creating, effect>>

\* The answer: the list loses the pane.  A request that fails, or names a pane
\* that is gone, ends what the user asked for.
DeleteAnswered ==
  /\ \/ /\ user.pc = "deleted"
        /\ Shows(panes \ {First})
        /\ fetch' = None
        /\ user' = IF ~user.adds THEN Idle
                   ELSE [user EXCEPT !.pc = "next", !.left = @ \ {First}]
     \/ /\ user.pc \in {"delete", "deleted"}
        /\ user' = Idle
        /\ UNCHANGED <<panes, due, fetch>>
  /\ UNCHANGED <<server, elsewhere, born, loaded, external, creating, ref, prev, flow,
                 newPane, cancelled, before>>

-------------------------------------------------------------------------------
(***************************************************************************)
(* The effect.                                                             *)
(***************************************************************************)

\* The two cases that start a flow, once the early returns are passed.
InitialLoad == prev = None /\ panes = {} /\ ~external
LastPaneClosed == prev \notin {None, {}} /\ panes = {} /\ ~external

Effect ==
  /\ due
  /\ due' = FALSE
  /\ before' = panes
  /\ IF ~loaded \/ creating # "none" \/ ref
     THEN /\ cancelled' = (flow # "none")
          /\ UNCHANGED <<ref, prev, flow>>
     ELSE /\ prev' = panes
          /\ IF InitialLoad \/ LastPaneClosed
             THEN ref' = TRUE /\ flow' = "count" /\ cancelled' = FALSE
             ELSE cancelled' = (flow # "none") /\ UNCHANGED <<ref, flow>>
  /\ UNCHANGED <<server, elsewhere, born, fetch, window, creating, user, newPane>>

\* The finally of the flow: a run that was cleaned up leaves the ref alone.
Ends ==
  /\ flow' = "none" /\ newPane' = {}
  /\ ref' = (ref /\ cancelled)
  /\ cancelled' = FALSE

\* shouldAutoCreate: GET /panes/count, over all windows.
ShouldAutoCreate == server = {} /\ ~elsewhere

\* The server counts.
Counts ==
  /\ flow = "count"
  /\ flow' = IF ShouldAutoCreate THEN "counted" ELSE "enough"
  /\ UNCHANGED <<server, elsewhere, born, fetch, window, creating, user, ref, prev, due, newPane,
                 cancelled, before>>

\* The count is known: none, so create; some, or a failure, so be done.
Counted ==
  \/ /\ flow = "counted"
     /\ flow' = "create"
     /\ BeginCreate("auto")
     /\ UNCHANGED <<server, elsewhere, born, fetch, window, user, ref, prev, newPane, cancelled,
                    before>>
  \/ /\ flow \in {"count", "counted", "enough"}
     /\ Ends
     /\ UNCHANGED <<server, elsewhere, born, fetch, window, creating, user, prev, due, before>>

AutoPaneBorn ==
  /\ flow = "create"
  /\ Born
  /\ flow' = "created" /\ newPane' = {born'}
  /\ UNCHANGED <<elsewhere, fetch, window, creating, user, ref, prev, due, cancelled, before>>

AutoAnswered ==
  /\ \/ flow = "create" /\ Answered("auto", {}, FALSE)
     \/ flow = "created" /\ \E ok \in BOOLEAN : Answered("auto", newPane, ok)
  /\ Ends
  /\ UNCHANGED <<server, elsewhere, born, loaded, external, user, prev, before>>

Next ==
  \/ Fetch \/ Listed \/ OtherWindow \/ ExternalSlot
  \/ UserAdds \/ UserPaneBorn \/ UserAnswered
  \/ UserCloses \/ CloseAllGoesOn \/ Deleted \/ DeleteAnswered
  \/ Effect \/ Counts \/ Counted \/ AutoPaneBorn \/ AutoAnswered

Spec == Init /\ [][Next]_vars

\* A browser that renders, and runs the effect, before anything else happens.
PromptSpec == Init /\ [][Next /\ (due => Effect)]_vars

-------------------------------------------------------------------------------
(***************************************************************************)
(* Properties.                                                             *)
(***************************************************************************)

PaneIds == 1..MaxPanes

TypeOK ==
  /\ {server, panes, before, newPane} \subseteq SUBSET PaneIds /\ born \in 0..MaxPanes
  /\ {fetch, prev} \subseteq (SUBSET PaneIds) \cup {None}
  /\ elsewhere \in BOOLEAN /\ loaded \in BOOLEAN /\ external \in BOOLEAN
  /\ creating \in {"none", "user", "auto"}
  /\ user \in [pc : {"idle", "create", "created", "delete", "deleted", "next"},
              left : SUBSET PaneIds, adds : BOOLEAN]
  /\ ref \in BOOLEAN /\ due \in BOOLEAN /\ cancelled \in BOOLEAN
  /\ flow \in {"none", "count", "counted", "enough", "create", "created"}

\* A pane that is shown stays shown while the server has it: a list that was read before
\* a pane was made, and is answered after it, does not take it away again, which to the
\* effect would be the close of the last pane.
ShownWhileThere == [][\A p \in panes \ panes' : p \notin server]_vars

\* What the hook says of itself: it creates when "Last pane is closed (N→0
\* transition)" (use-auto-create-pane.ts).  It does not hold: see the README.
LastCloseCreates ==
  [][Effect /\ loaded /\ creating = "none" /\ ~external /\ before # {} /\ panes = {}
       /\ flow = "none"
     => flow' = "count"]_vars
===================================================================================
