----------------------------- MODULE ViewConnection -----------------------------
(***************************************************************************)
(* The life of a view on the server: setup, messages and teardown          *)
(* (api/handlers/websocket_connection.py), the claim of the window's size  *)
(* (websocket_messages.py) and the tmux options views of a user's own      *)
(* session share (utils/tmux/external.py).  ControlTerminal has the stream *)
(* in between.                                                             *)
(*                                                                         *)
(* All views here are of one session.  Browsers go away at any moment,     *)
(* tmux commands fail, the session is respawned by others, and tmux ends   *)
(* the client.                                                             *)
(***************************************************************************)
EXTENDS Naturals, FiniteSets

CONSTANTS
  Views,         \* WebSocket connections
  ClaimAttempts, \* _CLAIM_ATTEMPTS
  MaxRespawns    \* bound: generations of the session

ASSUME ViewsAreFinite == IsFiniteSet(Views)
ASSUME ClaimsAreBounded == ClaimAttempts \in Nat /\ MaxRespawns \in Nat

VARIABLES
  kind,      \* "tether", or "external": the user's own session
  view,      \* view[v]: where its handler is, and its ViewContext
  browser,   \* views whose browser is there
  clients,   \* views with a tmux control client
  active,    \* metrics.active_connections
  refs,      \* refcount of the session's attach state (0: none)
  look,      \* the session's status and mouse options: the user's "own",
             \* "plain" (off) or "mixed"
  mishaps,   \* a command that should have restored them failed
  generation \* of the session

vars == <<kind, view, browser, clients, active, refs, look, mishaps, generation>>
options == <<refs, look, mishaps>>

Start == [at |-> "new", applied |-> FALSE, pending |-> FALSE, gen |-> 0,
          running |-> FALSE, output |-> FALSE, attempt |-> 0, reread |-> FALSE, claim |-> "none",
          respawned |-> FALSE]

Init ==
  /\ kind \in {"tether", "external"}
  /\ view = [v \in Views |-> Start]
  /\ browser = Views
  /\ clients = {} /\ active = 0
  /\ refs = 0 /\ look = "own" /\ mishaps = FALSE
  /\ generation = 1

Goes(v, at) == view' = [view EXCEPT ![v].at = at]

-------------------------------------------------------------------------------
(***************************************************************************)
(* The options of a session of the user's own.                             *)
(***************************************************************************)

\* apply_external_attach_options: whether it holds the options, and at what
\* point it failed.
Apply(applied) ==
  IF refs > 0
  THEN applied /\ refs' = refs + 1 /\ UNCHANGED <<look, mishaps>>
  ELSE \/ applied /\ refs' = 1 /\ look' = "plain" /\ UNCHANGED mishaps
       \/ ~applied /\ UNCHANGED options   \* not read, not set, or set back
       \/ ~applied /\ UNCHANGED refs /\ look' = "mixed" /\ mishaps' = TRUE

\* restore_external_attach_options: the last one restores.
Restore ==
  IF refs = 0 THEN UNCHANGED options
  ELSE IF refs > 1 THEN refs' = refs - 1 /\ UNCHANGED <<look, mishaps>>
  ELSE /\ refs' = 0
       /\ \/ look' = "own" /\ UNCHANGED mishaps
          \/ look' \in {"plain", "mixed"} /\ mishaps' = TRUE

-------------------------------------------------------------------------------
(***************************************************************************)
(* _setup_connection.                                                      *)
(***************************************************************************)

\* attach_plan; a session that is gone closes the socket.
Prepare(v) ==
  /\ view[v].at = "new"
  /\ \/ view' = [view EXCEPT ![v].at = IF kind = "external" THEN "options" ELSE "transport",
                             ![v].gen = generation]
     \/ Goes(v, "over")
  /\ UNCHANGED <<kind, browser, clients, active, options, generation>>

ApplyOptions(v) ==
  /\ view[v].at = "options"
  /\ \E applied \in BOOLEAN :
       /\ Apply(applied)
       /\ view' = [view EXCEPT ![v].at = "transport", ![v].applied = applied]
  /\ UNCHANGED <<kind, browser, clients, active, generation>>

\* _send_transport raises when the browser is gone.
SendTransport(v) ==
  /\ view[v].at = "transport"
  /\ Goes(v, IF v \in browser THEN "wait" ELSE "undo")
  /\ UNCHANGED <<kind, browser, clients, active, options, generation>>

\* Bug: only a size ends the wait.
FirstSizeOnly(v) == IF v \in browser THEN BOOLEAN ELSE {}

\* _wait_for_initial_resize: a size, with a claim or without, or none when only
\* capabilities came, the time is over or the browser went.
FirstSize(v) == IF v \in browser THEN BOOLEAN ELSE {FALSE}

FirstResize(v) ==
  /\ view[v].at = "wait"
  /\ \E claims \in FirstSize(v) :
       view' = [view EXCEPT ![v].at = "start", ![v].pending = claims]
  /\ UNCHANGED <<kind, browser, clients, active, options, generation>>

\* ControlTerminal.start.
StartControl(v) ==
  /\ view[v].at = "start"
  /\ \/ /\ clients' = clients \cup {v}
        /\ view' = [view EXCEPT ![v].at = IF view[v].pending THEN "claim" ELSE "ready",
                                ![v].pending = FALSE]
     \/ Goes(v, "undo") /\ UNCHANGED clients
  /\ UNCHANGED <<kind, browser, active, options, generation>>

\* The except of _setup_connection.
Undo(v) ==
  /\ view[v].at = "undo"
  /\ IF view[v].applied THEN Restore ELSE UNCHANGED options
  /\ Goes(v, "over")
  /\ UNCHANGED <<kind, browser, clients, active, generation>>

\* _run_session: the tasks start.
StartTasks(v) ==
  /\ view[v].at = "ready"
  /\ active' = active + 1
  /\ view' = [view EXCEPT ![v].at = "stream", ![v].running = TRUE, ![v].output = TRUE]
  /\ UNCHANGED <<kind, browser, clients, options, generation>>

-------------------------------------------------------------------------------
(***************************************************************************)
(* _claim_tether_size, in a thread the view's handler waits for.           *)
(***************************************************************************)

\* A resize with a claim, in the message loop.
AskClaim(v) ==
  /\ view[v].at = "stream"
  /\ v \in browser
  /\ view' = [view EXCEPT ![v].at = "claim"]
  /\ UNCHANGED <<kind, browser, clients, active, options, generation>>

\* What follows the claim: the setup goes on, or the next message.
Claimed(w, outcome) ==
  [w EXCEPT !.at = IF w.running THEN "stream" ELSE "ready", !.claim = outcome,
            !.attempt = 0, !.reread = FALSE, !.respawned = FALSE]

\* One attempt.
TryClaim(v) ==
  LET w == view[v]
      next == [w EXCEPT !.attempt = @ + 1]
  IN /\ w.at = "claim"
     /\ view' \in {[view EXCEPT ![v] = x] : x \in
          IF kind = "external" \/ w.attempt = ClaimAttempts THEN {Claimed(w, "refused")}
          ELSE IF w.gen # generation
          THEN {IF w.reread THEN Claimed(w, IF w.respawned THEN "overtaken" ELSE "stale")
                ELSE [next EXCEPT !.at = "reread", !.reread = TRUE]}
          ELSE {Claimed(w, "applied"), Claimed(w, "refused"),
                IF w.attempt + 1 < ClaimAttempts THEN next ELSE Claimed(w, "refused")}}
     /\ UNCHANGED <<kind, browser, clients, active, options, generation>>

\* Bug: the claim goes on with the generation it had.
RereadNothing(w) == [w EXCEPT !.at = "claim"]

\* _reread_generation.
Reread(w) == [w EXCEPT !.at = "claim", !.gen = generation, !.respawned = FALSE]

RereadGeneration(v) ==
  /\ view[v].at = "reread"
  /\ view' \in {[view EXCEPT ![v] = Reread(@)], [view EXCEPT ![v] = Claimed(@, "refused")]}
  /\ UNCHANGED <<kind, browser, clients, active, options, generation>>

-------------------------------------------------------------------------------
(***************************************************************************)
(* _run_message_loop and the teardown.                                     *)
(***************************************************************************)

\* receive() says that the browser is gone; the tasks are cancelled.
Disconnected(v) ==
  /\ view[v].at = "stream"
  /\ v \notin browser
  /\ view' = [view EXCEPT ![v].at = "close", ![v].output = FALSE]
  /\ UNCHANGED <<kind, browser, clients, active, options, generation>>

\* Bug: the control client is left to itself.
CloseNothing(v) == clients

\* control.close().
ClosedControl(v) == clients \ {v}

CloseControl(v) ==
  /\ view[v].at = "close"
  /\ clients' = ClosedControl(v)
  /\ Goes(v, "teardown")
  /\ UNCHANGED <<kind, browser, active, options, generation>>

\* _teardown_session_resources.
Teardown(v) ==
  /\ view[v].at = "teardown"
  /\ active' = active - 1
  /\ IF kind = "external" THEN Restore ELSE UNCHANGED options
  /\ Goes(v, "over")
  /\ UNCHANGED <<kind, browser, clients, generation>>

-------------------------------------------------------------------------------
(***************************************************************************)
(* The others.                                                             *)
(***************************************************************************)

BrowserGoes(v) ==
  /\ v \in browser
  /\ browser' = browser \ {v}
  /\ UNCHANGED <<kind, view, clients, active, options, generation>>

\* tmux ends the client: the batch loop sees the end of the stream, or its
\* socket fails, and it is over.
OutputEnds(v) ==
  /\ v \in clients
  /\ view[v].output
  /\ view' = [view EXCEPT ![v].output = FALSE]
  /\ UNCHANGED <<kind, browser, clients, active, options, generation>>

Respawn ==
  /\ kind = "tether"
  /\ generation <= MaxRespawns
  /\ generation' = generation + 1
  /\ view' = [v \in Views |-> [view[v] EXCEPT !.respawned = @ \/ view[v].at = "claim"]]
  /\ UNCHANGED <<kind, browser, clients, active, options>>

Handler(v) ==
  \/ Prepare(v) \/ ApplyOptions(v) \/ SendTransport(v) \/ FirstResize(v)
  \/ StartControl(v) \/ Undo(v) \/ StartTasks(v)
  \/ TryClaim(v) \/ RereadGeneration(v)
  \/ Disconnected(v) \/ CloseControl(v) \/ Teardown(v)

Next ==
  \/ \E v \in Views : Handler(v) \/ AskClaim(v) \/ BrowserGoes(v) \/ OutputEnds(v)
  \/ Respawn

Spec == Init /\ [][Next]_vars

\* Every handler runs on.
FairSpec == Spec /\ \A v \in Views : WF_vars(Handler(v))

-------------------------------------------------------------------------------
(***************************************************************************)
(* Properties.                                                             *)
(***************************************************************************)

TypeOK ==
  /\ kind \in {"tether", "external"}
  /\ view \in [Views ->
       [at : {"new", "options", "transport", "wait", "start", "undo", "claim", "reread",
              "ready", "stream", "close", "teardown", "over"},
        applied : BOOLEAN, pending : BOOLEAN, gen : 0..MaxRespawns + 1,
        running : BOOLEAN, output : BOOLEAN, attempt : 0..ClaimAttempts, reread : BOOLEAN,
        claim : {"none", "applied", "refused", "overtaken", "stale"}, respawned : BOOLEAN]]
  /\ browser \subseteq Views /\ clients \subseteq Views
  /\ active \in 0..Cardinality(Views) /\ refs \in 0..Cardinality(Views)
  /\ look \in {"own", "plain", "mixed"} /\ mishaps \in BOOLEAN
  /\ generation \in 1..MaxRespawns + 1

\* "A changed generation is re-read once" (websocket_messages.py): a claim ends
\* as stale only if the session was respawned again after that.
OneRespawnIsFollowed == \A v \in Views : view[v].claim # "stale"

\* However a view ends, at any stage and with any command failing, it leaves neither tmux
\* client nor output task behind; and when all are over, no count is left and the user's
\* session looks as it did before.
EndedViewsLeaveNothing ==
  \A v \in Views : view[v].at = "over" =>
    /\ v \notin clients /\ ~view[v].output
    /\ (\A w \in Views : view[w].at = "over")
         => active = 0 /\ refs = 0 /\ (look = "own" \/ mishaps)

\* A view comes to its end when its browser is gone, wherever its handler is then.
BrowserEndEndsView == \A v \in Views : (v \notin browser) ~> (view[v].at = "over")

\* "Set up and stream a view until the browser or tmux goes away"
\* (websocket_connection.py).  It does not hold: see the README.
TmuxEndEndsView ==
  \A v \in Views : (view[v].at = "stream" /\ ~view[v].output) ~> (view[v].at = "over")
===============================================================================
