------------------------------- MODULE ViewSocket -------------------------------
(***************************************************************************)
(* The browser's end of a view: useATermWebSocket and                      *)
(* openWebSocketConnection (frontend/lib/hooks/use-a-term-websocket.ts,    *)
(* use-websocket-connection.ts), as components/ATerm.tsx uses them.        *)
(*                                                                         *)
(* Everything runs on the browser's one thread, a callback at a time; what *)
(* makes it hard is that sockets outlive the hook's interest in them.  A   *)
(* socket that was replaced still opens, fails and closes later, its timer *)
(* still fires, and all of them share one set of refs.                     *)
(*                                                                         *)
(* The refs and the state are one record; a callback is a function of it.  *)
(* A socket that closed and that nothing refers to any more stands for the *)
(* next one the hook creates.                                              *)
(***************************************************************************)
EXTENDS Naturals

CONSTANTS
  Sockets,       \* WebSocket objects
  NoSocket,      \* null
  MaxAttempts    \* MAX_RECONNECT_ATTEMPTS

ASSUME NoSocketAssumption == NoSocket \notin Sockets
ASSUME AttemptsAssumption == MaxAttempts \in Nat \ {0}

VARIABLES
  sock,     \* readyState of each socket
  hook,     \* the hook's refs, and what they lead to in the browser
  mounted,  \* mountedRef
  shown     \* isVisible && isReady in ATerm.tsx

vars == <<sock, hook, mounted, shown>>

\* ws, connecting, retries and the timer refs are the refs of the same name.  timeouts, retryTimers and pings are the timers the browser
\* holds, whether a ref still names them or not.
HookSet == [ws : Sockets \cup {NoSocket}, connecting : BOOLEAN,
            retries : 0..MaxAttempts,
            timeoutRef : Sockets \cup {NoSocket}, timeouts : SUBSET Sockets,
            retryRef : BOOLEAN, retryTimers : Nat,
            pingRef : Sockets \cup {NoSocket}, pings : SUBSET Sockets,
            status : {"connecting", "connected", "disconnected", "error",
                      "session_dead", "timeout"}]

Init ==
  /\ sock = [w \in Sockets |-> "closed"]
  /\ hook = [ws |-> NoSocket, connecting |-> FALSE, retries |-> 0,
             timeoutRef |-> NoSocket, timeouts |-> {},
             retryRef |-> FALSE, retryTimers |-> 0, pingRef |-> NoSocket,
             pings |-> {}, status |-> "connecting"]
  /\ mounted = TRUE
  /\ shown = FALSE

-------------------------------------------------------------------------------
(***************************************************************************)
(* The helpers the callbacks share.                                        *)
(***************************************************************************)

\* clearTimeout / clearInterval of what the ref names, and the ref set to null.
ClearTimeout(h) == [h EXCEPT !.timeouts = @ \ {h.timeoutRef}, !.timeoutRef = NoSocket]
ClearPing(h)    == [h EXCEPT !.pings = @ \ {h.pingRef}, !.pingRef = NoSocket]
ClearRetry(h)   ==
  [h EXCEPT !.retryTimers = IF h.retryRef THEN @ - 1 ELSE @, !.retryRef = FALSE]
ClearTimers(h)  == ClearPing(ClearRetry(ClearTimeout(h)))

\* Bug: the old socket is forgotten without being closed.
CloseNothing(h) == sock

\* ws.close() of the current socket, if there is one.
CloseCurrent(h) ==
  IF h.ws = NoSocket THEN sock ELSE [sock EXCEPT ![h.ws] = "closing"]

\* Bug: the attempts are not counted against the limit.
ScheduleForever(h, exhausted) ==
  [h EXCEPT !.retries = @ + 1, !.status = "connecting",
            !.retryRef = TRUE, !.retryTimers = @ + 1]

\* scheduleReconnect.
ScheduleReconnect(h, exhausted) ==
  IF h.retries < MaxAttempts
  THEN [h EXCEPT !.retries = @ + 1, !.status = "connecting",
                 !.retryRef = TRUE, !.retryTimers = @ + 1]
  ELSE [h EXCEPT !.status = exhausted]

\* Bug: a retry that is waiting is left to fire.
DisconnectKeepsRetry(h) ==
  [ClearPing(ClearTimeout(h)) EXCEPT !.connecting = FALSE, !.ws = NoSocket]

\* disconnect().
Disconnect(h) == [ClearTimers(h) EXCEPT !.connecting = FALSE, !.ws = NoSocket]

\* Bug: the new socket's timer is armed first, and cleared with the old ones.
OpenSocketThenClear(h, w) ==
  ClearTimers([h EXCEPT !.ws = w, !.connecting = TRUE,
                        !.timeoutRef = w, !.timeouts = @ \cup {w}])

\* openWebSocketConnection, the refs: the old socket and its timers go, the
\* new one gets a timer of its own.
OpenSocket(h, w) ==
  [ClearTimers(h) EXCEPT !.ws = w, !.connecting = TRUE,
                         !.timeoutRef = w, !.timeouts = @ \cup {w}]

\* Whether a socket stands for the next one: nothing refers to it any more.
Fresh(h, w) ==
  sock[w] = "closed" /\ w \notin h.timeouts \cup h.pings

\* connect(): nothing while an attempt is under way; else a new socket, unless
\* the WebSocket constructor throws.
Connect(h) ==
  IF h.connecting
  THEN hook' = h /\ UNCHANGED sock
  ELSE \/ \E w \in Sockets :
            /\ Fresh(h, w)
            /\ hook' = OpenSocket(h, w)
            /\ sock' = [CloseCurrent(hook) EXCEPT ![w] = "connecting"]
       \/ /\ hook' = [ClearTimers(h) EXCEPT !.ws = NoSocket, !.status = "error"]
          /\ sock' = CloseCurrent(hook)

\* reconnect().
Reconnect ==
  Connect([Disconnect(hook) EXCEPT !.retries = 0, !.status = "connecting"])

-------------------------------------------------------------------------------
(***************************************************************************)
(* The component.                                                          *)
(***************************************************************************)

\* The effect of ATerm.tsx: connect when shown, disconnect when hidden.
Show ==
  /\ mounted
  /\ ~shown
  /\ shown' = TRUE
  /\ Connect(hook)
  /\ UNCHANGED mounted

Hide ==
  /\ mounted
  /\ shown
  /\ shown' = FALSE
  /\ hook' = Disconnect(hook)
  /\ sock' = CloseCurrent(hook)
  /\ UNCHANGED mounted

\* The same effect when connect changes (another working directory): it does
\* nothing while an attempt is under way, even if that one is for the old one.
Change ==
  /\ mounted
  /\ shown
  /\ ~hook.connecting
  /\ Connect(hook)
  /\ UNCHANGED <<mounted, shown>>

\* The user taps "reconnect".
UserReconnects ==
  /\ mounted
  /\ Reconnect
  /\ UNCHANGED <<mounted, shown>>

\* The page becomes visible (a phone wakes), and there is no socket or one
\* that is on its way out.
PageVisible ==
  /\ mounted
  /\ \A w \in Sockets : hook.ws = w => sock[w] \in {"closing", "closed"}
  /\ Reconnect
  /\ UNCHANGED <<mounted, shown>>

Unmount ==
  /\ mounted
  /\ mounted' = FALSE
  /\ shown' = FALSE
  /\ hook' = Disconnect(hook)
  /\ sock' = CloseCurrent(hook)

-------------------------------------------------------------------------------
(***************************************************************************)
(* The timers.                                                             *)
(***************************************************************************)

\* The connection timer of w.
ConnectionTimeout(w) ==
  LET h == [hook EXCEPT !.timeouts = @ \ {w}]
      given == [h EXCEPT !.ws = NoSocket]
  IN /\ w \in hook.timeouts
     /\ IF hook.ws = w /\ sock[w] = "connecting"
        THEN /\ hook' = IF mounted THEN ScheduleReconnect(given, "timeout") ELSE given
             /\ sock' = [sock EXCEPT ![w] = "closing"]
        ELSE /\ hook' = h
             /\ UNCHANGED sock
     /\ UNCHANGED <<mounted, shown>>

\* A retry comes due.
Retry ==
  LET h == [hook EXCEPT !.retryTimers = @ - 1, !.retryRef = FALSE]
  IN /\ hook.retryTimers > 0
     /\ IF mounted THEN Connect(h) ELSE hook' = h /\ UNCHANGED sock
     /\ UNCHANGED <<mounted, shown>>

-------------------------------------------------------------------------------
(***************************************************************************)
(* The sockets.                                                            *)
(***************************************************************************)

\* onopen: a socket that is not the hook's any more is closed again.
Opens(w) ==
  /\ sock[w] = "connecting"
  /\ IF hook.ws # w
     THEN /\ sock' = [sock EXCEPT ![w] = "closing"]
          /\ UNCHANGED hook
     ELSE /\ sock' = [sock EXCEPT ![w] = "open"]
          /\ LET h == [hook EXCEPT !.connecting = FALSE,
                                   !.timeouts = @ \ {hook.timeoutRef}]
             IN hook' = IF mounted
                        THEN [h EXCEPT !.retries = 0, !.status = "connected",
                                       !.pings = @ \cup {w}, !.pingRef = w]
                        ELSE h
  /\ UNCHANGED <<mounted, shown>>

\* The server starts to close the connection: no event yet, and nothing is
\* received any more.
StartsClosing(w) ==
  /\ sock[w] = "open"
  /\ sock' = [sock EXCEPT ![w] = "closing"]
  /\ UNCHANGED <<hook, mounted, shown>>

\* What onclose and onerror do first: the socket and its timers are let go.
LetGo(h) == [ClearPing([h EXCEPT !.timeouts = @ \ {h.timeoutRef}])
               EXCEPT !.ws = NoSocket, !.connecting = FALSE]

\* The server, or ws.close(), closes the connection: onclose.
Closes(w, dead) ==
  /\ sock[w] \in {"open", "closing"}
  /\ sock' = [sock EXCEPT ![w] = "closed"]
  /\ hook' = IF hook.ws # w THEN hook
             ELSE IF ~mounted THEN LetGo(hook)
             ELSE IF dead THEN [LetGo(hook) EXCEPT !.status = "session_dead"]
             ELSE ScheduleReconnect(LetGo(hook), "disconnected")
  /\ UNCHANGED <<mounted, shown>>

\* The connection fails or is refused: onerror, then, in the same task, an
\* onclose that finds the ref empty.
Fails(w) ==
  /\ sock[w] \in {"connecting", "open", "closing"}
  /\ sock' = [sock EXCEPT ![w] = "closed"]
  /\ hook' = IF hook.ws # w THEN hook
             ELSE IF ~mounted THEN LetGo(hook)
             ELSE ScheduleReconnect(LetGo(hook), "error")
  /\ UNCHANGED <<mounted, shown>>

Timers == Retry \/ \E w \in Sockets : ConnectionTimeout(w)
Network == \E w \in Sockets :
  \/ Opens(w) \/ StartsClosing(w) \/ Fails(w)
  \/ \E dead \in BOOLEAN : Closes(w, dead)
Component == Show \/ Hide \/ Change \/ UserReconnects \/ PageVisible \/ Unmount

Next == Timers \/ Network \/ Component

Spec == Init /\ [][Next]_vars

\* The browser runs every timer that is due, and finishes closing a socket.
FairSpec ==
  /\ Spec
  /\ \A w \in Sockets : WF_vars(ConnectionTimeout(w))
  /\ \A w \in Sockets : WF_vars(sock[w] = "closing" /\ Closes(w, FALSE))

-------------------------------------------------------------------------------
(***************************************************************************)
(* Properties.                                                             *)
(***************************************************************************)

TypeOK ==
  /\ sock \in [Sockets -> {"connecting", "open", "closing", "closed"}]
  /\ hook \in HookSet
  /\ mounted \in BOOLEAN
  /\ shown \in BOOLEAN

\* The view never holds two connections: a socket that was replaced, timed out
\* or hidden is closed, however late it opens.  (Each one the server accepts
\* attaches a tmux client of its own.)
OneSocket == \A w \in Sockets : sock[w] \in {"connecting", "open"} => hook.ws = w

PingsAreLive == \A w \in hook.pings : hook.ws = w /\ hook.pingRef = w
OneRetry ==
  /\ hook.retryTimers = (IF hook.retryRef THEN 1 ELSE 0)
  /\ hook.retryTimers > 0 => hook.ws = NoSocket
QuietAfterUnmount ==
  ~mounted => /\ hook.retryTimers = 0 /\ hook.timeouts = {} /\ hook.pings = {}
              /\ \A w \in Sockets : sock[w] \in {"closing", "closed"}

\* No timer outlives what it was armed for, whatever order opens, closes, errors,
\* timeouts and the user came in: a keepalive runs only on the connection it was
\* started for; at most one retry waits, and none beside a connection, which it
\* would replace; and a view that is gone leaves no timer and no connection.
TimersAreOwned == PingsAreLive /\ OneRetry /\ QuietAfterUnmount

\* No attempt to connect hangs: a socket opens, fails, or is given up by its
\* timer, whatever replaced it meanwhile.
AttemptEnds(w) == (sock[w] = "connecting") ~> (sock[w] # "connecting")
AttemptsEnd == \A w \in Sockets : AttemptEnds(w)

\* "Set up connection timeout with exponential-backoff retry"
\* (use-websocket-connection.ts): while a view that is shown says it is
\* connecting, it is, or a retry is waiting.  It does not hold: see the README.
ConnectingMeansTrying ==
  mounted /\ shown /\ hook.status = "connecting"
    => hook.ws # NoSocket \/ hook.retryTimers > 0

===============================================================================
