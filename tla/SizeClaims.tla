-------------------------------- MODULE SizeClaims --------------------------------
(***************************************************************************)
(* Who sizes a session's window (use-a-term-resize.ts, ATerm.tsx, onopen   *)
(* of use-websocket-connection.ts, and _handle_resize_command on the       *)
(* server).  The views of a session share one tmux window: the last claim  *)
(* sizes it for all of them, and no later size of a client changes it.  So *)
(* a view claims when it becomes active and whenever its size settles.     *)
(*                                                                         *)
(* This is one view; others claim at any time (another device may have     *)
(* focus too).  The server handles the claims of one connection in order,  *)
(* those of several beside each other, each for as long as its attempts    *)
(* take.  The view renders some time after what it renders from has        *)
(* changed: `rendered' is what the closures and effects of the last commit *)
(* saw.                                                                    *)
(***************************************************************************)
EXTENDS Naturals, Sequences, Functions

CONSTANTS SizeCount,   \* sizes are 1..SizeCount
          MaxEvents    \* bound: changes of focus, visibility, size and connection

VARIABLES
  page,      \* isVisible, and whether the browser's window has focus and is visible
  size,      \* what proposeDimensions() answers
  link,      \* the hook's socket, and its status
  rendered,  \* what the last commit saw of page and status
  timers,    \* fitTimer and ptyTimer
  last,      \* lastClaimRef's size while it is of this socket, or 0
  way,       \* the sizes claimed on this socket that the server has not handled
  late,      \* those of other connections, its own earlier ones and other views' (0):
             \* of two of one size, the set keeps the one that is handled later
  window,    \* the size claimed last, or 0 for another view's
  beaten,    \* history: while the view was active, another connection's claim was
             \* handled, or its own was refused; and none of its own applied since
  events

vars == <<page, size, link, rendered, timers, last, way, late, window, beaten, events>>
server == <<late, window, beaten>>

ViewSizes == 1..SizeCount
None == 0

Owns(p) == p.shown /\ p.focused     \* ownsResize

Now == [shown |-> page.shown, focused |-> page.focused, connected |-> link.status = "connected"]

Init ==
  /\ page = [shown |-> FALSE, focused |-> FALSE]
  /\ size = 1
  /\ link = [socket |-> "none", status |-> "connecting"]
  /\ rendered = [shown |-> FALSE, focused |-> FALSE, connected |-> FALSE]
  /\ timers = {}
  /\ last = None /\ way = << >> /\ late = {} /\ window = None /\ beaten = FALSE
  /\ events = 0

Event == events < MaxEvents /\ events' = events + 1

-------------------------------------------------------------------------------
(***************************************************************************)
(* The user, the other views and the network.                              *)
(***************************************************************************)

FocusOrBlur ==
  /\ Event
  /\ page' = [page EXCEPT !.focused = ~@]
  /\ UNCHANGED <<size, link, rendered, timers, last, way, server>>

ShowOrHide ==
  /\ Event
  /\ page' = [page EXCEPT !.shown = ~@]
  /\ UNCHANGED <<size, link, rendered, timers, last, way, server>>

\* The ResizeObserver or the viewport calls scheduleResize; the size may be the same.
Resize ==
  /\ Event
  /\ page.shown
  /\ size' \in ViewSizes
  /\ timers' = timers \cup {"fit"}
  /\ UNCHANGED <<page, link, rendered, last, way, server>>

\* Another view sends a claim.
OtherClaims ==
  /\ late' = late \cup {None}
  /\ UNCHANGED <<page, size, link, rendered, timers, last, way, window, beaten, events>>

\* A socket of the view is gone; what was under way on it may still be handled.
LeavesBehind == late' = late \cup Range(way) /\ way' = << >>

\* The connection is lost.
Lost ==
  /\ Event
  /\ link.socket # "none"
  /\ link' = [socket |-> "none", status |-> "connecting"]
  /\ last' = None /\ beaten' = FALSE
  /\ LeavesBehind
  /\ UNCHANGED <<page, size, rendered, timers, window>>

-------------------------------------------------------------------------------
(***************************************************************************)
(* The view.                                                               *)
(***************************************************************************)

Retries ==
  /\ link.socket = "none" /\ rendered.shown
  /\ link' = [link EXCEPT !.socket = "connecting"]
  /\ UNCHANGED <<page, size, rendered, timers, last, way, server, events>>

\* onopen: a view that owned the size in its last render claims it with its
\* capabilities, without noting it in lastClaimRef.
Opens ==
  /\ link.socket = "connecting"
  /\ link' = [socket |-> "open", status |-> "connected"]
  /\ way' = IF Owns(rendered) THEN Append(way, size) ELSE way
  /\ UNCHANGED <<page, size, rendered, timers, last, server, events>>

\* sendClaim of a view that owns the size.
SendClaim(force) ==
  IF link.socket = "open" /\ (force \/ last # size)
  THEN last' = size /\ way' = Append(way, size)
  ELSE UNCHANGED <<last, way>>

\* fitTimer comes due: ptyTimer starts, again if it ran.
FitTimer ==
  /\ "fit" \in timers
  /\ timers' = {"pty"}
  /\ UNCHANGED <<page, size, link, rendered, last, way, server, events>>

\* ptyTimer comes due: flushPtyResize.
PtyTimer ==
  /\ "pty" \in timers
  /\ timers' = timers \ {"pty"}
  /\ IF Owns(rendered) THEN SendClaim(FALSE) ELSE UNCHANGED <<last, way>>
  /\ UNCHANGED <<page, size, link, rendered, server, events>>

\* Bug: a view that becomes active does not repeat the claim it made before.
ClaimOnActivationIfNew == SendClaim(FALSE)

\* handleResize.
ClaimOnActivation == SendClaim(TRUE)

\* A commit and its effects: connect or disconnect, which leaves the status alone;
\* when ownsResize changed, new closures and a new observer, whose first callback
\* schedules; and handleResize, when the view is active and was not.
Commit ==
  LET turned == Owns(rendered) # Owns(page)
      active == Owns(page) /\ Now.connected
      hides == rendered.shown /\ ~page.shown
      shows == ~rendered.shown /\ page.shown
  IN /\ rendered # Now /\ rendered' = Now
     /\ timers' = IF turned THEN {"fit"} ELSE timers
     /\ link' = [link EXCEPT !.socket = IF hides THEN "none"
                                        ELSE IF shows THEN "connecting" ELSE @]
     /\ IF hides THEN last' = None /\ LeavesBehind
        ELSE /\ IF active /\ (turned \/ ~rendered.connected) THEN ClaimOnActivation
                ELSE UNCHANGED <<last, way>>
             /\ UNCHANGED late
     /\ beaten' = (beaten /\ Owns(page))
     /\ UNCHANGED <<page, size, window, events>>

-------------------------------------------------------------------------------

Active == Owns(rendered) /\ link.socket = "open"

\* The server is done with the next claim of this socket, at whatever attempt: it is
\* applied or refused.  (ViewConnection has the attempts.)
HandlesClaim ==
  /\ way # << >>
  /\ way' = Tail(way)
  /\ \/ window' = Head(way) /\ beaten' = FALSE
     \/ window' = window /\ beaten' = Active
  /\ UNCHANGED <<page, size, link, rendered, timers, last, late, events>>

\* It is done with a claim of another connection.
HandlesLate ==
  \E claim \in late :
    /\ late' = late \ {claim}
    /\ \/ window' = claim /\ beaten' = (beaten \/ Active)
       \/ UNCHANGED <<window, beaten>>
    /\ UNCHANGED <<page, size, link, rendered, timers, last, way, events>>

Next ==
  \/ FocusOrBlur \/ ShowOrHide \/ Resize \/ OtherClaims \/ Lost
  \/ Retries \/ Opens \/ FitTimer \/ PtyTimer \/ Commit
  \/ HandlesClaim \/ HandlesLate

Spec == Init /\ [][Next]_vars

-------------------------------------------------------------------------------

\* The types of the variables.
TypeOK ==
  /\ page \in [shown : BOOLEAN, focused : BOOLEAN]
  /\ size \in ViewSizes
  /\ link \in [socket : {"none", "connecting", "open"}, status : {"connecting", "connected"}]
  /\ rendered \in [shown : BOOLEAN, focused : BOOLEAN, connected : BOOLEAN]
  /\ timers \subseteq {"fit", "pty"}
  /\ last \in ViewSizes \cup {None} /\ window \in ViewSizes \cup {None}
  /\ way \in Seq(ViewSizes) /\ late \subseteq ViewSizes \cup {None}
  /\ beaten \in BOOLEAN
  /\ events \in 0..MaxEvents

Rests == rendered = Now /\ timers = {} /\ way = << >>

\* Once an active, connected view has come to rest, the shared window has its size,
\* whatever focus, visibility, size and connection did under its timers and effects,
\* and whatever claims were handled while it was not active (the claims "filled the
\* difference with [tmux's] dot pattern" otherwise, use-a-term-resize.ts).  The
\* exception is `beaten': a claim handled for another connection while the view is
\* active, however long before it was sent, or one of its own refused; nothing tells
\* the view, which claims again with its next size, activation or connection.
ActiveViewSizes ==
  Rests /\ Owns(page) /\ link.socket = "open" => window = size \/ beaten
==================================================================================
