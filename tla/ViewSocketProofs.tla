---------------------------- MODULE ViewSocketProofs ----------------------------
(***************************************************************************)
(* Proofs about ViewSocket: its types, one socket, live keepalives, one    *)
(* retry, and nothing left behind, from one inductive invariant.           *)
(*                                                                         *)
(* The refs name every timer that is armed (Tidy).  Only then does clearing*)
(* what the refs name clear everything, which is what replacing a socket   *)
(* and leaving the view rely on.                                           *)
(***************************************************************************)
EXTENDS ViewSocket, TLAPS

States == {"connecting", "open", "closing", "closed"}
Trying == {"connecting", "open"}

\* The refs name the timers that are armed.
Tidy(h) ==
  /\ h.timeouts \subseteq {h.timeoutRef}
  /\ h.pings \subseteq {h.pingRef}
  /\ h.retryTimers = (IF h.retryRef THEN 1 ELSE 0)

\* The hook against the sockets.
Safe(h, sk) ==
  /\ Tidy(h)
  /\ h.retryTimers > 0 => h.ws = NoSocket
  /\ \A w \in h.pings : h.ws = w /\ sk[w] \in {"open", "closing"}
  /\ \A w \in Sockets : sk[w] \in Trying => h.ws = w

\* A view that is gone refers to nothing.
Gone(h, sk) ==
  /\ h.ws = NoSocket
  /\ h.retryTimers = 0 /\ h.timeouts = {} /\ h.pings = {}
  /\ \A w \in Sockets : sk[w] \in {"closing", "closed"}

IInv ==
  /\ TypeOK
  /\ Safe(hook, sock)
  /\ ~mounted => Gone(hook, sock)

-------------------------------------------------------------------------------
(***************************************************************************)
(* The helpers.                                                            *)
(***************************************************************************)

\* Clearing what the refs name leaves no timer, and nothing else changes.
LEMMA TimersCleared ==
  ASSUME NEW h \in HookSet, Tidy(h)
  PROVE  /\ ClearTimers(h) \in HookSet
         /\ ClearTimers(h).timeouts = {}
         /\ ClearTimers(h).pings = {}
         /\ ClearTimers(h).retryTimers = 0
         /\ ClearTimers(h).retryRef = FALSE
<1> DEFINE a == ClearTimeout(h)
<1>1. /\ a \in HookSet /\ a.timeouts = {}
      /\ a.pings = h.pings /\ a.pingRef = h.pingRef
      /\ a.retryTimers = h.retryTimers /\ a.retryRef = h.retryRef
  BY DEF ClearTimeout, HookSet, Tidy
<1>2. ClearRetry(a) \in HookSet /\ ClearRetry(a).timeouts = {}
      /\ ClearRetry(a).pings = a.pings /\ ClearRetry(a).pingRef = a.pingRef
      /\ ClearRetry(a).retryTimers = 0 /\ ClearRetry(a).retryRef = FALSE
  <2>1. (IF a.retryRef THEN a.retryTimers - 1 ELSE a.retryTimers) = 0
    BY <1>1 DEF Tidy
  <2> HIDE DEF a
  <2> DEFINE r == [a EXCEPT !.retryTimers = 0, !.retryRef = FALSE]
  <2>2. ClearRetry(a) = r
    BY <2>1 DEF ClearRetry
  <2>3. r \in HookSet
    BY <1>1 DEF HookSet
  <2>4. r.timeouts = {} /\ r.pings = a.pings /\ r.pingRef = a.pingRef
        /\ r.retryTimers = 0 /\ r.retryRef = FALSE
    BY <1>1 DEF HookSet
  <2> HIDE DEF r
  <2> QED BY <2>2, <2>3, <2>4
<1> DEFINE b == ClearRetry(a)
<1>3. ClearPing(b) \in HookSet /\ ClearPing(b).timeouts = {}
      /\ ClearPing(b).pings = {}
      /\ ClearPing(b).retryTimers = 0 /\ ClearPing(b).retryRef = FALSE
  <2> HIDE DEF a, b
  <2>1. b \in HookSet /\ b.timeouts = {} /\ b.retryTimers = 0 /\ b.retryRef = FALSE
        /\ b.pings \subseteq {b.pingRef}
    BY <1>1, <1>2 DEF a, b, Tidy
  <2> QED BY <2>1 DEF ClearPing, HookSet
<1> QED BY <1>3 DEF ClearTimers

\* disconnect() lets go of the socket and of every timer.
LEMMA Disconnected ==
  ASSUME NEW h \in HookSet, Tidy(h)
  PROVE  /\ Disconnect(h) \in HookSet
         /\ Tidy(Disconnect(h))
         /\ Disconnect(h).ws = NoSocket
         /\ Disconnect(h).connecting = FALSE
         /\ Disconnect(h).timeouts = {}
         /\ Disconnect(h).pings = {}
         /\ Disconnect(h).retryTimers = 0
<1> DEFINE c == ClearTimers(h)
<1>1. c \in HookSet /\ c.timeouts = {} /\ c.pings = {} /\ c.retryTimers = 0 /\ c.retryRef = FALSE
  BY TimersCleared
<1> HIDE DEF c
<1>2. Disconnect(h) = [c EXCEPT !.connecting = FALSE, !.ws = NoSocket]
  BY DEF Disconnect, c
<1> QED BY <1>1, <1>2 DEF HookSet, Tidy

\* close() of the current socket: none is left that connects or is open.
LEMMA CurrentClosed ==
  ASSUME TypeOK, Safe(hook, sock)
  PROVE  /\ CloseCurrent(hook) \in [Sockets -> States]
         /\ \A w \in Sockets : CloseCurrent(hook)[w] \in {"closing", "closed"}
BY NoSocketAssumption DEF TypeOK, Safe, CloseCurrent, HookSet, States, Trying

\* connect(), from the refs as they are or with the socket let go of.
LEMMA ConnectSafe ==
  ASSUME TypeOK, Safe(hook, sock),
         NEW h \in HookSet, Tidy(h), h.connecting => Safe(h, sock), Connect(h)
  PROVE  /\ hook' \in HookSet
         /\ sock' \in [Sockets -> States]
         /\ Safe(hook', sock')
<1>1. CASE h.connecting
  BY <1>1 DEF Connect, TypeOK, States
<1> DEFINE c == ClearTimers(h)
<1>2. c \in HookSet /\ c.timeouts = {} /\ c.pings = {} /\ c.retryTimers = 0 /\ c.retryRef = FALSE
  BY TimersCleared
<1>3. ASSUME NEW w \in Sockets, hook' = OpenSocket(h, w),
             sock' = [CloseCurrent(hook) EXCEPT ![w] = "connecting"]
      PROVE  hook' \in HookSet /\ sock' \in [Sockets -> States] /\ Safe(hook', sock')
  <2>1. hook' = [c EXCEPT !.ws = w, !.connecting = TRUE, !.timeoutRef = w,
                          !.timeouts = @ \cup {w}]
    BY <1>3 DEF OpenSocket, c
  <2> HIDE DEF c
  <2>2. hook' \in HookSet /\ hook'.ws = w /\ hook'.timeouts = {w} /\ hook'.timeoutRef = w
        /\ hook'.pings = {} /\ hook'.retryTimers = 0 /\ hook'.retryRef = FALSE
    BY <1>2, <2>1 DEF HookSet
  <2>3. sock' \in [Sockets -> States] /\ \A v \in Sockets : sock'[v] \in Trying => v = w
    BY <1>3, CurrentClosed DEF States, Trying
  <2> QED BY <2>2, <2>3 DEF Safe, Tidy
<1>4. ASSUME hook' = [ClearTimers(h) EXCEPT !.ws = NoSocket, !.status = "error"],
             sock' = CloseCurrent(hook)
      PROVE  hook' \in HookSet /\ sock' \in [Sockets -> States] /\ Safe(hook', sock')
  <2>1. hook' = [c EXCEPT !.ws = NoSocket, !.status = "error"]
    BY <1>4 DEF c
  <2> HIDE DEF c
  <2>2. hook' \in HookSet /\ hook'.timeouts = {} /\ hook'.pings = {}
        /\ hook'.retryTimers = 0 /\ hook'.retryRef = FALSE
    BY <1>2, <2>1 DEF HookSet
  <2> QED BY <1>4, <2>2, CurrentClosed DEF Safe, Tidy, Trying
<1> QED BY <1>1, <1>3, <1>4 DEF Connect

\* reconnect().
LEMMA ReconnectSafe ==
  ASSUME TypeOK, Safe(hook, sock), Reconnect
  PROVE  /\ hook' \in HookSet
         /\ sock' \in [Sockets -> States]
         /\ Safe(hook', sock')
<1> DEFINE d == Disconnect(hook)
<1>1. d \in HookSet /\ Tidy(d) /\ d.connecting = FALSE
  BY Disconnected DEF TypeOK, Safe
<1> DEFINE h == [d EXCEPT !.retries = 0, !.status = "connecting"]
<1>2. Connect(h)
  BY DEF Reconnect
<1> HIDE DEF d
<1>3. h \in HookSet /\ Tidy(h) /\ h.connecting = FALSE
  <2>1. 0 \in 0..MaxAttempts
    BY AttemptsAssumption
  <2>2. h \in HookSet
    BY <1>1, <2>1 DEF HookSet
  <2>3. /\ h.timeouts = d.timeouts /\ h.timeoutRef = d.timeoutRef
        /\ h.pings = d.pings /\ h.pingRef = d.pingRef
        /\ h.retryTimers = d.retryTimers /\ h.retryRef = d.retryRef
        /\ h.connecting = d.connecting
    BY <1>1 DEF HookSet
  <2> HIDE DEF h
  <2> QED BY <1>1, <2>2, <2>3 DEF Tidy
<1> HIDE DEF h
<1> QED BY <1>2, <1>3, ConnectSafe

\* A retry is scheduled only when there is no socket and none is waiting.
LEMMA Rescheduled ==
  ASSUME NEW h \in HookSet, NEW sk, Safe(h, sk), h.ws = NoSocket, h.retryTimers = 0,
         NEW st \in {"timeout", "disconnected", "error"}
  PROVE  ScheduleReconnect(h, st) \in HookSet /\ Safe(ScheduleReconnect(h, st), sk)
<1> DEFINE g == [h EXCEPT !.retries = h.retries + 1, !.status = "connecting",
                          !.retryRef = TRUE, !.retryTimers = 1]
<1>1. /\ h.retries \in 0..MaxAttempts
      /\ h.retries < MaxAttempts => h.retries + 1 \in 0..MaxAttempts
  BY AttemptsAssumption DEF HookSet
<1>2. CASE h.retries < MaxAttempts
  <2>1. ScheduleReconnect(h, st) = g
    BY <1>2 DEF ScheduleReconnect
  <2>2. g \in HookSet
    BY <1>1, <1>2 DEF HookSet
  <2>3. /\ g.retryTimers = 1 /\ g.retryRef = TRUE /\ g.ws = h.ws
        /\ g.timeouts = h.timeouts /\ g.timeoutRef = h.timeoutRef
        /\ g.pings = h.pings /\ g.pingRef = h.pingRef
    BY DEF HookSet
  <2> HIDE DEF g
  <2> QED BY <2>1, <2>2, <2>3 DEF Safe, Tidy
<1>3. CASE ~(h.retries < MaxAttempts)
  <2>1. ScheduleReconnect(h, st) = [h EXCEPT !.status = st]
    BY <1>3 DEF ScheduleReconnect
  <2> QED BY <2>1 DEF HookSet, Safe, Tidy
<1> QED BY <1>2, <1>3

\* A socket that ended is let go of, with its timers.
LEMMA SocketLetGo ==
  ASSUME TypeOK, Safe(hook, sock), NEW w \in Sockets, hook.ws = w,
         sock' = [sock EXCEPT ![w] = "closed"]
  PROVE  /\ LetGo(hook) \in HookSet
         /\ Safe(LetGo(hook), sock')
         /\ LetGo(hook).ws = NoSocket
         /\ LetGo(hook).retryTimers = 0
<1> DEFINE h == [hook EXCEPT !.timeouts = @ \ {hook.timeoutRef}]
<1>1. h \in HookSet /\ h.timeouts = {} /\ h.pings \subseteq {h.pingRef}
      /\ h.retryTimers = 0 /\ h.retryRef = FALSE /\ h.timeoutRef = hook.timeoutRef
  BY NoSocketAssumption DEF TypeOK, HookSet, Safe, Tidy
<1>2. LetGo(hook) = [ClearPing(h) EXCEPT !.ws = NoSocket, !.connecting = FALSE]
  BY DEF LetGo
<1> HIDE DEF h
<1>3. LetGo(hook) \in HookSet /\ LetGo(hook).ws = NoSocket /\ LetGo(hook).pings = {}
      /\ LetGo(hook).timeouts = {} /\ LetGo(hook).retryTimers = 0 /\ LetGo(hook).retryRef = FALSE
  <2> DEFINE q == ClearPing(h)
  <2>1. q \in HookSet /\ q.pings = {} /\ q.timeouts = {} /\ q.retryTimers = 0
        /\ q.retryRef = FALSE
    BY <1>1 DEF ClearPing, HookSet
  <2> HIDE DEF q
  <2>2. LetGo(hook) = [q EXCEPT !.ws = NoSocket, !.connecting = FALSE]
    BY <1>2 DEF q
  <2> QED BY <2>1, <2>2 DEF HookSet
<1>4. \A v \in Sockets : sock'[v] \notin Trying
  BY DEF TypeOK, Safe, Trying
<1> QED BY <1>3, <1>4 DEF Safe, Tidy

-------------------------------------------------------------------------------
(***************************************************************************)
(* The invariant.                                                          *)
(***************************************************************************)
LEMMA InitIInv == Init => IInv
<1> SUFFICES ASSUME Init PROVE IInv
  OBVIOUS
<1>1. 0 \in 0..MaxAttempts
  BY AttemptsAssumption
<1>2. hook \in HookSet
  BY <1>1 DEF Init, HookSet
<1>3. /\ hook.timeouts = {} /\ hook.pings = {}
      /\ hook.retryTimers = 0 /\ hook.retryRef = FALSE
  BY DEF Init
<1>4. /\ sock \in [Sockets -> {"connecting", "open", "closing", "closed"}]
      /\ \A w \in Sockets : sock[w] \notin Trying
      /\ mounted = TRUE /\ shown = FALSE
  BY DEF Init, Trying
<1>5. TypeOK
  BY <1>2, <1>4 DEF TypeOK
<1>6. Safe(hook, sock)
  BY <1>3, <1>4 DEF Safe, Tidy
<1> QED BY <1>4, <1>5, <1>6 DEF IInv

\* The component's own calls.
LEMMA ComponentIInv == IInv /\ Component => IInv'
<1> SUFFICES ASSUME IInv, Component PROVE IInv'
  OBVIOUS
<1> USE DEF IInv
<1>1. CASE Show \/ Change
  <2>1. Connect(hook) /\ mounted' = TRUE /\ shown' \in BOOLEAN
    BY <1>1 DEF Show, Change, TypeOK
  <2> QED BY <2>1, ConnectSafe DEF TypeOK, Safe, States
<1>2. CASE UserReconnects \/ PageVisible
  <2>1. Reconnect /\ mounted' = TRUE /\ shown' \in BOOLEAN
    BY <1>2 DEF UserReconnects, PageVisible, TypeOK
  <2> QED BY <2>1, ReconnectSafe DEF TypeOK, States
<1>3. CASE Hide \/ Unmount
  <2>1. hook' = Disconnect(hook) /\ sock' = CloseCurrent(hook)
        /\ mounted' \in BOOLEAN /\ shown' \in BOOLEAN
    BY <1>3 DEF Hide, Unmount, TypeOK
  <2>2. hook' \in HookSet /\ Tidy(hook') /\ hook'.ws = NoSocket /\ hook'.timeouts = {}
        /\ hook'.pings = {} /\ hook'.retryTimers = 0
    BY <2>1, Disconnected DEF TypeOK, Safe
  <2>3. sock' \in [Sockets -> States]
        /\ \A w \in Sockets : sock'[w] \in {"closing", "closed"}
    BY <2>1, CurrentClosed
  <2>4. Safe(hook', sock') /\ Gone(hook', sock')
    BY <2>2, <2>3 DEF Safe, Gone, Trying
  <2> QED BY <2>1, <2>2, <2>3, <2>4 DEF TypeOK, States
<1> QED BY <1>1, <1>2, <1>3 DEF Component

\* The timers.
LEMMA TimersIInv == IInv /\ Timers => IInv'
<1> SUFFICES ASSUME IInv, Timers PROVE IInv'
  OBVIOUS
<1> USE DEF IInv
<1>1. CASE Retry
  <2> DEFINE h == [hook EXCEPT !.retryTimers = @ - 1, !.retryRef = FALSE]
  <2>1. mounted /\ Connect(h) /\ UNCHANGED <<mounted, shown>>
    BY <1>1 DEF Retry, Gone
  <2>2. hook.retryTimers = 1 /\ hook.retryTimers - 1 = 0 /\ hook.ws = NoSocket
    BY <1>1 DEF Retry, TypeOK, HookSet, Safe, Tidy
  <2> DEFINE r == [hook EXCEPT !.retryTimers = 0, !.retryRef = FALSE]
  <2>3. h = r
    BY <2>2
  <2> HIDE DEF h
  <2>4. h \in HookSet /\ h.retryTimers = 0 /\ h.retryRef = FALSE
        /\ h.timeouts = hook.timeouts /\ h.timeoutRef = hook.timeoutRef
        /\ h.pings = hook.pings /\ h.pingRef = hook.pingRef /\ h.ws = hook.ws
    BY <2>3 DEF TypeOK, HookSet
  <2>5. Tidy(h) /\ Safe(h, sock)
    BY <2>4 DEF Safe, Tidy
  <2> QED BY <2>1, <2>4, <2>5, ConnectSafe DEF TypeOK, States
<1>2. ASSUME NEW w \in Sockets, ConnectionTimeout(w)
      PROVE  IInv'
  <2> DEFINE h == [hook EXCEPT !.timeouts = @ \ {w}]
             given == [h EXCEPT !.ws = NoSocket]
  <2>1. mounted /\ UNCHANGED <<mounted, shown>>
    BY <1>2 DEF ConnectionTimeout, Gone
  <2>2. h \in HookSet /\ Safe(h, sock)
    BY DEF TypeOK, HookSet, Safe, Tidy
  <2>3. CASE hook.ws = w /\ sock[w] = "connecting"
    <3>1. hook' = ScheduleReconnect(given, "timeout")
          /\ sock' = [sock EXCEPT ![w] = "closing"]
      BY <1>2, <2>1, <2>3 DEF ConnectionTimeout
    <3>2. given \in HookSet /\ given.ws = NoSocket /\ given.retryTimers = 0
          /\ given.pings = {} /\ Tidy(given)
      <4>1. h.ws = w /\ h.retryTimers = 0 /\ h.pings = {}
        BY <2>2, <2>3, NoSocketAssumption DEF HookSet, Safe, Tidy
      <4> HIDE DEF h
      <4>2. given \in HookSet /\ given.ws = NoSocket
            /\ given.retryTimers = h.retryTimers /\ given.retryRef = h.retryRef
            /\ given.timeouts = h.timeouts /\ given.timeoutRef = h.timeoutRef
            /\ given.pings = h.pings /\ given.pingRef = h.pingRef
        BY <2>2 DEF HookSet
      <4> HIDE DEF given
      <4> QED BY <2>2, <4>1, <4>2 DEF Safe, Tidy
    <3> HIDE DEF given
    <3>3. Safe(given, sock')
      BY <2>3, <3>1, <3>2 DEF Safe, Trying, TypeOK
    <3>4. hook' \in HookSet /\ Safe(hook', sock')
      BY <3>1, <3>2, <3>3, Rescheduled
    <3>5. sock' \in [Sockets -> States]
      BY <3>1 DEF TypeOK, States
    <3> QED BY <2>1, <3>4, <3>5 DEF TypeOK, States
  <2>4. CASE ~(hook.ws = w /\ sock[w] = "connecting")
    <3>1. hook' = h /\ UNCHANGED sock
      BY <1>2, <2>4 DEF ConnectionTimeout
    <3> HIDE DEF h
    <3> QED BY <2>1, <2>2, <3>1 DEF TypeOK
  <2> QED BY <2>3, <2>4
<1> QED BY <1>1, <1>2 DEF Timers

\* The sockets' events.
LEMMA NetworkIInv == IInv /\ Network => IInv'
<1> SUFFICES ASSUME IInv, NEW w \in Sockets,
                    \/ Opens(w) \/ StartsClosing(w) \/ Fails(w)
                    \/ \E dead \in BOOLEAN : Closes(w, dead)
             PROVE  IInv'
  BY DEF Network
<1> USE DEF IInv
<1>1. CASE Opens(w)
  <2>1. mounted /\ hook.ws = w /\ UNCHANGED <<mounted, shown>>
    BY <1>1, NoSocketAssumption DEF Opens, Gone, Safe, Trying
  <2> DEFINE h == [hook EXCEPT !.connecting = FALSE, !.timeouts = @ \ {hook.timeoutRef}]
  <2>2. sock' = [sock EXCEPT ![w] = "open"]
        /\ hook' = [h EXCEPT !.retries = 0, !.status = "connected", !.pings = @ \cup {w},
                             !.pingRef = w]
    BY <1>1, <2>1 DEF Opens
  <2>4. h \in HookSet /\ h.ws = w /\ h.timeouts = {} /\ h.pings = {}
        /\ h.retryTimers = 0 /\ h.retryRef = FALSE
    <3>1. hook.retryTimers = 0 /\ hook.retryRef = FALSE /\ hook.pings = {}
          /\ hook.timeouts \ {hook.timeoutRef} = {}
      BY <1>1, <2>1, NoSocketAssumption DEF Opens, TypeOK, HookSet, Safe, Tidy
    <3> QED BY <2>1, <3>1 DEF TypeOK, HookSet
  <2> HIDE DEF h
  <2>5. hook' \in HookSet /\ hook'.ws = w /\ hook'.timeouts = {} /\ hook'.pings = {w}
        /\ hook'.pingRef = w /\ hook'.retryTimers = 0 /\ hook'.retryRef = FALSE
    <3>1. 0 \in 0..MaxAttempts /\ h.pings \cup {w} = {w}
      BY <2>4, AttemptsAssumption
    <3>2. hook' = [h EXCEPT !.retries = 0, !.status = "connected", !.pings = {w}, !.pingRef = w]
      BY <2>2, <3>1
    <3> QED BY <2>4, <3>1, <3>2 DEF HookSet
  <2>6. sock' \in [Sockets -> States] /\ sock'[w] = "open"
        /\ \A v \in Sockets : sock'[v] \in Trying => v = w
    BY <2>1, <2>2 DEF TypeOK, States, Safe, Trying
  <2> QED BY <2>1, <2>5, <2>6 DEF TypeOK, States, Safe, Tidy
<1>2. ASSUME Fails(w) \/ \E dead \in BOOLEAN : Closes(w, dead) PROVE IInv'
  <2>1. sock' = [sock EXCEPT ![w] = "closed"] /\ UNCHANGED <<mounted, shown>>
    BY <1>2 DEF Fails, Closes
  <2>2. sock' \in [Sockets -> States]
    BY <2>1 DEF TypeOK, States
  <2>3. CASE hook.ws # w
    <3>1. hook' = hook
      BY <1>2, <2>3 DEF Fails, Closes
    <3>2. Safe(hook', sock')
      BY <2>1, <2>3, <3>1 DEF Safe, TypeOK, Trying, HookSet
    <3> QED BY <2>1, <2>2, <3>1, <3>2 DEF TypeOK, States, Gone
  <2>4. CASE hook.ws = w
    <3>1. mounted
      BY <2>4, NoSocketAssumption DEF Gone
    <3> DEFINE h == LetGo(hook)
    <3>2. h \in HookSet /\ Safe(h, sock') /\ h.ws = NoSocket /\ h.retryTimers = 0
      BY <2>1, <2>4, SocketLetGo
    <3>3. \/ hook' = [h EXCEPT !.status = "session_dead"]
          \/ \E st \in {"timeout", "disconnected", "error"} : hook' = ScheduleReconnect(h, st)
      BY <1>2, <2>4, <3>1 DEF Fails, Closes
    <3> HIDE DEF h
    <3>4. hook' \in HookSet /\ Safe(hook', sock')
      <4>1. CASE hook' = [h EXCEPT !.status = "session_dead"]
        BY <3>2, <4>1 DEF HookSet, Safe, Tidy
      <4>2. CASE \E st \in {"timeout", "disconnected", "error"} :
                   hook' = ScheduleReconnect(h, st)
        BY <3>2, <4>2, Rescheduled
      <4> QED BY <3>3, <4>1, <4>2
    <3> QED BY <2>1, <2>2, <3>1, <3>4 DEF TypeOK, States
  <2> QED BY <2>3, <2>4
<1>3. CASE StartsClosing(w)
  <2>1. sock' = [sock EXCEPT ![w] = "closing"] /\ UNCHANGED <<hook, mounted, shown>>
    BY <1>3 DEF StartsClosing
  <2>2. sock' \in [Sockets -> States]
    BY <2>1 DEF TypeOK, States
  <2>3. Safe(hook, sock')
    BY <2>1 DEF Safe, TypeOK, Trying
  <2> QED BY <2>1, <2>2, <2>3 DEF TypeOK, States, Gone
<1> QED BY <1>1, <1>2, <1>3

LEMMA NextIInv == IInv /\ [Next]_vars => IInv'
<1>1. IInv /\ UNCHANGED vars => IInv'
  BY DEF IInv, TypeOK, Safe, Tidy, Gone, vars
<1> QED BY <1>1, ComponentIInv, TimersIInv, NetworkIInv DEF Next

LEMMA Invariant == Spec => []IInv
BY InitIInv, NextIInv, PTL DEF Spec

\* Every variable keeps its type; the attempts stay within their limit.
THEOREM TypeCorrect == Spec => []TypeOK
<1>1. IInv => TypeOK
  BY DEF IInv
<1> QED BY <1>1, Invariant, PTL

\* However sockets, timers and the user race, a view holds one connection:
\* every socket that connects or is open is the hook's own.
THEOREM HoldsOneSocket == Spec => []OneSocket
<1>1. IInv => OneSocket
  BY DEF IInv, Safe, OneSocket, Trying
<1> QED BY <1>1, Invariant, PTL

\* No timer outlives what it was armed for: keepalives are those of the current
\* connection, at most one retry waits and none beside a connection, and a view
\* that is gone leaves no timer and no connection behind.
THEOREM NoStrayTimer == Spec => []TimersAreOwned
<1>1. IInv => PingsAreLive
  BY DEF IInv, TypeOK, HookSet, Safe, Tidy, PingsAreLive
<1>2. IInv => OneRetry
  BY DEF IInv, Safe, Tidy, OneRetry
<1>3. IInv => QuietAfterUnmount
  BY DEF IInv, Gone, QuietAfterUnmount
<1>4. IInv => TimersAreOwned
  BY <1>1, <1>2, <1>3 DEF TimersAreOwned
<1> QED BY <1>4, Invariant, PTL
===============================================================================
