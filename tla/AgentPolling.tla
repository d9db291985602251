------------------------------ MODULE AgentPolling ------------------------------
(***************************************************************************)
(* useAgentPolling (use-agent-polling.ts): starting an agent and polling   *)
(* for its state.  Each poll is a loop of its own with an AbortController; *)
(* all of them share one ref and one isPolling.                            *)
(***************************************************************************)
EXTENDS Naturals, FiniteSets

CONSTANTS MaxStarts, \* bound: agents started
          Rounds     \* requests a poll makes before AGENT_POLL_TIMEOUT_MS

VARIABLES
  mounted,
  posts,     \* start-agent requests under way
  poll,      \* poll[p]: a loop, its controller's signal and the rounds it has left
  ref,       \* abortControllerRef: the poll whose controller it is, or 0
  isPolling

vars == <<mounted, posts, poll, ref, isPolling>>

Polls == 1..MaxStarts
Begun == {p \in Polls : poll[p].at # "none"}
Alive == {p \in Begun : poll[p].at # "over"}

Init ==
  /\ mounted = TRUE /\ posts = 0
  /\ poll = [p \in Polls |-> [at |-> "none", aborted |-> FALSE, left |-> Rounds]]
  /\ ref = 0 /\ isPolling = FALSE

\* The polls once the controller in the ref is aborted.
Aborted == [p \in Polls |-> [poll[p] EXCEPT !.aborted = @ \/ p = ref]]

StopPolling ==
  /\ poll' = Aborted
  /\ ref' = 0
  /\ isPolling' = FALSE

\* startAgent, up to the request.
StartAgent ==
  /\ mounted
  /\ posts + Cardinality(Begun) < MaxStarts
  /\ posts' = posts + 1
  /\ StopPolling
  /\ UNCHANGED mounted

\* Its answer: the agent is starting, or there is nothing to wait for.
Started ==
  /\ posts > 0
  /\ posts' = posts - 1
  /\ \/ \E p \in Polls \ Begun :
          /\ \A q \in Polls \ Begun : p <= q
          /\ poll' = [Aborted EXCEPT ![p].at = "delay"]
          /\ ref' = p
          /\ isPolling' = TRUE
     \/ UNCHANGED <<poll, ref, isPolling>>
  /\ UNCHANGED mounted

\* Bug: the loop leaves isPolling as it is.
OverQuietly(p) ==
  /\ poll' = [poll EXCEPT ![p].at = "over"]
  /\ ref' = 0
  /\ UNCHANGED isPolling

\* What follows the loop, whichever way it ended.
Over(p) ==
  /\ poll' = [poll EXCEPT ![p].at = "over"]
  /\ ref' = 0
  /\ isPolling' = FALSE

\* The delay is over.
Ask(p) ==
  /\ poll[p].at = "delay"
  /\ IF poll[p].aborted THEN Over(p)
     ELSE poll' = [poll EXCEPT ![p].at = "fetch"] /\ UNCHANGED <<ref, isPolling>>
  /\ UNCHANGED <<mounted, posts>>

\* The fetch ends the loop (a state that is final, an abort, the time) or the
\* next round follows.
Answered(p) ==
  /\ poll[p].at = "fetch"
  /\ \/ Over(p)
     \/ /\ ~poll[p].aborted /\ poll[p].left > 1
        /\ poll' = [poll EXCEPT ![p].at = "delay", ![p].left = @ - 1]
        /\ UNCHANGED <<ref, isPolling>>
  /\ UNCHANGED <<mounted, posts>>

\* The caller stops polling, or is gone.
Stop ==
  /\ mounted
  /\ StopPolling
  /\ mounted' \in BOOLEAN
  /\ UNCHANGED posts

Next ==
  \/ StartAgent \/ Started \/ Stop
  \/ \E p \in Polls : Ask(p) \/ Answered(p)

Spec == Init /\ [][Next]_vars

-------------------------------------------------------------------------------

TypeOK ==
  /\ mounted \in BOOLEAN /\ isPolling \in BOOLEAN
  /\ posts \in 0..MaxStarts
  /\ poll \in [Polls -> [at : {"none", "delay", "fetch", "over"}, aborted : BOOLEAN,
                         left : 1..Rounds]]
  /\ ref \in 0..MaxStarts

\* isPolling is never left on: while it is, a loop that nobody stopped is at
\* work and will turn it off.
PollingEnds == isPolling => \E p \in Alive : ~poll[p].aborted
===============================================================================
