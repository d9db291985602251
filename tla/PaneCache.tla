-------------------------------- MODULE PaneCache --------------------------------
(***************************************************************************)
(* The browser's copies of the pane lists (use-a-term-panes.ts): two       *)
(* queries, of the visible and of the detached panes, that mutations write *)
(* to and invalidate.  Answers of mutations and of fetches come in any     *)
(* order, and a swap is shown before the server has done it.               *)
(***************************************************************************)
EXTENDS Naturals

CONSTANTS Panes,     \* two of them: the swap's
          Requests,  \* mutations that may be under way at once: numbers
          MaxChanges \* bound: mutations

VARIABLES
  place,    \* place[p], on the server: "none", "visible" or "detached"
  swapped,  \* the server's order of the visible panes
  active,   \* the cache of the visible panes: which, and in what order
  detached, \* the cache of the detached panes
  fetch,    \* fetch["active"], fetch["detached"]: "none", "asked" or the answer
  request,  \* request[r]: a mutation
  changes,
  excused   \* the answer of a mutation was lost: the browser cannot know of it

vars == <<place, swapped, active, detached, fetch, request, changes, excused>>
caches == <<active, detached, fetch>>

Idle == [at |-> "idle"]
At(where) == {p \in Panes : place[p] = where}
ServerActive == [panes |-> At("visible"), swapped |-> swapped]

Init ==
  /\ place \in [Panes -> {"none", "visible", "detached"}]
  /\ swapped = FALSE
  /\ active = ServerActive /\ detached = At("detached")
  /\ fetch = [active |-> <<>>, detached |-> <<>>]
  /\ request = [r \in Requests |-> Idle]
  /\ changes = 0 /\ excused = FALSE

Asked == <<"asked">>

\* Bug: only the list that is shown is fetched again.
InvalidateActive == fetch' = [fetch EXCEPT !.active = Asked]

\* invalidatePanesAndSessions: what was being fetched is dropped.
Invalidate == fetch' = [active |-> Asked, detached |-> Asked]

-------------------------------------------------------------------------------
(***************************************************************************)
(* Fetches.                                                                *)
(***************************************************************************)

\* refetchInterval.  (A fetch that fails is tried again.)
Refetch(q) ==
  /\ fetch[q] = <<>>
  /\ fetch' = [fetch EXCEPT ![q] = Asked]
  /\ UNCHANGED <<place, swapped, active, detached, request, changes, excused>>

ServerLists(q) ==
  /\ fetch[q] = Asked
  /\ fetch' = [fetch EXCEPT ![q] =
                 <<"answer", IF q = "active" THEN ServerActive ELSE At("detached")>>]
  /\ UNCHANGED <<place, swapped, active, detached, request, changes, excused>>

Fetched(q) ==
  /\ fetch[q] # <<>> /\ fetch[q] # Asked
  /\ IF q = "active" THEN active' = fetch[q][2] /\ UNCHANGED detached
     ELSE detached' = fetch[q][2] /\ UNCHANGED active
  /\ fetch' = [fetch EXCEPT ![q] = <<>>]
  /\ UNCHANGED <<place, swapped, request, changes, excused>>

-------------------------------------------------------------------------------
(***************************************************************************)
(* Mutations.                                                              *)
(***************************************************************************)

Calls(r, req) ==
  /\ request[r] = Idle /\ \A q \in Requests : q < r => request[q] # Idle   \* alike
  /\ changes < MaxChanges
  /\ changes' = changes + 1
  /\ request' = [request EXCEPT ![r] = req]
  /\ UNCHANGED <<place, swapped, detached, excused>>

\* createMutation, updateMutation, deleteMutation, detachMutation and
\* attachMutation: where they put the pane ("same": they leave it).
Mutate(r, p, to) ==
  /\ Calls(r, [at |-> "sent", kind |-> "place", pane |-> p, to |-> to, ok |-> FALSE])
  /\ UNCHANGED <<active, fetch>>

\* onMutate of swapMutation: a fetch is cancelled, and the swap shown.
Swap(r) ==
  /\ active.panes = Panes
  /\ Calls(r, [at |-> "sent", kind |-> "swap", previous |-> active, ok |-> FALSE])
  /\ active' = [active EXCEPT !.swapped = ~@]
  /\ fetch' = [fetch EXCEPT !.active = <<>>]

\* The server does what it is asked, or refuses; the answer may get lost.
ServerActs(r) ==
  LET req == request[r]
      answers(a) == request' = [request EXCEPT ![r] = [req EXCEPT !.at = "answered", !.ok = a]]
  IN /\ req.at = "sent"
     /\ \/ answers(FALSE) /\ UNCHANGED <<place, swapped, excused>>
        \/ /\ req.kind = "swap" /\ At("none") = {}
           /\ swapped' = ~swapped
           /\ \E a \in BOOLEAN : answers(a)
           /\ UNCHANGED <<place, excused>>
        \/ /\ req.kind = "place"
           /\ (place[req.pane] = "none") = (req.to = "create")
           /\ place' = [place EXCEPT ![req.pane] =
                          IF req.to = "same" THEN @
                          ELSE IF req.to = "create" THEN "visible" ELSE req.to]
           /\ \/ /\ request' = [request EXCEPT ![r] =
                      [req EXCEPT !.at = "answered", !.ok = TRUE, !.to = place'[req.pane]]]
                 /\ UNCHANGED excused
              \/ answers(FALSE) /\ excused' = TRUE
           /\ UNCHANGED swapped
     /\ UNCHANGED <<caches, changes>>

\* syncPaneCaches, or removePaneFromCaches.
Puts(p, to) ==
  /\ active' = [active EXCEPT !.panes = IF to = "visible" THEN @ \cup {p} ELSE @ \ {p}]
  /\ detached' = IF to = "detached" THEN detached \cup {p} ELSE detached \ {p}

\* onSuccess, onError and onSettled.
Answered(r) ==
  LET req == request[r]
  IN /\ req.at = "answered"
     /\ request' = [request EXCEPT ![r] = Idle]
     /\ \/ /\ req.kind = "place" /\ req.ok
           /\ Puts(req.pane, req.to)
           /\ Invalidate
        \/ /\ req.kind = "place" /\ ~req.ok
           /\ UNCHANGED caches
        \/ /\ req.kind = "swap"
           /\ active' = IF req.ok THEN active ELSE req.previous
           /\ fetch' = [fetch EXCEPT !.active = Asked]
           /\ UNCHANGED detached
     /\ UNCHANGED <<place, swapped, changes, excused>>

Next ==
  \/ \E q \in {"active", "detached"} :
       Refetch(q) \/ ServerLists(q) \/ Fetched(q)
  \/ \E r \in Requests :
       \/ Swap(r) \/ ServerActs(r) \/ Answered(r)
       \/ \E p \in Panes, to \in {"create", "same", "none", "visible", "detached"} :
            Mutate(r, p, to)

Spec == Init /\ [][Next]_vars

-------------------------------------------------------------------------------

TypeOK ==
  /\ place \in [Panes -> {"none", "visible", "detached"}]
  /\ active \in [panes : SUBSET Panes, swapped : BOOLEAN]
  /\ detached \subseteq Panes
  /\ {swapped, excused} \subseteq BOOLEAN
  /\ changes \in 0..MaxChanges

\* Once the mutations and the fetches they ask for are over, the lists are the
\* server's: no late answer, no roll-back and no optimistic swap stays.
CachesSettle ==
  /\ ~excused
  /\ \A r \in Requests : request[r] = Idle
  /\ fetch = [active |-> <<>>, detached |-> <<>>]
  => active = ServerActive /\ detached = At("detached")
===============================================================================
