------------------------------- MODULE AgentShows -------------------------------
(***************************************************************************)
(* What agents show: from the event of the agent's Tether                  *)
(* (services/shows.py, receive_show) through the store's ring              *)
(* (api/shows.py) to the browser that polls it                             *)
(* (frontend/lib/hooks/use-agent-shows.ts).                                *)
(*                                                                         *)
(* The ring forgets the oldest, A-Term's restart forgets all of it, the    *)
(* browser asks for what came after the last show it was given, and the    *)
(* user dismisses one at a time.  Shows are numbered in the order agents   *)
(* sent them.                                                              *)
(***************************************************************************)
EXTENDS Naturals, FiniteSets, Sequences, SequencesExt

CONSTANTS
  MaxShows, \* bound: shows agents send
  Kept      \* the 50 of the ring, of the browser's memory and of its queue

Shows == 1..MaxShows
NoShow == 0

VARIABLES
  sent,     \* the last show an agent sent
  ring,     \* ShowStore._items
  pushed,   \* pushed[s]: notifications sent for show s
  cursor,   \* cursor.current
  known,    \* seen.current, in the order of the set
  pending,  \* shows the user has not dismissed; the first is on the screen
  answer,   \* the answer of the poll under way, or <<NoShow>> when none is
  visible,  \* document.visibilityState
  offered   \* offered[s]: how often show s was put into pending

vars == <<sent, ring, pushed, cursor, known, pending, answer, visible, offered>>
server == <<sent, ring, pushed>>
browser == <<cursor, known, pending, answer, visible, offered>>

Idle == <<NoShow>>

Init ==
  /\ sent = 0
  /\ ring = <<>>
  /\ pushed = [s \in Shows |-> 0]
  /\ cursor = NoShow
  /\ known = <<>>
  /\ pending = <<>>
  /\ answer = Idle
  /\ visible = TRUE
  /\ offered = [s \in Shows |-> 0]

\* The last n of a sequence: deque(maxlen=n), slice(-n).
Last50(seq) == IF Len(seq) <= Kept THEN seq ELSE SubSeq(seq, Len(seq) - Kept + 1, Len(seq))

\* What a sequence has at some places, in order.
At(seq, places) ==
  [n \in 1..Cardinality(places) |->
     seq[CHOOSE i \in places : Cardinality({j \in places : j <= i}) = n]]

\* What a Set keeps of a sequence: the first of each.
Distinct(seq) == At(seq, {i \in DOMAIN seq : \A j \in DOMAIN seq : j < i => seq[j] # seq[i]})

-------------------------------------------------------------------------------
(***************************************************************************)
(* The server.                                                             *)
(***************************************************************************)

\* ShowStore.add: one with the id of a retained one is refused.
Add(s) == IF s \in ToSet(ring) THEN ring ELSE Last50(Append(ring, s))

\* receive_show, for a show of an agent or one delivered again; one that
\* validate_show rejects changes nothing.
ReceiveShow(s) ==
  /\ ring' = Add(s)
  /\ pushed' = IF s \in ToSet(ring) THEN pushed ELSE [pushed EXCEPT ![s] = @ + 1]

AgentSends ==
  /\ sent < MaxShows
  /\ sent' = sent + 1
  /\ ReceiveShow(sent + 1)
  /\ UNCHANGED browser

\* Tether repeats an event of the stream it resumes.
DeliveredAgain ==
  /\ sent \in ToSet(ring)
  /\ ReceiveShow(sent)
  /\ UNCHANGED <<sent, browser>>

Restart ==
  /\ ring # <<>>
  /\ ring' = <<>>
  /\ UNCHANGED <<sent, pushed, browser>>

\* Bug: the show after the cursor is taken for the cursor itself.
RecentSkipping(since) ==
  IF since \notin ToSet(ring) THEN ring
  ELSE SelectSeq(ring, LAMBDA s : s > since + 1)

\* ShowStore.recent: what came after the cursor, or all of the ring when the
\* cursor is not in it.
Recent(since) ==
  IF since \notin ToSet(ring) THEN ring
  ELSE SubSeq(ring, (CHOOSE i \in DOMAIN ring : ring[i] = since) + 1, Len(ring))

-------------------------------------------------------------------------------
(***************************************************************************)
(* The browser.                                                            *)
(***************************************************************************)

\* poll, to the request: only while the page is visible and none is under way.
Poll ==
  /\ visible
  /\ answer = Idle
  /\ answer' = Recent(cursor)
  /\ UNCHANGED <<server, cursor, known, pending, visible, offered>>

\* poll, from the answer: what is new goes to the end of the queue, the show
\* the page was opened for first.
Answered ==
  LET fresh == {i \in DOMAIN answer : answer[i] \notin ToSet(known)}
  IN /\ answer # Idle
     /\ answer' = Idle
     /\ cursor' = IF answer = <<>> THEN cursor ELSE Last(answer)
     /\ known' = Distinct(Last50(known \o answer))
     /\ \E requested \in Shows \cup {NoShow} :
          pending' = Last50(pending \o
            At(answer, {i \in fresh : answer[i] = requested}) \o
            At(answer, {i \in fresh : answer[i] # requested}))
     /\ offered' = [s \in Shows |->
                      offered[s] + Cardinality({i \in fresh : answer[i] = s})]
     /\ UNCHANGED <<server, visible>>

\* The request fails, or the answer is not a list of shows.
PollFails ==
  /\ answer # Idle
  /\ answer' = Idle
  /\ UNCHANGED <<server, cursor, known, pending, visible, offered>>

Dismiss ==
  /\ pending # <<>>
  /\ pending' = Tail(pending)
  /\ UNCHANGED <<server, cursor, known, answer, visible, offered>>

HideOrShow ==
  /\ visible' = ~visible
  /\ UNCHANGED <<server, cursor, known, pending, answer, offered>>

Next ==
  \/ AgentSends \/ DeliveredAgain \/ Restart
  \/ Poll \/ Answered \/ PollFails \/ Dismiss \/ HideOrShow

Spec == Init /\ [][Next]_vars

-------------------------------------------------------------------------------
(***************************************************************************)
(* Properties.                                                             *)
(***************************************************************************)

TypeOK ==
  /\ sent \in 0..MaxShows
  /\ \A q \in {ring, known, pending} : q \in Seq(Shows) /\ Len(q) <= Kept
  /\ pushed \in [Shows -> Nat]
  /\ cursor \in Shows \cup {NoShow}
  /\ answer = Idle \/ answer \in Seq(Shows)
  /\ visible \in BOOLEAN
  /\ offered \in [Shows -> Nat]

\* A show is put before the user, and pushed to the phone, once: polls, repeats
\* and restarts between them bring no show back.  And the cursor never passes a
\* show the ring still has: what the browser was not offered it will be, unless
\* fifty newer ones come first.
ShownOnce ==
  /\ \A s \in Shows : offered[s] <= 1 /\ pushed[s] <= 1
  /\ \A s \in ToSet(ring) : s <= cursor => offered[s] = 1
===============================================================================
