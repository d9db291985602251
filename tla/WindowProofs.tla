------------------------------- MODULE WindowProofs -------------------------------
(***************************************************************************)
(* Safety of what the windows of a browser decide by themselves, for every *)
(* value of the constants: AgentPolling, WindowOwnership, ActiveSession,   *)
(* AutoCreate and Dictation in a behaviour of MCBrowser.                   *)
(***************************************************************************)
EXTENDS MCBrowser, FiniteSetTheorems, SequenceFacts, TLAPS

-------------------------------------------------------------------------------
(***************************************************************************)
(* AgentPolling: isPolling is turned off.                                  *)
(***************************************************************************)

\* AgentPolling counts with the Cardinality of its own instance of FiniteSets: the
\* same operator.
LEMMA CardinalityOfPolls == ASSUME NEW S PROVE AP!Cardinality(S) = Cardinality(S)
  BY DEF AP!Cardinality, Cardinality

\* A poll.
Poll == [at : {"none", "delay", "fetch", "over"}, aborted : BOOLEAN, left : 1..Rounds]

\* A poll that has not begun is untouched: its controller is neither aborted nor in
\* the ref.
Untouched == \A p \in AP!Polls : poll[p].at = "none" => ~poll[p].aborted /\ ref # p

\* While isPolling is on, the ref names a loop at work that nobody aborted: this is
\* what makes PollingEnds inductive.
Current == isPolling => ref \in AP!Alive /\ ~poll[ref].aborted
\* The invariant of the polls.
PollInv == AP!TypeOK /\ Untouched /\ Current

\* useAgentPolling starts with no poll.
LEMMA PollInit == AP!Init => PollInv
<1> SUFFICES ASSUME AP!Init PROVE PollInv
  OBVIOUS
<1>1. poll \in [AP!Polls -> Poll] /\ \A p \in AP!Polls : ~poll[p].aborted
  BY PollBounds DEF AP!Init, Poll
<1>2. posts \in 0..MaxStarts /\ ref \in 0..MaxStarts
  BY PollBounds DEF AP!Init
<1>3. hookMounted \in BOOLEAN /\ isPolling = FALSE
  BY DEF AP!Init
<1>4. \A p \in AP!Polls : ref # p
  BY DEF AP!Init, AP!Polls
<1>5. QED
  BY <1>1, <1>2, <1>3, <1>4 DEF PollInv, AP!TypeOK, Untouched, Current, Poll

\* Aborting the controller in the ref leaves every poll where it is and marks one.
LEMMA AbortedPolls ==
  ASSUME PollInv
  PROVE  /\ AP!Aborted \in [AP!Polls -> Poll]
         /\ \A q \in AP!Polls : /\ AP!Aborted[q].at = poll[q].at
                                /\ AP!Aborted[q].aborted = (poll[q].aborted \/ q = ref)
<1>1. ASSUME NEW q \in AP!Polls
      PROVE  /\ AP!Aborted[q] \in Poll
             /\ AP!Aborted[q].at = poll[q].at
             /\ AP!Aborted[q].aborted = (poll[q].aborted \/ q = ref)
  <2> DEFINE b == poll[q].aborted \/ q = ref
  <2>1. poll[q] \in Poll /\ b \in BOOLEAN
    BY DEF PollInv, AP!TypeOK, Poll
  <2>2. AP!Aborted[q] = [poll[q] EXCEPT !.aborted = b]
    BY DEF AP!Aborted
  <2> HIDE DEF b
  <2>3. QED BY <2>1, <2>2 DEF Poll, b
<1>2. AP!Aborted = [q \in AP!Polls |-> AP!Aborted[q]]
  BY DEF AP!Aborted
<1>3. QED BY <1>1, <1>2

\* A loop that moves on by itself keeps the invariant, if it either gives up the ref
\* with isPolling or leaves both alone and stays at work.
LEMMA PollMoves ==
  ASSUME PollInv, NEW p \in AP!Polls, poll[p].at # "none",
         poll' \in [AP!Polls -> Poll],
         poll'[p].at # "none", \A q \in AP!Polls \ {p} : poll'[q] = poll[q],
         UNCHANGED <<hookMounted, posts>>,
         \/ ref' = 0 /\ isPolling' = FALSE
         \/ UNCHANGED <<ref, isPolling>> /\ poll'[p].aborted = poll[p].aborted /\ poll'[p].at # "over"
  PROVE  PollInv'
<1>1. ref' \in 0..MaxStarts /\ posts' \in 0..MaxStarts
  BY PollBounds DEF PollInv, AP!TypeOK
<1>2. hookMounted' \in BOOLEAN /\ isPolling' \in BOOLEAN
  BY DEF PollInv, AP!TypeOK
<1>3. 0 \notin AP!Polls
  BY DEF AP!Polls
<1>4. Untouched'
  BY <1>3 DEF PollInv, Untouched, AP!Polls
<1>5. Current'
  BY DEF PollInv, Current, AP!Alive, AP!Begun, AP!Polls
<1>6. QED
  BY <1>1, <1>2, <1>4, <1>5 DEF PollInv, AP!TypeOK, Poll, AP!Polls

\* Every step of the hook, of its caller and of its loops keeps the invariant.
LEMMA PollStep == PollInv /\ [AP!Next]_(AP!vars) => PollInv'
<1> SUFFICES ASSUME PollInv, [AP!Next]_(AP!vars) PROVE PollInv'
  OBVIOUS
<1>0. /\ poll \in [AP!Polls -> Poll] /\ posts \in 0..MaxStarts /\ ref \in 0..MaxStarts
      /\ hookMounted \in BOOLEAN /\ isPolling \in BOOLEAN
  BY DEF PollInv, AP!TypeOK, Poll
<1>stop. ASSUME AP!StopPolling, posts' \in 0..MaxStarts, hookMounted' \in BOOLEAN PROVE PollInv'
  <2>1. poll' = AP!Aborted /\ ref' = 0 /\ isPolling' = FALSE
    BY <1>stop DEF AP!StopPolling
  <2>2. poll' \in [AP!Polls -> Poll]
    BY <2>1, AbortedPolls
  <2>3. ref' \in 0..MaxStarts
    BY <2>1, PollBounds
  <2>7. \A q \in AP!Polls : 0 # q
    BY DEF AP!Polls
  <2>4. Untouched'
    BY <2>1, <2>7, AbortedPolls DEF PollInv, Untouched, AP!Polls
  <2>5. Current'
    BY <2>1 DEF Current
  <2>6. QED
    BY <2>1, <2>2, <2>3, <2>4, <2>5, <1>stop DEF PollInv, AP!TypeOK, Poll, AP!Polls
<1>1. CASE AP!StartAgent
  <2>1. AP!Cardinality(AP!Begun) \in Nat
    <3>1. IsFiniteSet(AP!Begun)
      <4>1. IsFiniteSet(AP!Polls)
        BY FS_Interval, PollBounds DEF AP!Polls
      <4>2. AP!Begun \subseteq AP!Polls
        BY DEF AP!Begun
      <4>3. QED BY <4>1, <4>2, FS_Subset
    <3>2. QED BY <3>1, CardinalityOfPolls, FS_CardinalityType
  <2>2. posts' \in 0..MaxStarts
    BY <1>0, <1>1, <2>1, PollBounds DEF AP!StartAgent
  <2>3. QED BY <1>1, <1>0, <2>2, <1>stop DEF AP!StartAgent
<1>2. CASE AP!Started
  <2>0. posts' \in 0..MaxStarts /\ hookMounted' \in BOOLEAN
    BY <1>2, <1>0, PollBounds DEF AP!Started
  <2>1. CASE UNCHANGED <<poll, ref, isPolling>>
    BY <1>2, <2>0, <2>1 DEF PollInv, AP!TypeOK, Untouched, Current, AP!Alive, AP!Begun, AP!Polls
  <2>2. ASSUME NEW p \in AP!Polls \ AP!Begun,
               poll' = [AP!Aborted EXCEPT ![p].at = "delay"], ref' = p, isPolling' = TRUE
        PROVE  PollInv'
    <3>1. /\ poll' \in [AP!Polls -> Poll]
          /\ poll'[p].at = "delay" /\ poll'[p].aborted = AP!Aborted[p].aborted
          /\ \A q \in AP!Polls \ {p} : poll'[q] = AP!Aborted[q]
      BY <2>2, AbortedPolls DEF Poll
    <3>2. poll[p].at = "none"
      BY <2>2 DEF AP!Begun
    <3>3. ~poll'[p].aborted
      BY <3>1, <3>2, AbortedPolls DEF PollInv, Untouched
    <3>4. Current'
      BY <3>1, <3>3, <2>2 DEF Current, AP!Alive, AP!Begun, AP!Polls
    <3>5. Untouched'
      BY <3>1, <2>2, AbortedPolls DEF PollInv, Untouched, AP!Polls
    <3>6. ref' \in 0..MaxStarts
      BY <2>2 DEF AP!Polls
    <3>7. QED
      BY <2>0, <2>2, <3>1, <3>4, <3>5, <3>6 DEF PollInv, AP!TypeOK, AP!Polls, Poll
  <2>3. QED BY <1>2, <2>1, <2>2 DEF AP!Started
<1>3. CASE AP!Stop
  BY <1>3, <1>0, <1>stop DEF AP!Stop
<1>over. ASSUME NEW p \in AP!Polls, AP!Over(p), poll[p].at # "none", UNCHANGED <<hookMounted, posts>>
      PROVE  PollInv'
  <2>1. /\ poll' \in [AP!Polls -> Poll]
        /\ poll'[p].at = "over"
        /\ \A q \in AP!Polls \ {p} : poll'[q] = poll[q]
    BY <1>over, <1>0 DEF AP!Over, Poll
  <2>2. QED BY <2>1, <1>over, PollMoves DEF AP!Over
<1>4. ASSUME NEW p \in AP!Polls, AP!Ask(p) PROVE PollInv'
  <2>1. CASE poll' = [poll EXCEPT ![p].at = "fetch"] /\ UNCHANGED <<ref, isPolling>>
    <3>1. /\ poll' \in [AP!Polls -> Poll]
          /\ poll'[p].at = "fetch" /\ poll'[p].aborted = poll[p].aborted
          /\ \A q \in AP!Polls \ {p} : poll'[q] = poll[q]
      BY <2>1, <1>0 DEF Poll
    <3>2. QED BY <1>4, <3>1, <2>1, PollMoves DEF AP!Ask
  <2>2. QED BY <1>4, <1>over, <2>1 DEF AP!Ask
<1>5. ASSUME NEW p \in AP!Polls, AP!Answered(p) PROVE PollInv'
  <2>1. CASE /\ poll[p].left > 1
             /\ poll' = [poll EXCEPT ![p].at = "delay", ![p].left = @ - 1]
             /\ UNCHANGED <<ref, isPolling>>
    <3>0. poll[p] \in Poll /\ poll[p].left \in 1..Rounds
      BY <1>0 DEF Poll
    <3>4. poll[p].left - 1 \in 1..Rounds
      BY <2>1, <3>0, PollBounds
    <3>1. /\ poll' \in [AP!Polls -> Poll]
          /\ poll'[p].at = "delay" /\ poll'[p].aborted = poll[p].aborted
          /\ \A q \in AP!Polls \ {p} : poll'[q] = poll[q]
      BY <2>1, <3>0, <3>4, <1>0 DEF Poll
    <3>2. QED BY <1>5, <3>1, <2>1, PollMoves DEF AP!Answered
  <2>2. QED BY <1>5, <1>over, <2>1 DEF AP!Answered
<1>6. CASE UNCHANGED AP!vars
  BY <1>6 DEF AP!vars, PollInv, AP!TypeOK, Untouched, Current, AP!Alive, AP!Begun, AP!Polls
<1>7. QED
  BY <1>1, <1>2, <1>3, <1>4, <1>5, <1>6 DEF AP!Next

\* The steps of AgentPolling in a behaviour of the browser are its own, or none.
LEMMA PollLift == BrowserSpec => AP!Init /\ [][AP!Next]_(AP!vars)
<1>1. BrowserInit => AP!Init
  BY DEF BrowserInit
<1>2. [BrowserNext]_BrowserVars => [AP!Next]_(AP!vars)
  BY DEF BrowserNext, BrowserVars, polling, AP!vars
<1>3. QED BY <1>1, <1>2, PTL DEF BrowserSpec

\* isPolling (use-agent-polling.ts) is never left on with no loop that would turn it
\* off, however starts, stops, aborts and answers interleave.
THEOREM PollingStops == BrowserSpec => []PollingEnds
<1>1. PollInv => PollingEnds
  BY DEF PollInv, Current, PollingEnds, AP!PollingEnds
<1>2. QED BY <1>1, PollInit, PollStep, PollLift, PTL

-------------------------------------------------------------------------------
(***************************************************************************)
(* WindowOwnership: the windows' panes are disjoint.                       *)
(***************************************************************************)

\* As above, for WindowOwnership.
LEMMA CardinalityOfOwners == ASSUME NEW S PROVE WO!Cardinality(S) = Cardinality(S)
  BY DEF WO!Cardinality, Cardinality

\* The types of the windows, of what they show and of what they are about to write.
OwnerTypes ==
  /\ panes \subseteq OwnedPanes /\ claimed \subseteq OwnedPanes
  /\ open \subseteq Windows /\ stale \subseteq Windows /\ told \subseteq Windows
  /\ known \in [Windows -> SUBSET OwnedPanes] /\ shows \in [Windows -> SUBSET OwnedPanes]
  /\ DOMAIN changing = Windows /\ turns \in 0..MaxTurns

\* A registry that gives no pane to two windows, but for those claimed.
Fair(r, cl) ==
  /\ WO!IsRegistry(r)
  /\ \A v, w \in Windows : v # w => (UNION r[v]) \cap (UNION r[w]) \subseteq cl

\* A window changes one registry at a time, and that one is fair too: it was when it was
\* read, and the change made to it kept it so, whatever has become of the one it was read
\* from.
FairChanges(cl) ==
  \A w \in Windows : /\ \A r \in changing[w] : Fair(r, cl)
                     /\ WO!Cardinality(changing[w]) <= 1

\* A window that shows what the registry does not give it is about to sync.
ToldOrTrue == \A w \in open : shows[w] = UNION registry[w] \/ w \in told \/ ~WO!Idle(w)

\* The invariant of the registry.
OwnerInv == OwnerTypes /\ Fair(registry, claimed) /\ FairChanges(claimed) /\ ToldOrTrue

\* It is what the property says.
LEMMA OwnersAre == OwnerInv => OwnersDisjoint
  BY DEF OwnerInv, Fair, ToldOrTrue, OwnersDisjoint, WO!OwnersDisjoint

\* Before a window opens the registry is empty.
LEMMA OwnerInit == WO!Init => OwnerInv
<1> SUFFICES ASSUME WO!Init PROVE OwnerInv
  OBVIOUS
<1>1. /\ registry = [w \in Windows |-> {}] /\ changing = [w \in Windows |-> {}] /\ open = {}
      /\ WO!Cardinality({}) = 0
  BY CardinalityOfOwners, FS_EmptySet DEF WO!Init
<1>2. OwnerTypes
  BY BoundsAreNumbers DEF WO!Init, OwnerTypes
<1>3. Fair(registry, claimed)
  <2>1. /\ registry \in [Windows -> SUBSET SUBSET OwnedPanes]
        /\ \A w \in Windows : registry[w] = {} /\ UNION registry[w] = {}
    BY <1>1
  <2>2. \A w \in Windows : WO!Cardinality(registry[w]) <= 1
    BY <1>1, <2>1
  <2> QED BY <2>1, <2>2 DEF Fair, WO!IsRegistry
<1>4. FairChanges(claimed) /\ ToldOrTrue
  BY <1>1 DEF FairChanges, ToldOrTrue
<1> QED BY <1>2, <1>3, <1>4 DEF OwnerInv

\* More claims excuse no less.
LEMMA ClaimsExcuse ==
  ASSUME NEW r, NEW cl, Fair(r, cl), NEW cm, cl \subseteq cm PROVE Fair(r, cm)
BY DEF Fair

\* Reading the registry drops whole entries and changes none.
LEMMA PrunedFair ==
  ASSUME OwnerInv
  PROVE  /\ Fair(WO!Pruned, claimed)
         /\ \A w \in Windows : WO!Pruned[w] \in {{}, registry[w]}
<1>1. /\ WO!Pruned \in [Windows -> SUBSET SUBSET OwnedPanes]
      /\ \A w \in Windows : WO!Pruned[w] \in {{}, registry[w]}
  BY DEF OwnerInv, Fair, WO!IsRegistry, WO!Pruned
<1>2. WO!Cardinality({}) = 0
  BY CardinalityOfOwners, FS_EmptySet
<1>3. ASSUME NEW w \in Windows PROVE WO!Cardinality(WO!Pruned[w]) <= 1
  <2>1. CASE WO!Pruned[w] = registry[w]
    BY <2>1 DEF OwnerInv, Fair, WO!IsRegistry
  <2>2. CASE WO!Pruned[w] = {}
    BY <1>2, <2>2
  <2> QED BY <1>1, <2>1, <2>2
<1>4. \A w \in Windows : UNION WO!Pruned[w] \subseteq UNION registry[w]
  BY <1>1
<1>5. \A v, w \in Windows : v # w =>
        (UNION WO!Pruned[v]) \cap (UNION WO!Pruned[w]) \subseteq claimed
  BY <1>4 DEF OwnerInv, Fair
<1> QED BY <1>1, <1>3, <1>5 DEF Fair, WO!IsRegistry

\* A registry stays fair if the new entry has nothing of another window's, but for panes
\* that were claimed by hand.
LEMMA EntryFair ==
  ASSUME NEW r, NEW cl, Fair(r, cl), NEW w \in Windows, NEW entry \in SUBSET OwnedPanes,
         \A v \in Windows \ {w} : entry \cap (UNION r[v]) \subseteq cl
  PROVE  Fair([r EXCEPT ![w] = {entry}], cl)
<1> DEFINE s == [r EXCEPT ![w] = {entry}]
<1>1. /\ s \in [Windows -> SUBSET SUBSET OwnedPanes]
      /\ s[w] = {entry} /\ \A v \in Windows \ {w} : s[v] = r[v]
  BY DEF Fair, WO!IsRegistry
<1> HIDE DEF s
<1>2. ASSUME NEW v \in Windows PROVE WO!Cardinality(s[v]) <= 1
  <2>1. WO!Cardinality({entry}) = 1
    BY CardinalityOfOwners, FS_Singleton
  <2>2. CASE v = w
    <3>1. s[v] = {entry}
      BY <1>1, <2>2
    <3>2. WO!Cardinality(s[v]) = 1
      BY <2>1, <3>1
    <3> QED BY <3>2
  <2>3. CASE v # w
    BY <1>1, <2>3 DEF Fair, WO!IsRegistry
  <2> QED BY <2>2, <2>3
<1>3. UNION s[w] = entry
  BY <1>1
<1>4. ASSUME NEW v \in Windows, NEW u \in Windows, v # u
      PROVE  (UNION s[v]) \cap (UNION s[u]) \subseteq cl
  BY <1>1, <1>3, <1>4 DEF Fair
<1>5. Fair(s, cl)
  BY <1>1, <1>2, <1>4 DEF Fair, WO!IsRegistry
<1> QED BY <1>5 DEF s

\* It stays fair without an entry.
LEMMA GoneFair ==
  ASSUME NEW r, NEW cl, Fair(r, cl), NEW w \in Windows
  PROVE  Fair([r EXCEPT ![w] = {}], cl)
<1> DEFINE s == [r EXCEPT ![w] = {}]
<1>1. /\ s \in [Windows -> SUBSET SUBSET OwnedPanes]
      /\ s[w] = {} /\ \A v \in Windows \ {w} : s[v] = r[v]
  BY DEF Fair, WO!IsRegistry
<1> HIDE DEF s
<1>2. \A v \in Windows : WO!Cardinality(s[v]) <= 1
  BY <1>1, CardinalityOfOwners, FS_EmptySet DEF Fair, WO!IsRegistry
<1>3. \A v \in Windows : UNION s[v] \subseteq UNION r[v]
  BY <1>1
<1>4. \A v, u \in Windows : v # u => (UNION s[v]) \cap (UNION s[u]) \subseteq cl
  BY <1>3 DEF Fair
<1>5. Fair(s, cl)
  BY <1>1, <1>2, <1>4 DEF Fair, WO!IsRegistry
<1> QED BY <1>5 DEF s

\* A window that has read the registry and changed it fairly is busy with that one.
LEMMA ChangesFair ==
  ASSUME OwnerInv, NEW w \in Windows, NEW r, NEW entry, WO!Changes(w, r, entry),
         claimed \subseteq claimed', Fair([r EXCEPT ![w] = entry], claimed')
  PROVE  /\ FairChanges(claimed)' /\ DOMAIN changing' = Windows
         /\ changing'[w] # {} /\ \A v \in Windows \ {w} : changing'[v] = changing[v]
<1> DEFINE s == [r EXCEPT ![w] = entry]
<1>1. /\ DOMAIN changing' = Windows
      /\ changing'[w] = {s} /\ \A v \in Windows \ {w} : changing'[v] = changing[v]
  BY DEF WO!Changes, OwnerInv, OwnerTypes
<1>2. Fair(s, claimed')
  OBVIOUS
<1> HIDE DEF s
<1>3. ASSUME NEW v \in Windows
      PROVE  (\A t \in changing'[v] : Fair(t, claimed')) /\ WO!Cardinality(changing'[v]) <= 1
  <2>1. CASE v = w
    BY <1>1, <1>2, <2>1, CardinalityOfOwners, FS_Singleton
  <2>2. CASE v # w
    BY <1>1, <2>2, ClaimsExcuse DEF OwnerInv, FairChanges
  <2> QED BY <2>1, <2>2
<1> QED BY <1>1, <1>3 DEF FairChanges

\* resolveWindowOwnership makes a fair entry: what the window has is its own entry's or,
\* if nobody has an entry, everything; what it adds is claimed by none.
LEMMA ResolveFair ==
  ASSUME OwnerInv, NEW w \in Windows, NEW ps \in SUBSET OwnedPanes, WO!Resolve(w, ps),
         UNCHANGED claimed
  PROVE  /\ FairChanges(claimed)' /\ DOMAIN changing' = Windows
         /\ changing'[w] # {} /\ \A v \in Windows \ {w} : changing'[v] = changing[v]
<1> DEFINE kept == (UNION WO!Pruned[w]) \cap ps
           mine == IF kept = {} /\ WO!NoOthers(w) THEN ps ELSE kept
           new == IF WO!Pruned[w] = {} THEN {} ELSE WO!New(w, mine, ps)
           entry(act) == mine \cup new \cup (act \ WO!ClaimedElsewhere(w))
<1>1. PICK act \in {{p} : p \in ps} \cup {{}} : WO!Changes(w, WO!Pruned, {entry(act)})
  BY DEF WO!Resolve
<1>2. entry(act) \in SUBSET OwnedPanes
  BY DEF WO!New
<1>3. ASSUME NEW v \in Windows \ {w}
      PROVE  entry(act) \cap (UNION WO!Pruned[v]) \subseteq claimed
  <2>1. UNION WO!Pruned[v] \subseteq WO!ClaimedElsewhere(w)
    BY DEF WO!ClaimedElsewhere
  <2>2. new \cap WO!ClaimedElsewhere(w) = {}
    BY DEF WO!New
  <2>3. mine \cap (UNION WO!Pruned[v]) \subseteq claimed
    <3>1. CASE kept = {} /\ WO!NoOthers(w)
      BY <3>1 DEF WO!NoOthers
    <3>2. CASE ~(kept = {} /\ WO!NoOthers(w))
      BY <3>2, PrunedFair DEF Fair
    <3>3. QED BY <3>1, <3>2
  <2> HIDE DEF mine, new
  <2>4. QED BY <2>1, <2>2, <2>3
<1> HIDE DEF entry
<1>4. Fair([WO!Pruned EXCEPT ![w] = {entry(act)}], claimed')
  BY <1>2, <1>3, PrunedFair, EntryFair
<1> QED BY <1>1, <1>4, ChangesFair

\* Every step of the windows, of their registry and of the pane list keeps the
\* invariant.
LEMMA OwnerStep == OwnerInv /\ [WO!Next]_(WO!vars) => OwnerInv'
<1> SUFFICES ASSUME OwnerInv, [WO!Next]_(WO!vars) PROVE OwnerInv'
  OBVIOUS
<1> USE DEF OwnerInv
<1>0. WO!Turn => turns' \in 0..MaxTurns
  BY BoundsAreNumbers DEF OwnerTypes, WO!Turn
<1>1. ASSUME NEW w \in Windows, WO!Open(w) PROVE OwnerInv'
  <2>1. WO!Resolve(w, {}) /\ UNCHANGED <<panes, known, registry, stale, claimed, shows, turns>>
        /\ open' = open \cup {w} /\ told' = told \cup {w}
    BY <1>1 DEF WO!Open
  <2>2. FairChanges(claimed)' /\ DOMAIN changing' = Windows
        /\ \A v \in Windows \ {w} : changing'[v] = changing[v]
    BY <2>1, ResolveFair
  <2>3. OwnerTypes'
    BY <2>1, <2>2 DEF OwnerTypes
  <2>4. ToldOrTrue'
    BY <2>1, <2>2 DEF ToldOrTrue, WO!Idle, OwnerTypes
  <2> QED BY <2>1, <2>2, <2>3, <2>4
<1>2. ASSUME NEW w \in Windows, WO!Renders(w) \/ WO!Syncs(w) PROVE OwnerInv'
  <2>1. PICK ps \in SUBSET OwnedPanes : WO!Resolve(w, ps) /\ known' = [known EXCEPT ![w] = ps]
    BY <1>2 DEF WO!Renders, WO!Syncs, OwnerTypes
  <2>2. UNCHANGED <<panes, open, registry, stale, claimed, shows, turns>> /\ told' = told \ {w}
    BY <1>2 DEF WO!Renders, WO!Syncs
  <2>3. FairChanges(claimed)' /\ DOMAIN changing' = Windows
        /\ changing'[w] # {} /\ \A v \in Windows \ {w} : changing'[v] = changing[v]
    BY <2>1, <2>2, ResolveFair
  <2>4. OwnerTypes'
    BY <2>1, <2>2, <2>3 DEF OwnerTypes
  <2>5. ToldOrTrue'
    BY <2>2, <2>3 DEF ToldOrTrue, WO!Idle, OwnerTypes
  <2> QED BY <2>2, <2>3, <2>4, <2>5
<1>3. ASSUME NEW w \in Windows, NEW p \in OwnedPanes, WO!ClaimPane(w, p) PROVE OwnerInv'
  <2> DEFINE entry == (UNION WO!Pruned[w]) \cup {p}
  <2>1. /\ WO!Changes(w, WO!Pruned, {entry}) /\ claimed' = claimed \cup {p} /\ WO!Turn
        /\ UNCHANGED <<panes, open, known, registry, stale, shows, told>>
    BY <1>3 DEF WO!ClaimPane
  <2>2. entry \in SUBSET OwnedPanes
    BY PrunedFair DEF Fair, WO!IsRegistry
  <2>3. Fair(WO!Pruned, claimed') /\ Fair(registry, claimed')
    BY <2>1, PrunedFair, ClaimsExcuse
  <2>4. \A v \in Windows \ {w} : entry \cap (UNION WO!Pruned[v]) \subseteq claimed'
    BY <2>1, <2>3 DEF Fair
  <2> HIDE DEF entry
  <2>5. Fair([WO!Pruned EXCEPT ![w] = {entry}], claimed')
    BY <2>2, <2>3, <2>4, EntryFair
  <2>6. FairChanges(claimed)' /\ DOMAIN changing' = Windows
        /\ changing'[w] # {} /\ \A v \in Windows \ {w} : changing'[v] = changing[v]
    BY <2>1, <2>5, ChangesFair
  <2>7. OwnerTypes'
    BY <1>0, <2>1, <2>6 DEF OwnerTypes
  <2>8. ToldOrTrue'
    BY <2>1, <2>6 DEF ToldOrTrue, WO!Idle, OwnerTypes
  <2> QED BY <2>1, <2>3, <2>6, <2>7, <2>8
<1>4. ASSUME NEW w \in Windows, WO!PageHide(w) PROVE OwnerInv'
  <2>1. /\ UNCHANGED <<panes, registry, stale, claimed>> /\ WO!Turn
        /\ open' = open \ {w} /\ told' = told \ {w}
        /\ known' = [known EXCEPT ![w] = {}] /\ shows' = [shows EXCEPT ![w] = {}]
        /\ UNCHANGED changing \/ WO!Changes(w, registry, {})
    BY <1>4 DEF WO!PageHide
  <2>2. FairChanges(claimed)' /\ DOMAIN changing' = Windows
        /\ \A v \in Windows \ {w} : changing'[v] = changing[v]
    <3>1. CASE UNCHANGED changing
      BY <2>1, <3>1 DEF OwnerTypes, FairChanges
    <3>2. CASE WO!Changes(w, registry, {})
      <4>1. Fair([registry EXCEPT ![w] = {}], claimed')
        BY <2>1, GoneFair
      <4> QED BY <2>1, <3>2, <4>1, ChangesFair
    <3> QED BY <2>1, <3>1, <3>2
  <2>3. OwnerTypes'
    BY <1>0, <2>1, <2>2 DEF OwnerTypes
  <2>4. ToldOrTrue'
    BY <2>1, <2>2 DEF ToldOrTrue, WO!Idle, OwnerTypes
  <2> QED BY <2>1, <2>2, <2>3, <2>4
<1>5. ASSUME NEW w \in Windows, WO!Write(w) PROVE OwnerInv'
  <2>1. PICK r \in changing[w] :
          /\ registry' = r /\ stale' = {v \in stale \ {w} : r[v] # {}}
          /\ shows' = [shows EXCEPT ![w] = UNION r[w]]
    BY <1>5 DEF WO!Write
  <2>2. /\ told' = told \cup (open \ {w}) /\ changing' = [changing EXCEPT ![w] = {}]
        /\ UNCHANGED <<panes, open, known, claimed, turns>>
    BY <1>5 DEF WO!Write, WO!Hear
  <2>3. Fair(r, claimed)
    BY DEF FairChanges
  <2>4. UNION r[w] \in SUBSET OwnedPanes
    BY <2>3 DEF Fair, WO!IsRegistry
  <2>5. OwnerTypes'
    BY <2>1, <2>2, <2>4 DEF OwnerTypes
  <2>6. FairChanges(claimed)'
    BY <2>2, CardinalityOfOwners, FS_EmptySet DEF FairChanges, OwnerTypes
  <2>7. ToldOrTrue'
    BY <2>1, <2>2 DEF ToldOrTrue, WO!Idle, OwnerTypes
  <2> QED BY <2>1, <2>2, <2>3, <2>5, <2>6, <2>7
<1>6. CASE /\ UNCHANGED <<claimed, registry, changing, open, known, shows, told>>
           /\ panes' \subseteq OwnedPanes /\ stale' \subseteq Windows /\ turns' \in 0..MaxTurns
  BY <1>6 DEF OwnerTypes, FairChanges, ToldOrTrue, WO!Idle
<1>7. ASSUME NEW w \in Windows, WO!GoesStale(w) PROVE OwnerInv'
  BY <1>0, <1>6, <1>7 DEF WO!GoesStale, OwnerTypes
<1>8. ASSUME NEW p \in OwnedPanes, WO!PaneAppears(p) \/ WO!PaneEnds(p) PROVE OwnerInv'
  BY <1>0, <1>6, <1>8 DEF WO!PaneAppears, WO!PaneEnds, OwnerTypes
<1>9. CASE UNCHANGED WO!vars
  BY <1>6, <1>9 DEF WO!vars, OwnerTypes
<1>10. QED
  BY <1>1, <1>2, <1>3, <1>4, <1>5, <1>7, <1>8, <1>9 DEF WO!Next

\* The steps of WindowOwnership in a behaviour of the browser are its own, or none.
LEMMA OwnerLift == BrowserSpec => WO!Init /\ [][WO!Next]_(WO!vars)
<1>1. BrowserInit => WO!Init
  BY DEF BrowserInit
<1>2. [BrowserNext]_BrowserVars => [WO!Next]_(WO!vars)
  BY DEF BrowserNext, BrowserVars, ownership, WO!vars
<1>3. QED BY <1>1, <1>2, PTL DEF BrowserSpec

\* No read, write, expiry, close or reload gives two windows of the browser a pane that
\* neither claimed (claimPane), though they write the whole registry from what they read
\* before others wrote it; and a window whose panes were given away so will hear of it.
THEOREM OwnersAreDisjoint == BrowserSpec => []OwnersDisjoint
BY OwnersAre, OwnerInit, OwnerStep, OwnerLift, PTL

-------------------------------------------------------------------------------
(***************************************************************************)
(* ActiveSession: no session the user did not ask for.                     *)
(***************************************************************************)

\* `sessions[0]' is one of the list, unless it is empty.
LEMMA FirstIsOne ==
  ASSUME NEW S, S \subseteq Sessions, S # {} PROVE AS!First(S) \in S
<1>1. \E m \in S : \A n \in S : m <= n
  BY SessionsNumbered, LeastNat
<1>2. QED BY <1>1 DEF AS!First

\* What the URL names the user asked for, or a pane shows; a View is attached only
\* because the user attached it.
SessionInv ==
  /\ owned \subseteq shownPanes /\ shownPanes \subseteq Sessions
  /\ attached \subseteq wanted
  /\ url \in wanted \cup AS!Shown

\* deriveActiveSessionId: a listed session that no pane shows becomes active by the
\* URL alone, never as the remembered one or the first.
LEMMA OnlyUrlIsFree ==
  /\ AS!Active \in AS!Listed => AS!Active = url \/ AS!Active \in AS!Shown
  /\ AS!Active \in {url, 0} \cup AS!Shown
<1>1. AS!Shown \subseteq Sessions
  BY DEF AS!Shown
<1>2. CASE AS!Shown = {}
  BY <1>2, SessionsNumbered DEF AS!Active, AS!First, AS!None, AS!Listed
<1>3. CASE AS!Shown # {}
  BY <1>1, <1>3, FirstIsOne DEF AS!Active
<1>4. QED BY <1>2, <1>3

\* The session a window switches to by itself is a pane's or was attached.
LEMMA FollowedWasAsked ==
  ASSUME SessionInv, AS!Resolved # 0, AS!Resolved # AS!Active
  PROVE  AS!Resolved \in shownPanes \cup wanted
<1>0. AS!First(AS!Pickable) \in AS!Pickable \/ AS!Pickable = {}
  BY FirstIsOne DEF AS!Pickable, AS!Free, SessionInv
<1>1. AS!Resolved \in AS!Pickable
  BY <1>0 DEF AS!Resolved, AS!None
<1>2. QED BY <1>1 DEF AS!Pickable, SessionInv

\* The URL a window is opened with is what its user asked for.
LEMMA SessionInit == AS!Init => SessionInv
  BY DEF AS!Init, SessionInv, AS!Shown

\* Every effect, move of the user and answer of a query keeps the invariant.
LEMMA SessionStep == SessionInv /\ [AS!Next]_(AS!vars) => SessionInv'
<1> SUFFICES ASSUME SessionInv, [AS!Next]_(AS!vars) PROVE SessionInv'
  OBVIOUS
<1> USE DEF SessionInv
<1>1. CASE AS!SyncParam
  BY <1>1, OnlyUrlIsFree DEF AS!SyncParam, AS!Shown, AS!None
<1>2. CASE AS!Remember
  BY <1>2 DEF AS!Remember, AS!Shown
<1>3. CASE AS!FollowScreen
  BY <1>3, FollowedWasAsked DEF AS!FollowScreen, AS!None
<1>4. CASE AS!DropAttached
  BY <1>4 DEF AS!DropAttached, AS!Shown
<1>5. CASE AS!SessionsFetched
  <2>1. CASE url \in wanted
    BY <1>5, <2>1 DEF AS!SessionsFetched, AS!Keeps
  <2>2. CASE url \in AS!Shown
    <3>1. AS!Active = url /\ url # 0
      BY <2>2, SessionsNumbered DEF AS!Active, AS!Shown, AS!Listed
    <3>2. QED BY <1>5, <3>1 DEF AS!SessionsFetched, AS!Keeps, AS!None
  <2>3. QED BY <2>1, <2>2
<1>6. CASE AS!PanesFetched
  BY <1>6 DEF AS!PanesFetched, AS!Shown
<1>7. ASSUME NEW s \in Sessions, AS!UserOpens(s) PROVE SessionInv'
  BY <1>7 DEF AS!UserOpens, AS!Shown
<1>8. ASSUME NEW s \in Sessions, AS!UserAttaches(s) PROVE SessionInv'
  BY <1>8 DEF AS!UserAttaches, AS!Shown
<1>9. CASE UNCHANGED AS!vars
  BY <1>9 DEF AS!vars, AS!Shown
<1>10. QED
  BY <1>1, <1>2, <1>3, <1>4, <1>5, <1>6, <1>7, <1>8, <1>9 DEF AS!Next

\* The steps of ActiveSession in a behaviour of the browser are its own, or none.
LEMMA SessionLift == BrowserSpec => AS!Init /\ [][AS!Next]_(AS!vars)
<1>1. BrowserInit => AS!Init
  BY DEF BrowserInit
<1>2. [BrowserNext]_BrowserVars => [AS!Next]_(AS!vars)
  BY DEF BrowserNext, BrowserVars, session, AS!vars
<1>3. QED BY <1>1, <1>2, PTL DEF BrowserSpec

\* Another app's or agent's session is active only if the user opened it, attached
\* it or had it open when its pane let it go (use-active-session.ts), however the
\* two lists, the URL and the remembered session disagree.
THEOREM NoUnasked == BrowserSpec => []NoUnaskedSession
<1>1. SessionInv => NoUnaskedSession
  <2> SUFFICES ASSUME SessionInv, AS!Active \in AS!Free PROVE AS!Active \in wanted
    BY DEF NoUnaskedSession, AS!NoUnaskedSession
  <2>1. AS!Active \in AS!Listed /\ AS!Active \notin AS!Shown
    BY DEF AS!Free, AS!Listed, AS!Shown
  <2>2. QED BY <2>1, OnlyUrlIsFree DEF SessionInv
<1>2. QED BY <1>1, SessionInit, SessionStep, SessionLift, PTL

-------------------------------------------------------------------------------
(***************************************************************************)
(* AutoCreate: a pane that is shown stays shown while the server has it.   *)
(***************************************************************************)

\* The panes the window knows of, and those the server has, were made.
CreatePanes ==
  /\ born \in 0..MaxPanes
  /\ server \subseteq 1..born /\ showing \subseteq 1..born
  /\ before \subseteq 1..born /\ newPane \subseteq 1..born
  /\ listing = AC!None \/ listing \subseteq 1..born
  /\ prev = AC!None \/ prev \subseteq 1..born

\* The request of the user; what it closes is a pane, and is gone once the server has
\* closed it: no pane is made twice.
CreateUser ==
  /\ user \in [pc : {"idle", "create", "created", "delete", "deleted", "next"},
               left : SUBSET (1..born), adds : BOOLEAN]
  /\ user.pc \in {"delete", "deleted"} => user.left # {}
  /\ user.pc = "deleted" => AC!First \notin server

\* The other types.
CreateFlags ==
  /\ elsewhere \in BOOLEAN /\ loaded \in BOOLEAN /\ external \in BOOLEAN
  /\ creating \in {"none", "user", "auto"}
  /\ making \in BOOLEAN /\ due \in BOOLEAN /\ cancelled \in BOOLEAN
  /\ flow \in {"none", "count", "counted", "enough", "create", "created"}

\* A list that is under way has what is shown and still there: the answer to a create,
\* which may show more, has it read again.
ListHasThem == listing # AC!None => showing \cap server \subseteq listing

\* The inductive invariant.
CreateInv == CreatePanes /\ CreateUser /\ CreateFlags /\ ListHasThem

\* A window begins with the pane the server has for it, or none.
LEMMA CreateInit == AC!Init => CreateInv
<1> SUFFICES ASSUME AC!Init PROVE CreateInv
  OBVIOUS
<1> USE DEF AC!Init
<1>1. CreatePanes
  <2>1. 0 \in 0..MaxPanes /\ 1 \in 0..MaxPanes
    BY BoundsAreNumbers
  <2> QED BY <2>1 DEF CreatePanes
<1>2. CreateUser /\ CreateFlags /\ ListHasThem
  BY DEF CreateUser, CreateFlags, ListHasThem, AC!Idle
<1> QED BY <1>1, <1>2 DEF CreateInv

\* The panes of the server and the list after an answer to a create.
LEMMA AnsweredInv ==
  ASSUME CreateInv, NEW who \in {"user", "auto"}, NEW made \in SUBSET (1..born),
         NEW ok \in BOOLEAN, AC!Answered(who, made, ok), UNCHANGED <<server, born>>
  PROVE  /\ showing' \subseteq 1..born /\ showing \subseteq showing'
         /\ listing' = AC!None \/ listing' \subseteq 1..born
         /\ ListHasThem' /\ creating' \in {"none", "user", "auto"} /\ due' \in BOOLEAN
<1>1. creating' \in {"none", "user", "auto"} /\ due' \in BOOLEAN
  BY DEF AC!Answered, CreateInv, CreateFlags
<1>2. CASE ok
  BY <1>1, <1>2 DEF AC!Answered, CreateInv, CreatePanes, ListHasThem
<1>3. CASE ~ok
  BY <1>1, <1>3 DEF AC!Answered, CreateInv, CreatePanes, ListHasThem
<1> QED BY <1>2, <1>3

\* Every step of the effect, its flow, the user and the other windows keeps the invariant.
LEMMA CreateStep == CreateInv /\ [AC!Next]_(AC!vars) => CreateInv'
<1> SUFFICES ASSUME CreateInv, [AC!Next]_(AC!vars) PROVE CreateInv'
  OBVIOUS
<1>0. MaxPanes \in Nat \ {0} /\ born \in Nat
  BY BoundsAreNumbers DEF CreateInv, CreatePanes
<1>i. CreatePanes /\ CreateUser /\ CreateFlags /\ ListHasThem
  BY DEF CreateInv
<1>b. ASSUME AC!Born
      PROVE  /\ born' \in 0..MaxPanes /\ born' \in 1..born' /\ 1..born \subseteq 1..born'
             /\ born' \notin 1..born /\ server' = server \cup {born'}
  BY <1>0, <1>b DEF AC!Born
<1>f. user.pc \in {"delete", "deleted"} => AC!First \in user.left /\ AC!First \in 1..born
  BY <1>i DEF CreateUser, AC!First
<1> SUFFICES CreatePanes' /\ CreateUser' /\ CreateFlags' /\ ListHasThem'
  BY DEF CreateInv
<1>1. CASE AC!Fetch
  <2> USE <1>1, <1>i DEF AC!Fetch, AC!window, AC!effect
  <2>1. CreatePanes' /\ ListHasThem'
    BY DEF CreatePanes, ListHasThem
  <2> QED BY <2>1 DEF CreateUser, CreateFlags, AC!First
<1>2. CASE AC!Listed
  <2> USE <1>2, <1>i DEF AC!Listed
  <2>1. CreatePanes' /\ ListHasThem'
    BY DEF CreatePanes, ListHasThem
  <2> QED BY <2>1 DEF CreateUser, CreateFlags, AC!First
<1>3. CASE AC!OtherWindow \/ AC!ExternalSlot
  <2>1. UNCHANGED <<server, born, listing, loaded, showing, creating, user, making, prev, flow,
                    newPane, cancelled, before>>
    BY <1>3 DEF AC!OtherWindow, AC!ExternalSlot, AC!window, AC!effect
  <2>2. CreatePanes' /\ ListHasThem' /\ CreateUser'
    BY <1>i, <2>1 DEF CreatePanes, CreateUser, ListHasThem, AC!First
  <2>3. elsewhere' \in BOOLEAN /\ external' \in BOOLEAN /\ due' \in BOOLEAN
    BY <1>3, <1>i DEF AC!OtherWindow, AC!ExternalSlot, AC!window, AC!effect, CreateFlags
  <2> QED BY <1>i, <2>1, <2>2, <2>3 DEF CreateFlags
<1>4. CASE AC!UserAdds
  <2> USE <1>4, <1>i DEF AC!UserAdds, AC!window, AC!BeginCreate
  <2>1. CreatePanes' /\ ListHasThem' /\ CreateFlags'
    BY DEF CreatePanes, ListHasThem, CreateFlags
  <2>2. user' = [user EXCEPT !.pc = "create"] /\ born' = born
    OBVIOUS
  <2>3. CreateUser'
    BY <2>2 DEF CreateUser
  <2> QED BY <2>1, <2>3
<1>5. CASE AC!UserPaneBorn
  <2>1. /\ AC!Born /\ user' = [user EXCEPT !.pc = "created", !.left = {born'}]
        /\ UNCHANGED <<elsewhere, listing, loaded, showing, external, creating, making, prev, due,
                       flow, newPane, cancelled, before>>
    BY <1>5 DEF AC!UserPaneBorn, AC!window, AC!effect
  <2>2. CreatePanes'
    BY <1>b, <1>i, <2>1 DEF CreatePanes
  <2>3. ListHasThem'
    BY <1>b, <1>i, <2>1 DEF CreatePanes, ListHasThem
  <2>4. CreateUser'
    BY <1>b, <1>i, <2>1 DEF CreateUser
  <2> QED BY <1>i, <2>1, <2>2, <2>3, <2>4 DEF CreateFlags
<1>6. CASE AC!UserAnswered
  <2>1. /\ user' = AC!Idle
        /\ UNCHANGED <<server, elsewhere, born, loaded, external, making, prev, flow, newPane,
                       cancelled, before>>
    BY <1>6 DEF AC!UserAnswered
  <2>2. PICK made \in SUBSET (1..born), ok \in BOOLEAN : AC!Answered("user", made, ok)
    BY <1>6, <1>i DEF AC!UserAnswered, CreateUser
  <2>3. /\ showing' \subseteq 1..born
        /\ listing' = AC!None \/ listing' \subseteq 1..born
        /\ ListHasThem' /\ creating' \in {"none", "user", "auto"} /\ due' \in BOOLEAN
    BY <2>1, <2>2, AnsweredInv
  <2>4. CreateUser'
    BY <2>1 DEF CreateUser, AC!Idle
  <2> QED BY <1>i, <2>1, <2>3, <2>4 DEF CreatePanes, CreateFlags
<1>7. CASE AC!UserCloses
  <2>1. UNCHANGED <<server, elsewhere, born, listing, loaded, showing, external, creating, making,
                    prev, due, flow, newPane, cancelled, before>>
    BY <1>7 DEF AC!UserCloses, AC!window, AC!effect
  <2>2. PICK ps \in SUBSET (1..born), b \in BOOLEAN :
          user' = [pc |-> "delete", left |-> ps, adds |-> b] /\ ps # {}
    <3>1. CASE user' = [pc |-> "delete", left |-> showing, adds |-> TRUE] /\ showing # {}
      BY <1>i, <3>1 DEF CreatePanes
    <3>2. ASSUME NEW p \in showing, user' = [pc |-> "delete", left |-> {p}, adds |-> FALSE]
          PROVE  \E ps \in SUBSET (1..born), b \in BOOLEAN :
                   user' = [pc |-> "delete", left |-> ps, adds |-> b] /\ ps # {}
      <4>1. {p} \in SUBSET (1..born) /\ {p} # {} /\ FALSE \in BOOLEAN
        BY <1>i DEF CreatePanes
      <4> QED BY <3>2, <4>1, Zenon
    <3> QED BY <1>7, <3>1, <3>2 DEF AC!UserCloses
  <2>3. CreateUser'
    BY <2>1, <2>2 DEF CreateUser
  <2> QED BY <1>i, <2>1, <2>3 DEF CreatePanes, CreateFlags, ListHasThem
<1>8. CASE AC!CloseAllGoesOn
  <2>1. /\ user.left # {} /\ user' = [user EXCEPT !.pc = "delete"]
        /\ UNCHANGED <<server, elsewhere, born, listing, loaded, showing, external, creating,
                       making, prev, due, flow, newPane, cancelled, before>>
    BY <1>8 DEF AC!CloseAllGoesOn, AC!window, AC!effect
  <2>2. CreateUser'
    BY <1>i, <2>1 DEF CreateUser
  <2> QED BY <1>i, <2>1, <2>2 DEF CreatePanes, CreateFlags, ListHasThem
<1>9. CASE AC!Deleted
  <2>1. /\ user.pc = "delete" /\ server' = server \ {AC!First}
        /\ user' = [user EXCEPT !.pc = "deleted"]
        /\ UNCHANGED <<elsewhere, born, listing, loaded, showing, external, creating, making, prev,
                       due, flow, newPane, cancelled, before>>
    BY <1>9 DEF AC!Deleted, AC!window, AC!effect
  <2>2. user'.left = user.left /\ user'.pc = "deleted" /\ user'.adds = user.adds
        /\ user' \in [pc : {"idle", "create", "created", "delete", "deleted", "next"},
                      left : SUBSET (1..born), adds : BOOLEAN]
    BY <1>i, <2>1 DEF CreateUser
  <2>3. AC!First' = AC!First
    BY <2>2 DEF AC!First
  <2>4. CreateUser'
    BY <1>i, <2>1, <2>2, <2>3 DEF CreateUser
  <2> QED BY <1>i, <2>1, <2>4 DEF CreatePanes, CreateFlags, ListHasThem
<1>10. CASE AC!DeleteAnswered
  <2>1. UNCHANGED <<server, elsewhere, born, loaded, external, creating, making, prev, flow,
                    newPane, cancelled, before>>
    BY <1>10 DEF AC!DeleteAnswered
  <2>2. \/ AC!Shows(showing \ {AC!First}) /\ listing' = AC!None
        \/ UNCHANGED <<showing, due, listing>>
    BY <1>10 DEF AC!DeleteAnswered
  <2>3. \/ user' = AC!Idle
        \/ user' = [user EXCEPT !.pc = "next", !.left = user.left \ {AC!First}]
    BY <1>10 DEF AC!DeleteAnswered
  <2>4. CreateUser'
    <3>1. CASE user' = AC!Idle
      BY <2>1, <3>1 DEF CreateUser, AC!Idle
    <3>2. CASE user' = [user EXCEPT !.pc = "next", !.left = user.left \ {AC!First}]
      <4>1. user.left \ {AC!First} \in SUBSET (1..born)
        BY <1>i DEF CreateUser
      <4> QED BY <1>i, <2>1, <3>2, <4>1 DEF CreateUser
    <3> QED BY <2>3, <3>1, <3>2
  <2>5. due' \in BOOLEAN
    BY <1>i, <2>2 DEF AC!Shows, CreateFlags
  <2>6. CreatePanes' /\ ListHasThem'
    BY <1>i, <2>1, <2>2 DEF AC!Shows, CreatePanes, ListHasThem
  <2> QED BY <1>i, <2>1, <2>4, <2>5, <2>6 DEF CreateFlags
<1>11. CASE AC!Effect
  <2>1. /\ flow' \in {flow, "count"} /\ making' \in BOOLEAN /\ cancelled' \in BOOLEAN
        /\ due' \in BOOLEAN /\ prev' \in {prev, showing} /\ before' = showing
        /\ UNCHANGED <<server, elsewhere, born, listing, loaded, showing, external, creating,
                       user, newPane>>
    BY <1>11, <1>i DEF AC!Effect, AC!window, CreateFlags
  <2>2. CreatePanes'
    BY <1>i, <2>1 DEF CreatePanes
  <2>3. CreateUser' /\ ListHasThem'
    BY <1>i, <2>1 DEF CreateUser, ListHasThem, AC!First
  <2>4. CreateFlags'
    BY <1>i, <2>1 DEF CreateFlags
  <2> QED BY <2>2, <2>3, <2>4
<1>12. CASE AC!Counts
  <2>1. /\ flow' \in {"counted", "enough"}
        /\ UNCHANGED <<server, elsewhere, born, listing, loaded, showing, external, creating, user,
                       making, prev, due, newPane, cancelled, before>>
    BY <1>12 DEF AC!Counts, AC!window
  <2> QED BY <1>i, <2>1 DEF CreatePanes, CreateUser, CreateFlags, ListHasThem, AC!First
<1>13. CASE AC!Counted
  <2>1. /\ flow' \in {"create", "none"} /\ newPane' \in {newPane, {}}
        /\ creating' \in {"auto", creating}
        /\ UNCHANGED <<server, elsewhere, born, listing, loaded, showing, external, user, prev,
                       before>>
    BY <1>13 DEF AC!Counted, AC!window, AC!BeginCreate, AC!Ends
  <2>2. making' \in BOOLEAN /\ due' \in BOOLEAN /\ cancelled' \in BOOLEAN
    BY <1>13, <1>i DEF AC!Counted, AC!BeginCreate, AC!Ends, CreateFlags
  <2> QED BY <1>i, <2>1, <2>2 DEF CreatePanes, CreateUser, CreateFlags, ListHasThem, AC!First
<1>14. CASE AC!AutoPaneBorn
  <2>1. /\ AC!Born /\ flow' = "created" /\ newPane' = {born'}
        /\ UNCHANGED <<elsewhere, listing, loaded, showing, external, creating, user, making, prev,
                       due, cancelled, before>>
    BY <1>14 DEF AC!AutoPaneBorn, AC!window
  <2>2. CreatePanes'
    BY <1>b, <1>i, <2>1 DEF CreatePanes
  <2>3. ListHasThem'
    BY <1>b, <1>i, <2>1 DEF CreatePanes, ListHasThem
  <2>4. CreateUser'
    <3>1. AC!First' = AC!First
      BY <2>1 DEF AC!First
    <3> QED BY <1>b, <1>f, <1>i, <2>1, <3>1 DEF CreateUser
  <2> QED BY <1>i, <2>1, <2>2, <2>3, <2>4 DEF CreateFlags
<1>15. CASE AC!AutoAnswered
  <2>1. /\ flow' = "none" /\ newPane' = {} /\ making' \in BOOLEAN /\ cancelled' = FALSE
        /\ UNCHANGED <<server, elsewhere, born, loaded, external, user, prev, before>>
    BY <1>15, <1>i DEF AC!AutoAnswered, AC!Ends, CreateFlags
  <2>2. PICK made \in SUBSET (1..born), ok \in BOOLEAN : AC!Answered("auto", made, ok)
    BY <1>15, <1>i DEF AC!AutoAnswered, CreatePanes
  <2>3. /\ showing' \subseteq 1..born
        /\ listing' = AC!None \/ listing' \subseteq 1..born
        /\ ListHasThem' /\ creating' \in {"none", "user", "auto"} /\ due' \in BOOLEAN
    BY <2>1, <2>2, AnsweredInv
  <2>4. CreateUser'
    BY <1>i, <2>1 DEF CreateUser, AC!First
  <2> QED BY <1>i, <2>1, <2>3, <2>4 DEF CreatePanes, CreateFlags
<1>16. CASE UNCHANGED AC!vars
  BY <1>16, <1>i DEF AC!vars, AC!window, AC!effect, CreatePanes, CreateUser, CreateFlags,
                     ListHasThem, AC!First
<1> QED
  BY <1>1, <1>2, <1>3, <1>4, <1>5, <1>6, <1>7, <1>8, <1>9, <1>10, <1>11, <1>12, <1>13, <1>14,
     <1>15, <1>16 DEF AC!Next

\* The steps of AutoCreate in a behaviour of the browser are its own, or none.
LEMMA CreateLift == BrowserSpec => AC!Init /\ [][AC!Next]_(AC!vars)
<1>1. BrowserInit => AC!Init
  BY DEF BrowserInit
<1>2. [BrowserNext]_BrowserVars => [AC!Next]_(AC!vars)
  BY DEF BrowserNext, BrowserVars, autocreate, AC!vars, AC!window, AC!effect
<1>3. QED BY <1>1, <1>2, PTL DEF BrowserSpec

\* What takes a pane from the list is a list that was read when it was gone, or the answer
\* to its own close.
LEMMA NothingVanishes ==
  ASSUME CreateInv, [AC!Next]_(AC!vars), NEW p \in showing \ showing' PROVE p \notin server
<1>1. CASE AC!Listed
  BY <1>1 DEF AC!Listed, CreateInv, ListHasThem
<1>2. CASE AC!DeleteAnswered
  <2>1. user.pc = "deleted" /\ p = AC!First
    BY <1>2 DEF AC!DeleteAnswered, AC!Shows
  <2> QED BY <2>1 DEF CreateInv, CreateUser
<1>3. CASE AC!UserAnswered \/ AC!AutoAnswered
  BY <1>3 DEF AC!UserAnswered, AC!AutoAnswered, AC!Answered
<1>4. CASE UNCHANGED showing
  BY <1>4
<1> QED
  BY <1>1, <1>2, <1>3, <1>4
     DEF AC!Next, AC!vars, AC!window, AC!Fetch, AC!OtherWindow, AC!ExternalSlot, AC!UserAdds,
         AC!UserPaneBorn, AC!UserCloses, AC!CloseAllGoesOn, AC!Deleted, AC!Effect, AC!Counts,
         AC!Counted, AC!AutoPaneBorn

\* A pane the window shows is not taken from it while the server has it, though lists are
\* read before panes are made and answered after (use-a-term-panes.ts): the effect that
\* makes a pane for an empty window is not misled into it by an old list.
THEOREM PanesStayShown == BrowserSpec => ShownWhileThere
<1>1. CreateInv /\ [AC!Next]_(AC!vars)
        => [\A p \in showing \ showing' : p \notin server]_(AC!vars)
  BY NothingVanishes
<1> QED
  BY <1>1, CreateInit, CreateStep, CreateLift, PTL DEF ShownWhileThere, AC!ShownWhileThere

-------------------------------------------------------------------------------
(***************************************************************************)
(* Dictation: every word once and in order.                                *)
(***************************************************************************)

\* A word is said once.
Distinct(w) == \A i, j \in 1..Len(w) : w[i] = w[j] => i = j

\* What follows the words shared: parts of one sequence that overlap or meet.
LEMMA SuffixOf ==
  ASSUME NEW W, NEW w \in Seq(W), Distinct(w),
         NEW a \in Nat, NEW b \in Nat, NEW c \in Nat, NEW d \in Nat,
         a <= b, b <= c, c <= d, d <= Len(w)
  PROVE  DI!Suffix(SubSeq(w, a + 1, c), SubSeq(w, b + 1, d)) = SubSeq(w, c + 1, d)
<1> DEFINE s == SubSeq(w, a + 1, c)
           t == SubSeq(w, b + 1, d)
           shared == {k \in 1..Len(s) : k <= Len(t)
                       /\ SubSeq(s, Len(s) - k + 1, Len(s)) = SubSeq(t, 1, k)}
<1>1. /\ s \in Seq(W) /\ Len(s) = c - a /\ \A i \in 1..c - a : s[i] = w[a + i]
      /\ t \in Seq(W) /\ Len(t) = d - b /\ \A i \in 1..d - b : t[i] = w[b + i]
  <2>1. a <= c /\ c <= Len(w) /\ b <= d
    OBVIOUS
  <2>2. s \in Seq(W) /\ Len(s) = c - a /\ \A i \in 1..c - a : s[i] = w[a + i]
    BY <2>1, PartOf
  <2>3. t \in Seq(W) /\ Len(t) = d - b /\ \A i \in 1..d - b : t[i] = w[b + i]
    BY <2>1, PartOf
  <2> QED BY <2>2, <2>3
<1>2. \A k \in 1..c - a : k <= d - b => 
        /\ SubSeq(s, c - a - k + 1, c - a) = SubSeq(w, c - k + 1, c)
        /\ SubSeq(t, 1, k) = SubSeq(w, b + 1, b + k)
  <2> SUFFICES ASSUME NEW k \in 1..c - a, k <= d - b
               PROVE  /\ SubSeq(s, c - a - k + 1, c - a) = SubSeq(w, c - k + 1, c)
                      /\ SubSeq(t, 1, k) = SubSeq(w, b + 1, b + k)
    OBVIOUS
  <2>1. /\ c - a - k \in Nat /\ c - a \in Nat /\ c - a - k <= c - a /\ a <= c /\ c <= Len(w)
        /\ a + (c - a - k) + 1 = c - k + 1 /\ a + (c - a) = c /\ c - a <= c - a
    OBVIOUS
  <2>2. SubSeq(s, c - a - k + 1, c - a) = SubSeq(w, a + (c - a - k) + 1, a + (c - a))
    BY <2>1, PartOfPart
  <2>3. 0 + 1 = 1 /\ b + 0 + 1 = b + 1 /\ b <= d /\ 0 <= k /\ k \in Nat
    OBVIOUS
  <2>4. SubSeq(t, 0 + 1, k) = SubSeq(w, b + 0 + 1, b + k)
    BY <2>3, PartOfPart
  <2> QED BY <2>1, <2>2, <2>3, <2>4
<1> HIDE DEF s, t
<1>3. \A k \in shared : k = c - b
  <2> SUFFICES ASSUME NEW k \in shared PROVE k = c - b
    OBVIOUS
  <2>1. /\ k \in 1..c - a /\ k <= d - b /\ SubSeq(s, c - a - k + 1, c - a) = SubSeq(t, 1, k)
    BY <1>1
  <2>2. SubSeq(w, c - k + 1, c) = SubSeq(w, b + 1, b + k)
    BY <1>2, <2>1
  <2>3. /\ c - k \in Nat /\ c - k <= c /\ c <= Len(w) /\ b + k \in Nat /\ b <= b + k /\ b + k <= Len(w)
        /\ 1 \in 1..c - (c - k) /\ 1 \in 1..b + k - b
    BY <2>1
  <2>4. SubSeq(w, c - k + 1, c)[1] = w[c - k + 1]
    BY <2>3, PartOf
  <2>5. SubSeq(w, b + 1, b + k)[1] = w[b + 1]
    BY <2>3, PartOf
  <2>6. c - k + 1 \in 1..Len(w) /\ b + 1 \in 1..Len(w)
    BY <2>1, <2>3
  <2>7. c - k + 1 = b + 1
    BY <2>2, <2>4, <2>5, <2>6 DEF Distinct
  <2> QED BY <2>1, <2>7
<1>4. b < c => c - b \in shared
  <2> SUFFICES ASSUME b < c PROVE c - b \in shared
    OBVIOUS
  <2>1. c - b \in 1..c - a /\ c - b <= d - b /\ c - (c - b) = b /\ b + (c - b) = c
    OBVIOUS
  <2>2. SubSeq(s, c - a - (c - b) + 1, c - a) = SubSeq(t, 1, c - b)
    BY <1>2, <2>1
  <2> QED BY <1>1, <2>1, <2>2
<1>5. DI!Overlap(s, t) = c - b
  <2>1. DI!Overlap(s, t) = IF shared = {} THEN 0 ELSE CHOOSE k \in shared : \A l \in shared : l <= k
    BY DEF DI!Overlap
  <2>2. CASE b < c
    <3>1. c - b \in shared /\ c - b <= c - b
      BY <1>4, <2>2
    <3> HIDE DEF shared
    <3>2. \E k \in shared : \A l \in shared : l <= k
      BY <1>3, <3>1
    <3>3. (CHOOSE k \in shared : \A l \in shared : l <= k) \in shared
      BY <3>2
    <3> QED BY <1>3, <2>1, <3>1, <3>3
  <2>3. CASE ~(b < c)
    <3>1. c - b = 0
      BY <2>3
    <3>2. shared = {}
      <4>1. \A k \in shared : k \in 1..Len(s) /\ k # 0
        BY <1>1
      <4> HIDE DEF shared
      <4> QED BY <1>3, <3>1, <4>1
    <3> HIDE DEF shared
    <3> QED BY <2>1, <3>1, <3>2
  <2> QED BY <2>2, <2>3
<1>6. SubSeq(t, c - b + 1, d - b) = SubSeq(w, c + 1, d)
  <2>1. /\ c - b \in Nat /\ d - b \in Nat /\ c - b <= d - b /\ b <= d
        /\ b + (c - b) + 1 = c + 1 /\ b + (d - b) = d
    OBVIOUS
  <2>2. SubSeq(t, c - b + 1, d - b) = SubSeq(w, b + (c - b) + 1, b + (d - b))
    BY <2>1, PartOfPart DEF t
  <2> QED BY <2>1, <2>2
<1>7. DI!Suffix(s, t) = SubSeq(w, c + 1, d)
  BY <1>1, <1>5, <1>6 DEF DI!Suffix
<1> QED BY <1>7 DEF s, t

\* Sequences that share no word.
LEMMA SuffixApart ==
  ASSUME NEW W, NEW s \in Seq(W), NEW t \in Seq(W),
         \A i \in 1..Len(s), j \in 1..Len(t) : s[i] # t[j]
  PROVE  DI!Suffix(s, t) = t
<1> DEFINE shared == {k \in 1..Len(s) : k <= Len(t)
                       /\ SubSeq(s, Len(s) - k + 1, Len(s)) = SubSeq(t, 1, k)}
<1>1. Len(s) \in Nat /\ Len(t) \in Nat
  OBVIOUS
<1>2. shared = {}
  <2> SUFFICES ASSUME NEW k \in shared PROVE FALSE
    OBVIOUS
  <2>1. k \in 1..Len(s) /\ k <= Len(t) /\ SubSeq(s, Len(s) - k + 1, Len(s)) = SubSeq(t, 1, k)
    OBVIOUS
  <2> HIDE DEF shared
  <2>2. /\ Len(s) - k \in Nat /\ Len(s) - k <= Len(s) /\ 1 \in 1..Len(s) - (Len(s) - k)
        /\ Len(s) - k + 1 \in 1..Len(s) /\ 1 \in 1..Len(t) /\ 0 + 1 = 1 /\ k \in Nat
        /\ 1 \in 1..k - 0 /\ 0 <= k
    BY <1>1, <2>1
  <2>3. SubSeq(s, Len(s) - k + 1, Len(s))[1] = s[Len(s) - k + 1]
    BY <1>1, <2>2, PartOf
  <2>4. SubSeq(t, 0 + 1, k)[1] = t[0 + 1]
    BY <2>1, <2>2, PartOf
  <2> QED BY <2>1, <2>2, <2>3, <2>4
<1>3. DI!Overlap(s, t) = 0
  BY <1>2 DEF DI!Overlap
<1>4. SubSeq(t, 1, Len(t)) = t
  OBVIOUS
<1> QED BY <1>3, <1>4 DEF DI!Suffix

\* A suffix is of the same words.
LEMMA SuffixIn ==
  ASSUME NEW W, NEW s \in Seq(W), NEW t \in Seq(W)
  PROVE  DI!Suffix(s, t) \in Seq(W) /\ DI!Overlap(s, t) \in Nat
<1> DEFINE shared == {k \in 1..Len(s) : k <= Len(t)
                       /\ SubSeq(s, Len(s) - k + 1, Len(s)) = SubSeq(t, 1, k)}
<1>1. shared \subseteq 1..Len(s) /\ Len(s) \in Nat
  OBVIOUS
<1>2. DI!Overlap(s, t) = IF shared = {} THEN 0 ELSE CHOOSE k \in shared : \A l \in shared : l <= k
  BY DEF DI!Overlap
<1>3. DI!Overlap(s, t) \in Nat
  <2>1. CASE shared = {}
    BY <1>2, <2>1
  <2>2. CASE shared # {}
    <3>1. \E k \in shared : \A l \in shared : l <= k
      <4> DEFINE over == {n \in Nat : \A l \in shared : l <= n}
      <4>1. Len(s) \in over /\ over \subseteq Nat
        BY <1>1
      <4>2. PICK n \in over : \A m \in over : n <= m
        <5> HIDE DEF over
        <5> QED BY <4>1, LeastNat
      <4>3. n \in Nat /\ \A l \in shared : l <= n
        BY <4>2
      <4>4. n \in shared
        <5> SUFFICES ASSUME n \notin shared PROVE FALSE
          OBVIOUS
        <5>1. \A l \in shared : l \in 1..Len(s) /\ l # n
          BY <1>1
        <5> HIDE DEF shared
        <5>2. n >= 1 /\ \A l \in shared : l <= n - 1
          <6>1. \A l \in shared : l \in Nat /\ l >= 1
            BY <1>1, <5>1
          <6> QED BY <2>2, <4>3, <5>1, <6>1
        <5>3. n - 1 \in over
          BY <4>3, <5>2
        <5> QED BY <4>2, <4>3, <5>3
      <4> QED BY <4>3, <4>4
    <3> HIDE DEF shared
    <3>2. DI!Overlap(s, t) \in shared
      BY <1>2, <2>2, <3>1
    <3>3. DI!Overlap(s, t) \in 1..Len(s)
      BY <1>1, <3>2
    <3> QED BY <3>3
  <2> QED BY <2>1, <2>2
<1>4. DI!Suffix(s, t) = SubSeq(t, DI!Overlap(s, t) + 1, Len(t))
  BY DEF DI!Suffix
<1>5. Len(t) \in Nat /\ \A i \in DI!Overlap(s, t) + 1..Len(t) : t[i] \in W
  BY <1>3
<1>6. SubSeq(t, DI!Overlap(s, t) + 1, Len(t)) \in Seq(W)
  BY <1>3, <1>5, SubSeqProperties
<1> QED BY <1>3, <1>4, <1>6

\* Two transcripts as one: what mergeTranscriptSegments does with each next one.
Both(s, t) == s \o DI!Suffix(s, t)

\* The recursion of Merge: one value for each start of the segments.
LEMMA MergeDef ==
  ASSUME NEW W, NEW q \in Seq(Seq(W))
  PROVE  \E g \in [0..Len(q) -> Seq(W)] :
           /\ g[0] = <<>> /\ DI!Merge(q) = g[Len(q)]
           /\ \A n \in 1..Len(q) : g[n] = Both(g[n - 1], q[n])
<1> DEFINE T == Seq(W)
           step == [p \in T \X T |-> Both(p[1], p[2])]
           Is(f) == f = [n \in 0..Len(q) |->
                          IF n = 0 THEN <<>>
                          ELSE f[n - 1] \o DI!Suffix(f[n - 1], q[n])]
           f == CHOOSE x : Is(x)
<1>1. DI!Merge(q) = f[Len(q)]
  BY DEF DI!Merge
<1>2. <<>> \in T /\ step \in [T \X T -> T]
  <2>1. \A s, t \in T : Both(s, t) \in T
    <3> SUFFICES ASSUME NEW s \in T, NEW t \in T PROVE Both(s, t) \in T
      OBVIOUS
    <3>1. DI!Suffix(s, t) \in T
      BY SuffixIn
    <3> QED BY <3>1, ConcatProperties DEF Both
  <2>2. <<>> \in T
    OBVIOUS
  <2> HIDE DEF T
  <2>3. step \in [T \X T -> T]
    BY <2>1
  <2> QED BY <2>2, <2>3
<1>3. PICK g \in [0..Len(q) -> T] :
        g[0] = <<>> /\ \A n \in 1..Len(q) : g[n] = step[<<g[n - 1], q[n]>>]
  <2>1. q \in Seq(T)
    OBVIOUS
  <2> HIDE DEF T, step, f
  <2>2. \E g : Computes(g, T, <<>>, step, q)
    BY <1>2, <2>1, Recursion
  <2> QED BY <2>2 DEF Computes
<1>4. \A n \in 1..Len(q) : g[n] = Both(g[n - 1], q[n])
  <2> SUFFICES ASSUME NEW n \in 1..Len(q) PROVE g[n] = Both(g[n - 1], q[n])
    OBVIOUS
  <2>1. n - 1 \in 0..Len(q) /\ q[n] \in T
    OBVIOUS
  <2> HIDE DEF T
  <2>2. <<g[n - 1], q[n]>> \in T \X T
    BY <1>3, <2>1
  <2>3. step[<<g[n - 1], q[n]>>] = Both(g[n - 1], q[n])
    BY <2>2
  <2> QED BY <1>3, <2>3
<1> HIDE DEF step
<1>5. Is(g)
  <2> DEFINE e(n) == IF n = 0 THEN <<>> ELSE g[n - 1] \o DI!Suffix(g[n - 1], q[n])
  <2>1. \A n \in 0..Len(q) : g[n] = e(n)
    <3> SUFFICES ASSUME NEW n \in 0..Len(q) PROVE g[n] = e(n)
      OBVIOUS
    <3>1. CASE n = 0
      BY <1>3, <3>1
    <3>2. CASE n # 0
      <4>1. n \in 1..Len(q)
        BY <3>2
      <4>2. g[n] = g[n - 1] \o DI!Suffix(g[n - 1], q[n])
        BY <1>4, <4>1 DEF Both
      <4> QED BY <3>2, <4>2
    <3> QED BY <3>1, <3>2
  <2>2. g = [n \in 0..Len(q) |-> g[n]]
    BY <1>3
  <2> HIDE DEF e
  <2>3. g = [n \in 0..Len(q) |-> e(n)]
    BY <2>1, <2>2
  <2> QED BY <2>3 DEF e
<1>6. Is(f)
  BY <1>5
<1>7. /\ f[0] = <<>>
      /\ \A n \in 1..Len(q) : f[n] = Both(f[n - 1], q[n])
  <2> HIDE DEF f
  <2>1. f = [n \in 0..Len(q) |->
               IF n = 0 THEN <<>> ELSE f[n - 1] \o DI!Suffix(f[n - 1], q[n])]
    BY <1>6
  <2> HIDE DEF Is
  <2>2. Len(q) \in Nat /\ \A n \in 1..Len(q) : n \in 0..Len(q) /\ n # 0
    OBVIOUS
  <2>3. f[0] = <<>>
    BY <2>1, <2>2
  <2>4. ASSUME NEW n \in 1..Len(q) PROVE f[n] = Both(f[n - 1], q[n])
    <3>1. n \in 0..Len(q) /\ n # 0
      BY <2>2
    <3>2. f[n] = f[n - 1] \o DI!Suffix(f[n - 1], q[n])
      BY <2>1, <3>1
    <3> QED BY <3>2 DEF Both
  <2> QED BY <2>3, <2>4
<1>8. \A n \in 0..Len(q) : g[n] = f[n]
  <2> DEFINE Apart == {n \in 0..Len(q) : g[n] # f[n]}
  <2> SUFFICES ASSUME Apart # {} PROVE FALSE
    OBVIOUS
  <2>1. PICK n \in Apart : \A k \in Apart : n <= k
    <3>1. Apart \subseteq Nat
      OBVIOUS
    <3> HIDE DEF Apart
    <3> QED BY <3>1, LeastNat
  <2> HIDE DEF f
  <2>2. n \in 1..Len(q) /\ n - 1 \in 0..Len(q) /\ ~(n <= n - 1)
    BY <1>3, <1>7, <2>1
  <2>3. g[n - 1] = f[n - 1]
    BY <2>1, <2>2
  <2> QED BY <1>4, <1>7, <2>1, <2>2, <2>3
<1>9. DI!Merge(q) = g[Len(q)]
  <2>1. Len(q) \in 0..Len(q)
    OBVIOUS
  <2> QED BY <1>1, <1>8, <2>1
<1> QED BY <1>3, <1>4, <1>9

\* A merge is one of the segments but the last, and then of that one.
LEMMA MergeAppend ==
  ASSUME NEW W, NEW q \in Seq(Seq(W)), NEW c \in Seq(W)
  PROVE  /\ DI!Merge(q) \in Seq(W)
         /\ DI!Merge(Append(q, c)) = Both(DI!Merge(q), c)
<1> DEFINE t == Append(q, c)
<1>1. /\ t \in Seq(Seq(W)) /\ Len(q) \in Nat /\ Len(t) = Len(q) + 1 /\ t[Len(t)] = c
      /\ \A n \in 1..Len(q) : t[n] = q[n]
  OBVIOUS
<1> HIDE DEF t
<1>2. PICK g \in [0..Len(q) -> Seq(W)] :
        /\ g[0] = <<>> /\ DI!Merge(q) = g[Len(q)]
        /\ \A n \in 1..Len(q) : g[n] = Both(g[n - 1], q[n])
  BY MergeDef
<1>3. PICK h \in [0..Len(t) -> Seq(W)] :
        /\ h[0] = <<>> /\ DI!Merge(t) = h[Len(t)]
        /\ \A n \in 1..Len(t) : h[n] = Both(h[n - 1], t[n])
  BY <1>1, MergeDef
<1>4. \A n \in 0..Len(q) : g[n] = h[n]
  <2> DEFINE Apart == {n \in 0..Len(q) : g[n] # h[n]}
  <2> SUFFICES ASSUME Apart # {} PROVE FALSE
    OBVIOUS
  <2>1. PICK n \in Apart : \A k \in Apart : n <= k
    <3>1. Apart \subseteq Nat
      OBVIOUS
    <3> HIDE DEF Apart
    <3> QED BY <3>1, LeastNat
  <2>2. n \in 1..Len(q) /\ n - 1 \in 0..Len(q) /\ ~(n <= n - 1) /\ n \in 1..Len(t)
    BY <1>1, <1>2, <1>3, <2>1
  <2>3. g[n - 1] = h[n - 1] /\ t[n] = q[n]
    BY <1>1, <2>1, <2>2
  <2> QED BY <1>2, <1>3, <2>1, <2>2, <2>3
<1>5. Len(t) \in 1..Len(t) /\ Len(t) - 1 = Len(q) /\ Len(q) \in 0..Len(q)
  BY <1>1
<1>6. h[Len(t) - 1] = DI!Merge(q) /\ DI!Merge(q) \in Seq(W)
  BY <1>2, <1>4, <1>5
<1>7. DI!Merge(t) = Both(DI!Merge(q), c)
  BY <1>1, <1>3, <1>5, <1>6
<1> QED BY <1>6, <1>7 DEF t

\* The short lists that the code merges.
LEMMA ShortLists ==
  ASSUME NEW T, NEW r \in T, NEW s \in T, NEW t \in T
  PROVE  /\ Append(<<>>, s) = <<s>> /\ <<s>> \in Seq(T)
         /\ Append(<<s>>, t) = <<s, t>> /\ <<s, t>> \in Seq(T)
         /\ Append(<<r, s>>, t) = <<r, s, t>>
<1>1. Append(<<>>, s) = <<s>> /\ <<s>> \in Seq(T) /\ Len(<<s>>) = 1 /\ <<s>>[1] = s
  OBVIOUS
<1>2. <<s, t>> \in Seq(T) /\ Len(<<s, t>>) = 2 /\ <<s, t>>[1] = s /\ <<s, t>>[2] = t
  OBVIOUS
<1>3. <<r, s>> \in Seq(T) /\ Len(<<r, s>>) = 2 /\ <<r, s>>[1] = r /\ <<r, s>>[2] = s
  OBVIOUS
<1>4. /\ <<r, s, t>> \in Seq(T) /\ Len(<<r, s, t>>) = 3
      /\ <<r, s, t>>[1] = r /\ <<r, s, t>>[2] = s /\ <<r, s, t>>[3] = t
  OBVIOUS
<1>5. Append(<<s>>, t) = <<s, t>>
  <2> DEFINE u == Append(<<s>>, t)
             v == <<s, t>>
             e == <<s>>
  <2>1. e \in Seq(T) /\ Len(e) = 1 /\ e[1] = s /\ u = Append(e, t)
    BY <1>1
  <2>2. v \in Seq(T) /\ Len(v) = 2 /\ v[1] = s /\ v[2] = t
    BY <1>2
  <2> HIDE DEF u, v, e
  <2>3. u \in Seq(T) /\ Len(u) = 1 + 1 /\ u[1 + 1] = t /\ \A i \in 1..1 : u[i] = e[i]
    <3>1. u \in Seq(T) /\ Len(u) = Len(e) + 1 /\ u[Len(e) + 1] = t /\ \A i \in 1..Len(e) : u[i] = e[i]
      BY <2>1, Appended
    <3> QED BY <2>1, <3>1
  <2>4. u[1] = s /\ u[2] = t /\ Len(u) = 2 /\ \A i \in 1..2 : i = 1 \/ i = 2
    BY <2>1, <2>3
  <2>5. \A i \in 1..2 : u[i] = v[i]
    BY <2>2, <2>4
  <2>6. u = v
    BY <2>2, <2>3, <2>4, <2>5, SeqEqual
  <2> QED BY <2>6 DEF u, v
<1>6. Append(<<r, s>>, t) = <<r, s, t>>
  <2> DEFINE u == Append(<<r, s>>, t)
             v == <<r, s, t>>
             e == <<r, s>>
  <2>1. e \in Seq(T) /\ Len(e) = 2 /\ e[1] = r /\ e[2] = s /\ u = Append(e, t)
    BY <1>3
  <2>2. v \in Seq(T) /\ Len(v) = 3 /\ v[1] = r /\ v[2] = s /\ v[3] = t
    BY <1>4
  <2> HIDE DEF u, v, e
  <2>3. u \in Seq(T) /\ Len(u) = 2 + 1 /\ u[2 + 1] = t /\ \A i \in 1..2 : u[i] = e[i]
    <3>1. u \in Seq(T) /\ Len(u) = Len(e) + 1 /\ u[Len(e) + 1] = t /\ \A i \in 1..Len(e) : u[i] = e[i]
      BY <2>1, Appended
    <3> QED BY <2>1, <3>1
  <2>4. /\ u[1] = r /\ u[2] = s /\ u[3] = t /\ Len(u) = 3
        /\ \A i \in 1..3 : i = 1 \/ i = 2 \/ i = 3
    BY <2>1, <2>3
  <2>5. \A i \in 1..3 : u[i] = v[i]
    BY <2>2, <2>4
  <2>6. u = v
    BY <2>2, <2>3, <2>4, <2>5, SeqEqual
  <2> QED BY <2>6 DEF u, v
<1> QED BY <1>1, <1>2, <1>5, <1>6

\* What is merged with nothing stays, and merging keeps to the words.
LEMMA BothIn ==
  ASSUME NEW W, NEW s \in Seq(W), NEW t \in Seq(W)
  PROVE  Both(<<>>, t) = t /\ Both(s, t) \in Seq(W)
<1>1. DI!Suffix(<<>>, t) = t
  <2>1. <<>> \in Seq(W) /\ \A i \in 1..Len(<<>>) : FALSE
    OBVIOUS
  <2> QED BY <2>1, SuffixApart
<1>2. DI!Suffix(s, t) \in Seq(W)
  BY SuffixIn
<1> QED BY <1>1, <1>2, ConcatEmptySeq, ConcatProperties DEF Both

\* The merges of none, one, two and three.
LEMMA MergeNone == DI!Merge(<<>>) = <<>>
<1>1. <<>> \in Seq(Seq({})) /\ Len(<<>>) = 0
  OBVIOUS
<1>2. PICK g \in [0..Len(<<>>) -> Seq({})] : g[0] = <<>> /\ DI!Merge(<<>>) = g[Len(<<>>)]
  BY <1>1, MergeDef
<1> QED BY <1>1, <1>2

\* Merging one segment, two and three is joining them in turn.
LEMMA MergeOne ==
  ASSUME NEW W, NEW s \in Seq(W)
  PROVE  DI!Merge(<<s>>) = s
<1> DEFINE T == Seq(W)
<1>1. DI!Merge(<<>>) = <<>>
  BY MergeNone
<1>2. <<>> \in Seq(T) /\ s \in T
  OBVIOUS
<1> HIDE DEF T
<1>3. Append(<<>>, s) = <<s>>
  BY <1>2, ShortLists, Zenon
<1>4. DI!Merge(Append(<<>>, s)) = Both(DI!Merge(<<>>), s)
  BY <1>2, MergeAppend DEF T
<1> QED BY <1>1, <1>3, <1>4, BothIn

LEMMA MergeTwo ==
  ASSUME NEW W, NEW s \in Seq(W), NEW t \in Seq(W)
  PROVE  DI!Merge(<<s, t>>) = Both(s, t)
<1> DEFINE T == Seq(W)
<1>1. s \in T /\ t \in T
  OBVIOUS
<1> HIDE DEF T
<1>2. <<s>> \in Seq(T) /\ Append(<<s>>, t) = <<s, t>>
  BY <1>1, ShortLists, Zenon
<1>3. DI!Merge(Append(<<s>>, t)) = Both(DI!Merge(<<s>>), t)
  BY <1>1, <1>2, MergeAppend DEF T
<1>4. DI!Merge(<<s>>) = s
  BY MergeOne
<1> QED BY <1>2, <1>3, <1>4

LEMMA MergeThree ==
  ASSUME NEW W, NEW r \in Seq(W), NEW s \in Seq(W), NEW t \in Seq(W)
  PROVE  DI!Merge(<<r, s, t>>) = Both(Both(r, s), t)
<1> DEFINE T == Seq(W)
<1>1. r \in T /\ s \in T /\ t \in T
  OBVIOUS
<1> HIDE DEF T
<1>2. <<r, s>> \in Seq(T) /\ Append(<<r, s>>, t) = <<r, s, t>>
  BY <1>1, ShortLists, Zenon
<1>3. DI!Merge(Append(<<r, s>>, t)) = Both(DI!Merge(<<r, s>>), t)
  BY <1>1, <1>2, MergeAppend DEF T
<1>4. DI!Merge(<<r, s>>) = Both(r, s)
  BY MergeTwo
<1> QED BY <1>2, <1>3, <1>4

\* Parts of one sequence that overlap or meet: both are the part they cover.
LEMMA BothOf ==
  ASSUME NEW W, NEW w \in Seq(W), Distinct(w),
         NEW a \in Nat, NEW b \in Nat, NEW c \in Nat, NEW d \in Nat,
         a <= b, b <= c, c <= d, d <= Len(w)
  PROVE  Both(SubSeq(w, a + 1, c), SubSeq(w, b + 1, d)) = SubSeq(w, a + 1, d)
<1>1. DI!Suffix(SubSeq(w, a + 1, c), SubSeq(w, b + 1, d)) = SubSeq(w, c + 1, d)
  BY SuffixOf
<1>2. SubSeq(w, a + 1, d) = SubSeq(w, a + 1, c) \o SubSeq(w, c + 1, d)
  BY CutInTwo
<1> QED BY <1>1, <1>2 DEF Both

-------------------------------------------------------------------------------
\* The words of a text after the a-th, up to the b-th.
Part(w, a, b) == SubSeq(w, a + 1, b)

\* What is known of a part.
IsPart(p, W, w, a, b) ==
  /\ p \in Seq(W) /\ Len(p) = b - a
  /\ \A i \in 1..b - a : p[i] = w[a + i]

\* Part of a sequence is the part it names,
LEMMA PartIs ==
  ASSUME NEW W, NEW w \in Seq(W), NEW a \in Nat, NEW b \in Nat, a <= b, b <= Len(w)
  PROVE  IsPart(Part(w, a, b), W, w, a, b)
BY PartOf DEF Part, IsPart

\* is empty when it ends where it begins,
LEMMA PartIsEmpty ==
  ASSUME NEW W, NEW w \in Seq(W), NEW a \in Nat, NEW b \in Nat, a <= b, b <= Len(w)
  PROVE  a = b <=> Part(w, a, b) = <<>>
<1> DEFINE s == Part(w, a, b)
<1>1. s \in Seq(W) /\ Len(s) = b - a
  BY PartIs DEF IsPart
<1> HIDE DEF s
<1>2. s = <<>> <=> Len(s) = 0
  BY <1>1, EmptySeq
<1> QED BY <1>1, <1>2 DEF s

\* is all of it from its start to its end,
LEMMA PartIsWhole ==
  ASSUME NEW W, NEW w \in Seq(W)
  PROVE  Part(w, 0, Len(w)) = w
<1>1. SubSeq(w, 1, Len(w)) = w
  BY SubSeqFull
<1> QED BY <1>1 DEF Part

\* and goes on with the part that follows.
LEMMA PartsMeet ==
  ASSUME NEW W, NEW w \in Seq(W), NEW a \in Nat, NEW b \in Nat, NEW c \in Nat,
         a <= b, b <= c, c <= Len(w)
  PROVE  Part(w, a, b) \o Part(w, b, c) = Part(w, a, c)
BY CutInTwo DEF Part

\* Parts that overlap or meet, merged.
LEMMA PartsMerge ==
  ASSUME NEW W, NEW w \in Seq(W), Distinct(w),
         NEW a \in Nat, NEW b \in Nat, NEW c \in Nat, NEW d \in Nat,
         a <= b, b <= c, c <= d, d <= Len(w)
  PROVE  /\ Both(Part(w, a, c), Part(w, b, d)) = Part(w, a, d)
         /\ DI!Suffix(Part(w, a, c), Part(w, b, d)) = Part(w, c, d)
<1>1. Both(SubSeq(w, a + 1, c), SubSeq(w, b + 1, d)) = SubSeq(w, a + 1, d)
  BY BothOf, SMTT(60)
<1>2. DI!Suffix(SubSeq(w, a + 1, c), SubSeq(w, b + 1, d)) = SubSeq(w, c + 1, d)
  BY SuffixOf
<1> QED BY <1>1, <1>2 DEF Part

\* A part is known by its words.
LEMMA PartEquals ==
  ASSUME NEW W, NEW w \in Seq(W), NEW a \in Nat, NEW b \in Nat, a <= b, b <= Len(w),
         NEW t \in Seq(W), Len(t) = b - a, \A i \in 1..b - a : t[i] = w[a + i]
  PROVE  Part(w, a, b) = t
<1> DEFINE p == Part(w, a, b)
<1>1. IsPart(p, W, w, a, b)
  BY PartIs
<1> HIDE DEF p
<1>2. p \in Seq(W) /\ Len(p) = b - a /\ \A i \in 1..b - a : p[i] = w[a + i]
  BY <1>1 DEF IsPart
<1>3. p = t
  BY <1>2, SeqEqual
<1> QED BY <1>3 DEF p

\* Two texts one after the other: each is a part of both.
LEMMA PartsOfTwo ==
  ASSUME NEW W, NEW s \in Seq(W), NEW t \in Seq(W)
  PROVE  /\ s \o t \in Seq(W) /\ Len(s \o t) = Len(s) + Len(t) /\ Len(s) \in Nat /\ Len(t) \in Nat
         /\ \A i \in 1..Len(s) : (s \o t)[i] = s[i]
         /\ \A i \in 1..Len(t) : (s \o t)[Len(s) + i] = t[i]
         /\ Part(s \o t, 0, Len(s)) = s
         /\ Part(s \o t, Len(s), Len(s) + Len(t)) = t
<1> DEFINE w == s \o t
           m == Len(s)
           n == Len(t)
<1>1. m \in Nat /\ n \in Nat
  BY LenProperties
<1>2. /\ w \in Seq(W) /\ Len(w) = m + n
      /\ \A i \in 1..m + n : w[i] = IF i <= m THEN s[i] ELSE t[i - m]
  BY ConcatProperties
<1> HIDE DEF w
<1>3. \A i \in 1..m : w[i] = s[i]
  <2> HIDE DEF m, n
  <2> QED BY <1>1, <1>2
<1>4. \A i \in 1..n : w[m + i] = t[i]
  <2> HIDE DEF m, n
  <2> SUFFICES ASSUME NEW i \in 1..n PROVE w[m + i] = t[i]
    OBVIOUS
  <2> DEFINE k == m + i
  <2>1. k \in 1..m + n /\ ~(k <= m) /\ k - m = i
    BY <1>1
  <2> HIDE DEF k
  <2>2. w[k] = t[k - m]
    BY <1>2, <2>1
  <2> QED BY <2>1, <2>2 DEF k
<1>8. Part(w, 0, m) = s
  <2>1. 0 <= m /\ m <= Len(w) /\ m - 0 = m /\ \A i \in 1..m : 0 + i = i
    BY <1>1, <1>2
  <2>2. s \in Seq(W) /\ Len(s) = m - 0 /\ \A i \in 1..m - 0 : s[i] = w[0 + i]
    BY <1>3, <2>1
  <2> HIDE DEF m
  <2> QED BY <1>1, <1>2, <2>1, <2>2, PartEquals
<1>9. Part(w, m, m + n) = t
  <2> DEFINE k == m + n
  <2>1. k \in Nat /\ m <= k /\ k <= Len(w) /\ k - m = n
    BY <1>1, <1>2
  <2>2. t \in Seq(W) /\ Len(t) = n
    OBVIOUS
  <2> HIDE DEF m, n, k
  <2>3. Len(t) = k - m /\ \A i \in 1..k - m : t[i] = w[m + i]
    BY <1>4, <2>1, <2>2
  <2>4. Part(w, m, k) = t
    BY <1>1, <1>2, <2>1, <2>2, <2>3, PartEquals
  <2> QED BY <2>4 DEF k
<1> QED BY <1>1, <1>2, <1>3, <1>4, <1>8, <1>9 DEF w

\* Two texts that are the same up to the h-th word.
LEMMA PartsSame ==
  ASSUME NEW W, NEW w \in Seq(W), NEW v \in Seq(W), NEW a \in Nat, NEW b \in Nat,
         a <= b, b <= Len(w), b <= Len(v), \A i \in 1..b : v[i] = w[i]
  PROVE  Part(v, a, b) = Part(w, a, b)
<1>1. /\ Part(w, a, b) \in Seq(W) /\ Len(Part(w, a, b)) = b - a
      /\ \A i \in 1..b - a : Part(w, a, b)[i] = w[a + i]
  <2>1. IsPart(Part(w, a, b), W, w, a, b)
    BY PartIs
  <2> QED BY <2>1 DEF IsPart
<1>2. /\ Part(v, a, b) \in Seq(W) /\ Len(Part(v, a, b)) = b - a
      /\ \A i \in 1..b - a : Part(v, a, b)[i] = v[a + i]
  <2>1. IsPart(Part(v, a, b), W, v, a, b)
    BY PartIs
  <2> QED BY <2>1 DEF IsPart
<1>3. \A i \in 1..b - a : a + i \in 1..b
  OBVIOUS
<1>4. \A i \in 1..b - a : Part(v, a, b)[i] = Part(w, a, b)[i]
  BY <1>1, <1>2, <1>3
<1> QED BY <1>1, <1>2, <1>4, SeqEqual
-------------------------------------------------------------------------------
\* The final words of a result and those after them: what OnResult makes of the
\* words of the cycles before, F and P, its own final ones, C, and its guess, U.
FinalOf(F, P, C) == IF P # <<>> THEN F ELSE DI!Merge(<<F, C>>)
\* What a result shows as unsettled: P from the last cycle, C settled in this one
\* after it, and U unsure.
InterimOf(P, C, U) == DI!Merge(<<P, IF P # <<>> THEN C ELSE <<>>, U>>)

\* Words of which each is said once do not begin again.
LEMMA NeverConfirmed ==
  ASSUME NEW W, NEW v \in Seq(W), Distinct(v), NEW b \in Nat, NEW p \in Nat, NEW h \in Nat,
         b <= p, p <= h, h <= Len(v), b # p
  PROVE  ~DI!IsPrefix(Part(v, b, p), Part(v, p, h))
<1> SUFFICES ASSUME DI!IsPrefix(Part(v, b, p), Part(v, p, h)) PROVE FALSE
  OBVIOUS
<1> DEFINE P == Part(v, b, p)
           C == Part(v, p, h)
<1>1. IsPart(P, W, v, b, p) /\ IsPart(C, W, v, p, h)
  <2>1. p <= Len(v)
    OBVIOUS
  <2> QED BY <2>1, PartIs
<1>2. Len(P) <= Len(C) /\ SubSeq(P, 1, Len(P)) = SubSeq(C, 1, Len(P))
  BY DEF DI!IsPrefix
<1> HIDE DEF P, C
<1>3. /\ P \in Seq(W) /\ Len(P) = p - b /\ \A i \in 1..p - b : P[i] = v[b + i]
      /\ C \in Seq(W) /\ Len(C) = h - p /\ \A i \in 1..h - p : C[i] = v[p + i]
  BY <1>1 DEF IsPart
<1>4. /\ p - b \in Nat /\ 1 \in 1..p - b /\ 1 \in 1..h - p /\ 1 \in 1..p - b - 0
      /\ 0 + 1 = 1 /\ p - b <= h - p
  BY <1>2, <1>3
<1>5. SubSeq(P, 0 + 1, p - b)[1] = P[0 + 1]
  BY <1>3, <1>4, PartOf
<1>6. SubSeq(C, 0 + 1, p - b)[1] = C[0 + 1]
  BY <1>3, <1>4, PartOf
<1>7. v[b + 1] = v[p + 1] /\ b + 1 \in 1..Len(v) /\ p + 1 \in 1..Len(v)
  BY <1>2, <1>3, <1>4, <1>5, <1>6
<1>8. b + 1 = p + 1
  BY <1>7 DEF Distinct
<1> QED BY <1>8

\* A result whose words are parts of v makes transcripts that are v.
LEMMA ResultParts ==
  ASSUME NEW W, NEW v \in Seq(W), Distinct(v),
         NEW b \in Nat, NEW p \in Nat, NEW q \in Nat, NEW h \in Nat,
         b <= p, p <= q, q <= h, h <= Len(v),
         NEW F, F = Part(v, 0, b), NEW P, P = Part(v, b, p), NEW C, C = Part(v, p, h),
         NEW U, U = Part(v, q, Len(v))
  PROVE  /\ FinalOf(F, P, C) \in Seq(W) /\ InterimOf(P, C, U) \in Seq(W)
         /\ Both(FinalOf(F, P, C), InterimOf(P, C, U)) = v
<1> DEFINE n == Len(v)
           E == Part(v, q, q)
<1>1. /\ n \in Nat /\ n = Len(v) /\ n <= n /\ h <= n /\ p <= n /\ b <= n /\ q <= n /\ p <= h
      /\ b <= q /\ b <= h /\ q <= q /\ 0 \in Nat /\ 0 <= b /\ 0 <= q /\ 0 <= p
  BY LenProperties
<1>2. F \in Seq(W) /\ P \in Seq(W) /\ C \in Seq(W) /\ U \in Seq(W) /\ E \in Seq(W)
  <2>1. 0 <= b /\ 0 \in Nat /\ q <= n /\ n <= n
    BY <1>1
  <2>2. IsPart(F, W, v, 0, b) /\ IsPart(P, W, v, b, p) /\ IsPart(C, W, v, p, h)
    BY <1>1, <2>1, PartIs
  <2>3. IsPart(U, W, v, q, n) /\ IsPart(E, W, v, q, q)
    BY <1>1, <2>1, PartIs
  <2> HIDE DEF E, n
  <2> QED BY <2>2, <2>3 DEF IsPart
<1>3. E = <<>> /\ (P = <<>> <=> b = p)
  BY <1>1, PartIsEmpty
<1>4. Part(v, 0, n) = v
  BY PartIsWhole
<1> HIDE DEF n, E
<1>5. DI!Merge(<<F, C>>) = Both(F, C)
  BY <1>2, MergeTwo
<1>6. DI!Merge(<<P, C, U>>) = Both(Both(P, C), U)
  BY <1>2, MergeThree
<1>7. DI!Merge(<<E, E, U>>) = Both(Both(E, E), U)
  BY <1>2, MergeThree
<1>8. CASE P = <<>>
  <2>1. b = p
    BY <1>3, <1>8
  <2>2. Both(F, C) = Part(v, 0, h)
    BY <1>1, <2>1, PartsMerge
  <2>3. Both(E, E) = E
    BY <1>1, PartsMerge DEF E
  <2>4. Both(E, U) = U
    BY <1>1, PartsMerge DEF E, n
  <2>5. FinalOf(F, P, C) = Part(v, 0, h)
    BY <1>5, <1>8, <2>2 DEF FinalOf
  <2>6. InterimOf(P, C, U) = U
    <3>1. InterimOf(P, C, U) = DI!Merge(<<E, E, U>>)
      BY <1>3, <1>8 DEF InterimOf
    <3> QED BY <1>7, <2>3, <2>4, <3>1
  <2>7. Both(Part(v, 0, h), Part(v, q, n)) = Part(v, 0, n)
    BY <1>1, PartsMerge
  <2>8. Part(v, 0, h) \in Seq(W)
    <3>1. IsPart(Part(v, 0, h), W, v, 0, h)
      BY <1>1, PartIs
    <3> QED BY <3>1 DEF IsPart
  <2> QED BY <1>2, <1>4, <2>5, <2>6, <2>7, <2>8 DEF n
<1>9. CASE P # <<>>
  <2>1. Both(P, C) = Part(v, b, h)
    BY <1>1, PartsMerge
  <2>2. Both(Part(v, b, h), U) = Part(v, b, n)
    BY <1>1, PartsMerge DEF n
  <2>3. Both(F, Part(v, b, n)) = Part(v, 0, n)
    BY <1>1, PartsMerge
  <2>4. FinalOf(F, P, C) = F
    BY <1>9 DEF FinalOf
  <2>5. InterimOf(P, C, U) = Part(v, b, n)
    <3>1. InterimOf(P, C, U) = DI!Merge(<<P, C, U>>)
      BY <1>9 DEF InterimOf
    <3> QED BY <1>6, <2>1, <2>2, <3>1
  <2>6. Part(v, b, n) \in Seq(W)
    <3>1. IsPart(Part(v, b, n), W, v, b, n)
      BY <1>1, PartIs DEF n
    <3> QED BY <3>1 DEF IsPart
  <2> QED BY <1>2, <1>4, <2>3, <2>4, <2>5, <2>6
<1> QED BY <1>8, <1>9

-------------------------------------------------------------------------------
\* What the hook and the panel have when the transcripts are v: the panel's text
\* follows what is final, or stays as the user corrected it.
TellsOf(v) ==
  /\ final' \in DI!Words /\ interim' \in DI!Words /\ Both(final', interim') = v
  /\ recognized' = v /\ baseline' = baseline
  /\ edited' = IF baseline = DI!None THEN final' ELSE edited

\* A panel that follows the hook goes on following it.
LEMMA PanelTells ==
  ASSUME NEW f \in DI!Words, NEW i \in DI!Words, NEW v \in DI!Words, v # <<>>, Both(f, i) = v,
         DI!Transcribed(f, i), panel, recognized = Both(final, interim),
         baseline = DI!None => edited = final
  PROVE  TellsOf(v)
<1>1. DI!Merge(<<f, i>>) = v
  BY MergeTwo DEF DI!Words
<1>2. final' = f /\ interim' = i
  BY DEF DI!Transcribed
<1>3. CASE f # final \/ i # interim
  <2>1. /\ recognized' = DI!Merge(<<f, i>>)
        /\ baseline' = IF DI!Merge(<<f, i>>) = <<>> /\ recognized # <<>> THEN DI!None ELSE baseline
        /\ edited' = IF baseline' = DI!None THEN f ELSE edited
    BY <1>3 DEF DI!Transcribed
  <2> QED BY <1>1, <1>2, <2>1 DEF TellsOf
<1>4. CASE f = final /\ i = interim
  <2>1. UNCHANGED <<edited, baseline, recognized>>
    BY <1>4 DEF DI!Transcribed, DI!draft
  <2> QED BY <1>2, <1>4, <2>1 DEF TellsOf
<1> QED BY <1>3, <1>4

\* A result whose words are parts of v, of which the cycle confirms none again.
LEMMA ResultTells ==
  ASSUME DI!TypeOK, NEW v \in DI!Words, v # <<>>, Distinct(v),
         NEW b \in Nat, NEW p \in Nat, NEW q \in Nat, NEW h \in Nat,
         b <= p, p <= q, q <= h, h <= Len(v),
         cycle.final = Part(v, 0, b), cycle.interim = Part(v, b, p),
         NEW segments \in Seq(DI!Words), DI!Merge(segments) = Part(v, p, h),
         NEW unsure, unsure = Part(v, q, Len(v)),
         panel, recognized = Both(final, interim), baseline = DI!None => edited = final,
         DI!OnResult(segments, unsure)
  PROVE  /\ TellsOf(v)
         /\ cycle' = [cycle EXCEPT !.segments = segments]
         /\ failed' \in BOOLEAN /\ UNCHANGED <<rec, requested, status, cycles>>
<1> DEFINE F == cycle.final
           P == cycle.interim
           C == DI!Merge(segments)
           f == FinalOf(F, P, C)
           i == InterimOf(P, C, unsure)
<1>1. ~(P # <<>> /\ DI!IsPrefix(P, C))
  <2>1. CASE b = p
    <3>1. b <= Len(v) /\ v \in Seq(1..MaxWords)
      BY <2>1 DEF DI!Words
    <3>2. P = <<>>
      BY <2>1, <3>1, PartIsEmpty
    <3> QED BY <3>2
  <2>2. CASE b # p
    <3>1. p <= h /\ v \in Seq(1..MaxWords)
      BY DEF DI!Words
    <3>2. ~DI!IsPrefix(Part(v, b, p), Part(v, p, h))
      BY <2>2, <3>1, NeverConfirmed
    <3> QED BY <3>2
  <2> QED BY <2>1, <2>2
<1>2. f \in DI!Words /\ i \in DI!Words /\ Both(f, i) = v
  <2>1. /\ v \in Seq(1..MaxWords)
        /\ F = Part(v, 0, b) /\ P = Part(v, b, p) /\ C = Part(v, p, h)
    BY DEF DI!Words
  <2> HIDE DEF F, P, C, f, i
  <2>2. /\ FinalOf(F, P, C) \in Seq(1..MaxWords) /\ InterimOf(P, C, unsure) \in Seq(1..MaxWords)
        /\ Both(FinalOf(F, P, C), InterimOf(P, C, unsure)) = v
    BY <2>1, ResultParts
  <2> QED BY <2>2 DEF f, i, DI!Words
<1>3. DI!Transcribed(f, i) /\ cycle' = [cycle EXCEPT !.interim = P, !.segments = segments]
  <2> DEFINE earlier == IF P # <<>> /\ DI!IsPrefix(P, C) THEN <<>> ELSE P
  <2>1. earlier = P
    BY <1>1
  <2>2. /\ cycle' = [cycle EXCEPT !.interim = earlier, !.segments = segments]
        /\ DI!Transcribed(
             IF earlier # <<>> THEN F ELSE DI!Merge(<<F, C>>),
             DI!Merge(<<earlier, IF earlier # <<>> THEN C ELSE <<>>, unsure>>))
    BY DEF DI!OnResult
  <2> HIDE DEF earlier, F, P, C
  <2> QED BY <2>1, <2>2 DEF FinalOf, InterimOf
<1>4. cycle' = [cycle EXCEPT !.segments = segments]
  BY <1>3 DEF DI!TypeOK
<1>5. failed' \in BOOLEAN /\ UNCHANGED <<rec, requested, status, cycles>>
  BY DEF DI!OnResult, DI!TypeOK
<1>6. TellsOf(v)
  <2> HIDE DEF f, i
  <2> QED BY <1>2, <1>3, PanelTells
<1> QED BY <1>4, <1>5, <1>6

-------------------------------------------------------------------------------
\* w are the words there are, and the browser is not sure of those after the h-th.
Heard(w, h) ==
  /\ Distinct(w) /\ \A i \in 1..Len(w) : w[i] <= said
  /\ Both(final, interim) = w /\ guess = Part(w, h, Len(w))

\* The cycle goes on where those earlier ended: what was final then, what they left
\* unfinished, and the final words of its own.
InCycle(w, h) ==
  \E b, p \in 0..h :
    /\ b <= p /\ cycle.final = Part(w, 0, b) /\ cycle.interim = Part(w, b, p)
    /\ DI!Merge(cycle.segments) = Part(w, p, h)

\* The user corrected the panel's text when e words were known, to words of their own.
Corrected(w, h, e) ==
  /\ baseline = Part(w, 0, e) /\ DI!Left = edited \o Part(w, e, h)
  /\ \A i \in 1..Len(edited) : edited[i] <= said /\ \A j \in e + 1..Len(w) : edited[i] # w[j]

\* What the panel has of the words w, of which the user is sure up to the h-th.
OnPanel(w, h) ==
  /\ recognized = w
  /\ baseline = DI!None => edited = final /\ DI!Left = Part(w, 0, h)
  /\ baseline # DI!None => \E e \in 0..h : Corrected(w, h, e)

\* All the parts of the hook and the panel tell the words w.
Told(w, h) ==
  Heard(w, h) /\ (rec # "none" => InCycle(w, h)) /\ (panel => OnPanel(w, h))

\* Without a panel there is nothing.
NothingShown ==
  /\ rec = "none" /\ final = <<>> /\ interim = <<>> /\ settled = <<>>

\* Nothing is guessed or asked for without a recognizer, and it shows.
Locked ==
  /\ rec = "none" => guess = <<>> /\ ~requested
  /\ status \in {"listening", "processing"} <=> rec # "none"

\* The invariant: some words are told, and the rest of WordsKept.
DictationInv ==
  /\ DI!TypeOK
  /\ \E w \in DI!Words : \E h \in 0..Len(w) : Told(w, h)
  /\ ~panel => NothingShown
  /\ Locked
  /\ DI!SendsWhatIsShown

-------------------------------------------------------------------------------
\* Part of words is words.
LEMMA PartIn ==
  ASSUME NEW v \in DI!Words, NEW a \in Nat, NEW b \in Nat, a <= b, b <= Len(v)
  PROVE  Part(v, a, b) \in DI!Words /\ Len(Part(v, a, b)) = b - a
<1>1. v \in Seq(1..MaxWords)
  BY DEF DI!Words
<1>2. IsPart(Part(v, a, b), 1..MaxWords, v, a, b)
  BY <1>1, PartIs
<1> QED BY <1>2 DEF IsPart, DI!Words

\* What is left grows as what is settled does.
LEMMA LeftGrows ==
  ASSUME DI!TypeOK, NEW t \in DI!Words, settled' = settled \o t, gone' = gone
  PROVE  DI!Left' = DI!Left \o t /\ settled' \in DI!Words /\ gone' \in 0..Len(settled')
<1> DEFINE s == settled
           u == s \o t
           n == Len(s)
           m == Len(t)
           g == gone
<1>1. s \in Seq(1..MaxWords) /\ t \in Seq(1..MaxWords) /\ g \in Nat /\ g <= n
  BY DEF DI!TypeOK, DI!Words
<1>2. DI!Left = Part(s, g, n)
  BY DEF DI!Left, Part
<1>3. settled' = u /\ DI!Left' = Part(u, g, Len(u))
  BY DEF DI!Left, Part
<1> HIDE DEF s, g
<1>4. /\ u \in Seq(1..MaxWords) /\ Len(u) = n + m /\ n \in Nat /\ m \in Nat
      /\ \A i \in 1..n : u[i] = s[i]
      /\ Part(u, n, n + m) = t
  BY <1>1, PartsOfTwo
<1> HIDE DEF u, n, m
<1>5. Part(u, g, n) = Part(s, g, n)
  <2>1. n <= Len(u) /\ n <= Len(s)
    BY <1>4 DEF n
  <2> QED BY <1>1, <1>4, <2>1, PartsSame
<1>6. Part(u, g, n) \o Part(u, n, n + m) = Part(u, g, n + m)
  <2>1. n + m \in Nat /\ n <= n + m /\ n + m <= Len(u) /\ g <= n
    BY <1>1, <1>4
  <2> QED BY <1>1, <1>4, <2>1, PartsMeet
<1>7. u \in DI!Words /\ g \in 0..Len(u)
  BY <1>1, <1>4 DEF DI!Words
<1> QED BY <1>2, <1>3, <1>4, <1>5, <1>6, <1>7 DEF g

\* What is left of what nothing was taken from, or all.
LEMMA LeftIs ==
  ASSUME NEW s \in DI!Words, settled' = s
  PROVE  /\ gone' = 0 => DI!Left' = s
         /\ gone' = Len(s) => DI!Left' = <<>>
<1>1. s \in Seq(1..MaxWords) /\ Len(s) \in Nat /\ Len(s) <= Len(s)
  BY DEF DI!Words
<1>2. DI!Left' = Part(s, gone', Len(s))
  BY DEF DI!Left, Part
<1>3. Part(s, 0, Len(s)) = s /\ Part(s, Len(s), Len(s)) = <<>>
  BY <1>1, PartIsWhole, PartIsEmpty
<1> QED BY <1>2, <1>3

\* A transcript of the words after the h-th is a part of v, with or without the cycle's.
LEMMA TranscriptIs ==
  ASSUME DI!TypeOK, NEW v \in DI!Words, NEW p \in Nat, NEW h \in Nat, p <= h, h <= Len(v),
         DI!Merge(cycle.segments) = Part(v, p, h),
         NEW words, words = Part(v, h, Len(v))
  PROVE  \E q \in Nat : p <= q /\ q <= h /\ DI!Transcript(words) = Part(v, q, Len(v))
<1>1. v \in Seq(1..MaxWords) /\ Len(v) \in Nat /\ Len(v) <= Len(v)
  BY DEF DI!Words
<1>2. Part(v, p, h) \o Part(v, h, Len(v)) = Part(v, p, Len(v))
  BY <1>1, PartsMeet
<1>3. CASE cumulative
  <2>1. DI!Transcript(words) = Part(v, p, Len(v))
    BY <1>2, <1>3 DEF DI!Transcript
  <2> QED BY <2>1
<1>4. CASE ~cumulative
  <2>1. DI!Transcript(words) = Part(v, h, Len(v))
    BY <1>4 DEF DI!Transcript
  <2> QED BY <2>1
<1> QED BY <1>3, <1>4

\* The panel follows when the words become v, of which those up to the k-th are sure.
LEMMA PanelGrows ==
  ASSUME DI!TypeOK, NEW w \in DI!Words, NEW h \in 0..Len(w), OnPanel(w, h),
         NEW v \in DI!Words, NEW k \in Nat, h <= k, k <= Len(v),
         \A i \in 1..h : v[i] = w[i],
         \A j \in 1..Len(v) : v[j] > said \/ (j <= Len(w) /\ v[j] = w[j]),
         TellsOf(v), DI!Left' = DI!Left \o Part(v, h, k), said' \in Nat, said' >= said
  PROVE  OnPanel(v, k)'
<1> DEFINE n == Len(v)
<1>1. /\ v \in Seq(1..MaxWords) /\ w \in Seq(1..MaxWords) /\ n \in Nat /\ Len(w) \in Nat
      /\ h \in Nat /\ h <= Len(w) /\ h <= n
  BY DEF DI!Words
<1>2. \A e \in 0..h : /\ Part(v, e, h) = Part(w, e, h) /\ Part(v, 0, e) = Part(w, 0, e)
                      /\ Part(v, e, h) \o Part(v, h, k) = Part(v, e, k)
  <2> SUFFICES ASSUME NEW e \in 0..h
               PROVE  /\ Part(v, e, h) = Part(w, e, h) /\ Part(v, 0, e) = Part(w, 0, e)
                      /\ Part(v, e, h) \o Part(v, h, k) = Part(v, e, k)
    OBVIOUS
  <2>1. e \in Nat /\ e <= h /\ 0 \in Nat /\ 0 <= e /\ e <= Len(w) /\ e <= n
    BY <1>1
  <2>2. \A i \in 1..e : v[i] = w[i]
    BY <1>1, <2>1
  <2>3. Part(v, e, h) = Part(w, e, h)
    BY <1>1, <2>1, PartsSame
  <2>4. Part(v, 0, e) = Part(w, 0, e)
    BY <1>1, <2>1, <2>2, PartsSame
  <2>5. Part(v, e, h) \o Part(v, h, k) = Part(v, e, k)
    BY <1>1, <2>1, PartsMeet
  <2> QED BY <2>3, <2>4, <2>5
<1>3. recognized' = v /\ baseline' = baseline
  BY DEF TellsOf
<1>4. CASE baseline = DI!None
  <2>1. edited' = final'
    BY <1>4 DEF TellsOf
  <2>2. DI!Left = Part(w, 0, h)
    BY <1>4 DEF OnPanel
  <2>3. DI!Left' = Part(v, 0, k)
    <3>1. 0 \in 0..h
      BY <1>1
    <3> QED BY <1>2, <2>2, <3>1
  <2> QED BY <1>3, <1>4, <2>1, <2>3 DEF OnPanel
<1>5. CASE baseline # DI!None
  <2>1. PICK e \in 0..h : Corrected(w, h, e)
    BY <1>5 DEF OnPanel
  <2>2. edited' = edited /\ edited \in DI!Words
    BY <1>5 DEF TellsOf, DI!TypeOK
  <2>3. DI!Left' = edited \o Part(v, e, k)
    <3>1. DI!Left' = (edited \o Part(v, e, h)) \o Part(v, h, k)
      BY <1>2, <2>1 DEF Corrected
    <3>2. Part(v, e, h) \in DI!Words /\ Part(v, h, k) \in DI!Words
      BY <1>1, PartIn
    <3>3. InAnyOrder(edited, Part(v, e, h), Part(v, h, k))
      BY <2>2, <3>2, Joined DEF DI!Words
    <3> QED BY <1>2, <3>1, <3>3 DEF InAnyOrder
  <2>4. baseline' = Part(v, 0, e)
    BY <1>2, <1>3, <2>1 DEF Corrected
  <2>5. \A i \in 1..Len(edited) : edited[i] <= said' /\ \A j \in e + 1..n : edited[i] # v[j]
    <3> SUFFICES ASSUME NEW i \in 1..Len(edited)
                 PROVE  edited[i] <= said' /\ \A j \in e + 1..n : edited[i] # v[j]
      OBVIOUS
    <3>1. edited[i] \in Nat /\ said \in Nat
      <4>1. edited \in Seq(1..MaxWords) /\ said \in 0..MaxWords
        BY <2>2 DEF DI!TypeOK, DI!Words
      <4>2. edited[i] \in 1..MaxWords
        BY <4>1, ElementOfSeq
      <4> QED BY <4>1, <4>2, WordsAreBounded
    <3>2. edited[i] <= said /\ \A j \in e + 1..Len(w) : edited[i] # w[j]
      BY <2>1 DEF Corrected
    <3>3. ASSUME NEW j \in e + 1..n PROVE edited[i] # v[j]
      <4>1. j \in 1..n
        BY <1>1
      <4>2. CASE v[j] > said
        <5>1. v[j] \in Nat
          <6>1. v[j] \in 1..MaxWords
            BY <1>1, <4>1, ElementOfSeq
          <6> QED BY <6>1, WordsAreBounded
        <5> QED BY <3>1, <3>2, <4>2, <5>1
      <4>3. CASE j <= Len(w) /\ v[j] = w[j]
        <5>1. j \in e + 1..Len(w)
          BY <1>1, <4>3
        <5> QED BY <3>2, <4>3, <5>1
      <4> QED BY <4>1, <4>2, <4>3
    <3> QED BY <3>1, <3>2, <3>3
  <2>6. Corrected(v, k, e)'
    BY <2>2, <2>3, <2>4, <2>5 DEF Corrected
  <2>7. e \in 0..k
    BY <1>1
  <2> QED BY <1>3, <1>5, <2>6, <2>7 DEF OnPanel
<1> QED BY <1>4, <1>5

\* A result keeps the invariant: the words become v, of which those up to the k-th are
\* sure, and the segments and the guess are parts of v.
LEMMA ResultTold ==
  ASSUME DictationInv, rec # "none", NEW w \in DI!Words, NEW h \in 0..Len(w), Told(w, h),
         NEW v \in DI!Words, v # <<>>, Distinct(v), NEW k \in Nat, h <= k, k <= Len(v),
         \A i \in 1..h : v[i] = w[i],
         \A j \in 1..Len(v) : v[j] > said \/ (j <= Len(w) /\ v[j] = w[j]),
         \A j \in 1..Len(v) : v[j] <= said', said' \in 0..MaxWords, said' >= said,
         NEW b \in 0..h, NEW p \in 0..h, b <= p,
         cycle.final = Part(w, 0, b), cycle.interim = Part(w, b, p),
         NEW segments \in Seq(DI!Words), DI!Merge(segments) = Part(v, p, k),
         NEW q \in Nat, p <= q, q <= k, NEW unsure, unsure = Part(v, q, Len(v)),
         DI!OnResult(segments, unsure),
         guess' = Part(v, k, Len(v)), settled' = settled \o Part(v, h, k),
         UNCHANGED <<cumulative, panel, gone, sent>>
  PROVE  DictationInv'
<1>1. /\ v \in Seq(1..MaxWords) /\ w \in Seq(1..MaxWords) /\ Len(v) \in Nat /\ Len(w) \in Nat
      /\ h \in Nat /\ b \in Nat /\ p \in Nat /\ 0 \in Nat /\ h <= Len(w) /\ h <= Len(v)
      /\ b <= h /\ p <= h /\ p <= k /\ 0 <= b /\ b <= Len(w) /\ p <= Len(w)
      /\ b <= Len(v) /\ p <= Len(v) /\ q <= Len(v) /\ Len(v) <= Len(v)
  BY DEF DI!Words
<1>2. DI!TypeOK /\ Locked /\ DI!SendsWhatIsShown
  BY DEF DictationInv
<1>3. panel /\ rec # "none"
  BY DEF DictationInv, NothingShown
<1>4. OnPanel(w, h) /\ Both(final, interim) = w
  BY <1>3 DEF Told, Heard
<1>5. cycle.final = Part(v, 0, b) /\ cycle.interim = Part(v, b, p)
  <2>1. (\A i \in 1..b : v[i] = w[i]) /\ (\A i \in 1..p : v[i] = w[i])
    BY <1>1
  <2>2. Part(v, 0, b) = Part(w, 0, b)
    BY <1>1, <2>1, PartsSame
  <2>3. Part(v, b, p) = Part(w, b, p)
    BY <1>1, <2>1, PartsSame
  <2> QED BY <2>2, <2>3
<1>6. /\ TellsOf(v) /\ cycle' = [cycle EXCEPT !.segments = segments]
      /\ failed' \in BOOLEAN /\ UNCHANGED <<rec, requested, status, cycles>>
  <2>1. recognized = Both(final, interim) /\ (baseline = DI!None => edited = final)
    BY <1>4 DEF OnPanel
  <2> QED BY <1>1, <1>2, <1>3, <1>5, <2>1, ResultTells
<1>l. DI!Left' = DI!Left \o Part(v, h, k) /\ settled' \in DI!Words /\ gone' \in 0..Len(settled')
  <2>1. Part(v, h, k) \in DI!Words
    BY <1>1, PartIn
  <2> QED BY <1>2, <2>1, LeftGrows
<1>7. OnPanel(v, k)'
  <2>1. said' \in Nat
    BY WordsAreBounded
  <2> QED BY <1>2, <1>4, <1>6, <1>l, <2>1, PanelGrows
<1>8. InCycle(v, k)'
  <2>1. /\ cycle'.final = cycle.final /\ cycle'.interim = cycle.interim
        /\ cycle'.segments = segments
    BY <1>2, <1>6 DEF DI!TypeOK
  <2>2. b \in 0..k /\ p \in 0..k
    BY <1>1
  <2> QED BY <1>5, <2>1, <2>2 DEF InCycle
<1>9. Heard(v, k)'
  BY <1>6 DEF Heard, TellsOf
<1>10. Told(v, k)' /\ v \in DI!Words /\ k \in 0..Len(v)
  BY <1>1, <1>7, <1>8, <1>9 DEF Told
<1>11. DI!TypeOK'
  <2>1. Part(v, k, Len(v)) \in DI!Words
    BY <1>1, PartIn
  <2>2. settled' \in DI!Words /\ gone' \in 0..Len(settled')
    BY <1>l
  <2>3. cycle' \in [final : DI!Words, interim : DI!Words, segments : Seq(DI!Words)]
    BY <1>2, <1>6 DEF DI!TypeOK
  <2>4. final' \in DI!Words /\ interim' \in DI!Words /\ recognized' = v /\ baseline' = baseline
    BY <1>6 DEF TellsOf
  <2>5. edited' \in DI!Words
    BY <1>2, <1>6 DEF TellsOf, DI!TypeOK
  <2> QED BY <1>2, <1>6, <2>1, <2>2, <2>3, <2>4, <2>5 DEF DI!TypeOK
<1>12. Locked'
  BY <1>2, <1>3, <1>6 DEF Locked
<1>13. DI!SendsWhatIsShown'
  BY <1>2 DEF DI!SendsWhatIsShown
<1> QED BY <1>2, <1>3, <1>10, <1>11, <1>12, <1>13 DEF DictationInv

\* A word is heard, and guessed.
LEMMA HearsTold == DictationInv /\ DI!Hears => DictationInv'
<1> SUFFICES ASSUME DictationInv, DI!Hears PROVE DictationInv'
  OBVIOUS
<1>0. PICK w \in DI!Words : \E h \in 0..Len(w) : Told(w, h)
  BY DEF DictationInv
<1>1. PICK h \in 0..Len(w) : Told(w, h)
  BY <1>0
<1>2. /\ rec # "none" /\ said < MaxWords /\ said' = said + 1 /\ guess' = Append(guess, said')
      /\ DI!OnResult(cycle.segments, DI!Transcript(guess'))
      /\ UNCHANGED <<cumulative, panel, settled, gone, sent>>
  BY DEF DI!Hears
<1>3. DI!TypeOK /\ said \in 0..MaxWords /\ said' \in 1..MaxWords
  <2>1. DI!TypeOK /\ said \in 0..MaxWords
    BY DEF DictationInv, DI!TypeOK
  <2> QED BY <1>2, <2>1, WordsAreBounded
<1>4. PICK b \in 0..h, p \in 0..h :
        /\ b <= p /\ cycle.final = Part(w, 0, b) /\ cycle.interim = Part(w, b, p)
        /\ DI!Merge(cycle.segments) = Part(w, p, h)
  BY <1>1, <1>2 DEF Told, InCycle
<1>5. /\ Distinct(w) /\ (\A i \in 1..Len(w) : w[i] <= said) /\ guess = Part(w, h, Len(w))
  BY <1>1 DEF Told, Heard
<1> DEFINE n == Len(w)
           v == Append(w, said')
<1>6. /\ w \in Seq(1..MaxWords) /\ n \in Nat /\ v \in Seq(1..MaxWords) /\ Len(v) = n + 1
      /\ v[n + 1] = said' /\ \A i \in 1..n : v[i] = w[i] /\ w[i] \in 1..MaxWords
  <2>1. w \in Seq(1..MaxWords)
    BY DEF DI!Words
  <2> DEFINE e == said'
             W == 1..MaxWords
  <2>2. w \in Seq(W) /\ v = Append(w, e) /\ e \in W
    BY <1>3, <2>1
  <2> HIDE DEF v, e, W
  <2>3. /\ v \in Seq(W) /\ Len(w) \in Nat /\ Len(v) = Len(w) + 1
        /\ \A i \in 1..Len(w) : v[i] = w[i] /\ w[i] \in W
        /\ v[Len(w) + 1] = e
    BY <2>2, Appended
  <2> QED BY <2>1, <2>3 DEF e, W
<1> HIDE DEF v
<1>7. v # <<>>
  BY <1>6, EmptySeq
<1>8. \A j \in 1..n + 1 : j \in 1..n \/ j = n + 1
  BY <1>6
<1>9. Distinct(v)
  <2>1. \A i \in 1..n : v[i] # v[n + 1]
    BY <1>2, <1>3, <1>5, <1>6
  <2>2. \A i, j \in 1..n + 1 : v[i] = v[j] => i = j
    <3> SUFFICES ASSUME NEW i \in 1..n + 1, NEW j \in 1..n + 1, v[i] = v[j] PROVE i = j
      OBVIOUS
    <3>1. CASE i \in 1..n /\ j \in 1..n
      BY <1>5, <1>6, <3>1 DEF Distinct
    <3>2. CASE ~(i \in 1..n /\ j \in 1..n)
      BY <1>8, <2>1, <3>2
    <3> QED BY <3>1, <3>2
  <2> QED BY <1>6, <2>2 DEF Distinct
<1>10. /\ \A j \in 1..Len(v) : v[j] > said \/ (j <= Len(w) /\ v[j] = w[j])
       /\ \A j \in 1..Len(v) : v[j] <= said'
  <2> SUFFICES ASSUME NEW j \in 1..n + 1
               PROVE  (v[j] > said \/ (j <= n /\ v[j] = w[j])) /\ v[j] <= said'
    BY <1>6
  <2>1. CASE j \in 1..n
    BY <1>2, <1>3, <1>5, <1>6, <2>1
  <2>2. CASE j = n + 1
    BY <1>2, <1>3, <1>6, <2>2
  <2> QED BY <1>8, <2>1, <2>2
<1>11. /\ h \in Nat /\ h <= n /\ h <= n + 1 /\ p \in Nat /\ b \in Nat /\ p <= h /\ h <= Len(v)
       /\ \A i \in 1..h : v[i] = w[i]
  BY <1>6
<1>12. guess' = Part(v, h, Len(v))
  <2>1. IsPart(guess, 1..MaxWords, w, h, n)
    BY <1>5, <1>6, <1>11, PartIs
  <2>2. /\ guess \in Seq(1..MaxWords) /\ Len(guess) = n - h
        /\ \A i \in 1..n - h : guess[i] = w[h + i]
    BY <2>1 DEF IsPart
  <2> DEFINE g == Append(guess, said')
  <2>3. /\ g \in Seq(1..MaxWords) /\ Len(g) = n - h + 1 /\ g[n - h + 1] = said'
        /\ \A i \in 1..n - h : g[i] = guess[i]
    BY <1>3, <2>2, Appended
  <2> HIDE DEF g
  <2>4. \A i \in 1..n + 1 - h : g[i] = v[h + i]
    <3> SUFFICES ASSUME NEW i \in 1..n + 1 - h PROVE g[i] = v[h + i]
      OBVIOUS
    <3>1. CASE i \in 1..n - h
      <4>1. h + i \in 1..n
        BY <1>6, <1>11, <3>1
      <4> QED BY <1>6, <2>2, <2>3, <3>1, <4>1
    <3>2. CASE i = n - h + 1
      <4>1. h + i = n + 1
        BY <1>6, <1>11, <3>2
      <4> QED BY <1>6, <2>3, <3>2, <4>1
    <3> QED BY <1>6, <1>11, <3>1, <3>2
  <2> DEFINE k == n + 1
  <2>5. k \in Nat /\ n - h + 1 = k - h /\ k <= Len(v) /\ h <= k
    BY <1>6, <1>11
  <2>6. Len(g) = k - h /\ \A i \in 1..k - h : g[i] = v[h + i]
    BY <2>3, <2>4, <2>5
  <2> HIDE DEF k
  <2>7. Part(v, h, k) = g
    BY <1>6, <1>11, <2>3, <2>5, <2>6, PartEquals
  <2> QED BY <1>2, <1>6, <2>7 DEF g, k
<1>13. DI!Merge(cycle.segments) = Part(v, p, h)
  <2>1. Part(v, p, h) = Part(w, p, h)
    BY <1>6, <1>11, PartsSame
  <2> QED BY <1>4, <2>1
<1>14. PICK q \in Nat : p <= q /\ q <= h /\ DI!Transcript(guess') = Part(v, q, Len(v))
  BY <1>3, <1>6, <1>11, <1>12, <1>13, TranscriptIs DEF DI!Words
<1>15. settled' = settled \o Part(v, h, h)
  <2>1. Part(v, h, h) = <<>>
    BY <1>6, <1>11, PartIsEmpty
  <2>2. settled \in Seq(1..MaxWords)
    BY <1>3 DEF DI!TypeOK, DI!Words
  <2> QED BY <1>2, <2>1, <2>2, ConcatEmptySeq
<1>16. v \in DI!Words /\ cycle.segments \in Seq(DI!Words) /\ said' \in 0..MaxWords /\ said' >= said
  BY <1>2, <1>3, <1>6 DEF DI!Words, DI!TypeOK
<1>17. h <= h
  BY <1>11
<1> HIDE DEF n
<1> QED BY <1>1, <1>2, <1>4, <1>7, <1>9, <1>10, <1>11, <1>12, <1>13, <1>14, <1>15, <1>16,
           <1>17, ResultTold

\* The browser makes up its mind on the guess, with which the words are v.
LEMMA SettledTold ==
  ASSUME DictationInv, rec # "none", NEW w \in DI!Words, NEW h \in 0..Len(w), Told(w, h),
         NEW v \in DI!Words, Len(v) = Len(w), h < Len(w), Distinct(v),
         \A i \in 1..h : v[i] = w[i],
         \A j \in 1..Len(v) : v[j] > said \/ (j <= Len(w) /\ v[j] = w[j]),
         \A j \in 1..Len(v) : v[j] <= said', said' \in 0..MaxWords, said' >= said,
         NEW words, words = Part(v, h, Len(v)),
         DI!OnResult(Append(cycle.segments, DI!Transcript(words)), <<>>),
         guess' = <<>>, settled' = settled \o words,
         UNCHANGED <<cumulative, panel, gone, sent>>
  PROVE  DictationInv'
<1> DEFINE n == Len(v)
<1>1. PICK b \in 0..h, p \in 0..h :
        /\ b <= p /\ cycle.final = Part(w, 0, b) /\ cycle.interim = Part(w, b, p)
        /\ DI!Merge(cycle.segments) = Part(w, p, h)
  BY DEF Told, InCycle
<1>2. /\ v \in Seq(1..MaxWords) /\ w \in Seq(1..MaxWords) /\ n \in Nat /\ n = Len(v)
      /\ h \in Nat /\ p \in Nat /\ p <= h /\ h <= n /\ p <= n /\ h <= Len(w) /\ n <= n /\ h < n
  BY DEF DI!Words
<1>3. DI!TypeOK
  BY DEF DictationInv
<1>4. DI!Merge(cycle.segments) = Part(v, p, h)
  <2>1. Part(v, p, h) = Part(w, p, h)
    BY <1>2, PartsSame
  <2> QED BY <1>1, <2>1
<1>5. PICK q \in Nat : p <= q /\ q <= h /\ DI!Transcript(words) = Part(v, q, n)
  BY <1>2, <1>3, <1>4, TranscriptIs DEF DI!Words
<1> HIDE DEF n
<1> DEFINE c == DI!Transcript(words)
           segments == Append(cycle.segments, c)
<1>6. c \in DI!Words
  <2>1. q \in Nat /\ q <= n /\ n <= Len(v)
    BY <1>2, <1>5
  <2>2. Part(v, q, n) \in DI!Words
    BY <1>2, <2>1, PartIn
  <2> QED BY <1>5, <2>2
<1>7. cycle.segments \in Seq(DI!Words)
  BY <1>3 DEF DI!TypeOK
<1>8. segments \in Seq(DI!Words)
  <2> HIDE DEF c
  <2> QED BY <1>6, <1>7, AppendProperties
<1>9. DI!Merge(segments) = Part(v, p, n)
  <2>1. DI!Merge(segments) = Both(DI!Merge(cycle.segments), c)
    <3> HIDE DEF c
    <3> QED BY <1>6, <1>7, MergeAppend DEF DI!Words
  <2>2. Distinct(v) /\ p <= q /\ q <= h /\ h <= n /\ n <= Len(v)
    BY <1>2, <1>5
  <2>3. Both(Part(v, p, h), Part(v, q, n)) = Part(v, p, n)
    BY <1>2, <1>5, <2>2, PartsMerge
  <2> QED BY <1>4, <1>5, <2>1, <2>3
<1>10. <<>> = Part(v, n, n)
  BY <1>2, PartIsEmpty
<1>11. v # <<>>
  BY <1>2, EmptySeq
<1>12. DI!OnResult(segments, <<>>)
  OBVIOUS
<1>13. p <= n /\ n <= n /\ h <= n /\ n <= Len(v)
  BY <1>2
<1>14. guess' = Part(v, n, Len(v)) /\ settled' = settled \o Part(v, h, n) /\ <<>> = Part(v, n, Len(v))
  BY <1>10 DEF n
<1> HIDE DEF segments
<1> QED BY <1>1, <1>2, <1>8, <1>9, <1>11, <1>12, <1>13, <1>14, ResultTold

\* There is one such part.
LEMMA PartIsOne ==
  ASSUME NEW W, NEW v \in Seq(W), NEW a \in Nat, NEW b \in Nat, a <= b, b <= Len(v),
         NEW t, IsPart(t, W, v, a, b)
  PROVE  Part(v, a, b) = t
BY PartEquals DEF IsPart

\* s with another last word.
OtherLast(s, e) == [s EXCEPT ![Len(s)] = e]

\* v is w, but for the last word.
LastIs(e, v, w, W) ==
  /\ v \in Seq(W) /\ Len(v) = Len(w) /\ v[Len(w)] = e
  /\ \A i \in 1..Len(w) : i # Len(w) => v[i] = w[i]

\* A guess of which the last word becomes another: so do the words.
LEMMA LastWord ==
  ASSUME NEW W, NEW w \in Seq(W), NEW h \in Nat, h < Len(w), NEW e \in W,
         NEW v, v = OtherLast(w, e),
         NEW g, g = Part(w, h, Len(w)), NEW t, t = OtherLast(g, e)
  PROVE  LastIs(e, v, w, W) /\ t = Part(v, h, Len(v))
<1> DEFINE n == Len(w)
<1>1. n \in Nat /\ n \in 1..n /\ n = Len(w) /\ h <= n /\ n <= n /\ n - h \in 1..n - h
  OBVIOUS
<1>2. v \in Seq(W) /\ Len(v) = n /\ v[n] = e /\ \A i \in 1..n : i # n => v[i] = w[i]
  BY <1>1, ExceptSeq DEF OtherLast
<1> HIDE DEF n
<1>3. g \in Seq(W) /\ Len(g) = n - h /\ \A i \in 1..n - h : g[i] = w[h + i]
  <2>1. IsPart(g, W, w, h, n)
    BY <1>1, PartIs
  <2> QED BY <2>1 DEF IsPart
<1>4. t \in Seq(W) /\ Len(t) = n - h /\ t[n - h] = e /\ \A i \in 1..n - h : i # n - h => t[i] = g[i]
  <2>1. Len(g) \in 1..Len(g) /\ Len(g) = n - h
    BY <1>1, <1>3
  <2>2. t \in Seq(W) /\ Len(t) = Len(g) /\ t[Len(g)] = e /\ \A i \in 1..Len(g) : i # Len(g) => t[i] = g[i]
    BY <1>3, <2>1, ExceptSeq DEF OtherLast
  <2> QED BY <2>1, <2>2
<1>5. \A i \in 1..n - h : t[i] = v[h + i]
  <2> SUFFICES ASSUME NEW i \in 1..n - h PROVE t[i] = v[h + i]
    OBVIOUS
  <2>1. CASE i = n - h
    <3>1. h + i = n
      BY <1>1, <2>1
    <3> QED BY <1>2, <1>4, <2>1, <3>1
  <2>2. CASE i # n - h
    <3>1. h + i \in 1..n /\ h + i # n
      BY <1>1, <2>2
    <3> QED BY <1>2, <1>3, <1>4, <2>2, <3>1
  <2> QED BY <2>1, <2>2
<1>6. Part(v, h, n) = t
  <2>1. h <= n /\ n \in Nat /\ n <= Len(v) /\ v \in Seq(W) /\ t \in Seq(W) /\ Len(t) = n - h
    BY <1>1, <1>2, <1>4
  <2>2. IsPart(t, W, v, h, n)
    BY <1>5, <2>1 DEF IsPart
  <2> QED BY <2>1, <2>2, PartIsOne
<1> QED BY <1>1, <1>2, <1>6 DEF LastIs

\* A guess is settled.
LEMMA SettlesTold == DictationInv /\ DI!Settles => DictationInv'
<1> SUFFICES ASSUME DictationInv, DI!Settles PROVE DictationInv'
  OBVIOUS
<1>0. PICK w \in DI!Words : \E h \in 0..Len(w) : Told(w, h)
  BY DEF DictationInv
<1>1. PICK h \in 0..Len(w) : Told(w, h)
  BY <1>0
<1>2. PICK words \in {guess, [guess EXCEPT ![Len(guess)] = said + 1]} :
        /\ said' = (IF words = guess THEN said ELSE said + 1)
        /\ said' <= MaxWords
        /\ settled' = settled \o words
        /\ DI!OnResult(Append(cycle.segments, DI!Transcript(words)), <<>>)
  BY DEF DI!Settles
<1>3. rec # "none" /\ guess # <<>> /\ guess' = <<>> /\ UNCHANGED <<cumulative, panel, gone, sent>>
  BY DEF DI!Settles
<1>4. DI!TypeOK /\ said \in 0..MaxWords
  BY DEF DictationInv, DI!TypeOK
<1>5. Distinct(w) /\ (\A i \in 1..Len(w) : w[i] <= said) /\ guess = Part(w, h, Len(w))
  BY <1>1 DEF Told, Heard
<1> DEFINE n == Len(w)
<1>6. /\ w \in Seq(1..MaxWords) /\ n \in Nat /\ h \in Nat /\ h <= n
      /\ \A i \in 1..n : w[i] \in 1..MaxWords
  <2>1. w \in Seq(1..MaxWords)
    BY DEF DI!Words
  <2>2. \A i \in 1..Len(w) : w[i] \in 1..MaxWords
    BY <2>1, ElementOfSeq
  <2> QED BY <2>1, <2>2
<1>7. h < n
  <2>1. n <= Len(w)
    BY <1>6
  <2>2. h = n <=> Part(w, h, n) = <<>>
    BY <1>6, <2>1, PartIsEmpty
  <2> QED BY <1>3, <1>5, <1>6, <2>2
<1>8. CASE words = guess
  <2>1. said' = said /\ said' >= said /\ said' \in 0..MaxWords
    BY <1>2, <1>4, <1>8, WordsAreBounded
  <2>2. \A j \in 1..Len(w) : (w[j] > said \/ (j <= Len(w) /\ w[j] = w[j])) /\ w[j] <= said'
    BY <1>5, <2>1
  <2>3. words = Part(w, h, Len(w)) /\ h < Len(w)
    BY <1>5, <1>7, <1>8
  <2> HIDE DEF n
  <2> QED BY <1>1, <1>2, <1>3, <1>5, <2>1, <2>2, <2>3, SettledTold
<1>9. CASE words # guess
  <2> DEFINE e == said + 1
             v == OtherLast(w, e)
             W == 1..MaxWords
  <2>1. said' = e /\ e \in W /\ e > said /\ said' \in 0..MaxWords /\ said' >= said
    BY <1>2, <1>4, <1>9, WordsAreBounded
  <2>2. words = OtherLast(guess, e)
    BY <1>2, <1>9 DEF OtherLast
  <2>3. w \in Seq(W) /\ h < Len(w)
    BY <1>6, <1>7
  <2>9. v = OtherLast(w, e)
    OBVIOUS
  <2> HIDE DEF v, e, W, n
  <2>4. /\ v \in Seq(W) /\ Len(v) = Len(w) /\ v[Len(w)] = e
        /\ \A i \in 1..Len(w) : i # Len(w) => v[i] = w[i]
        /\ words = Part(v, h, Len(v))
    <3>1. LastIs(e, v, w, W) /\ words = Part(v, h, Len(v))
      BY <1>5, <1>6, <2>1, <2>2, <2>3, <2>9, LastWord
    <3> QED BY <3>1 DEF LastIs
  <2>5. v \in DI!Words /\ \A i \in 1..h : v[i] = w[i]
    <3>1. \A i \in 1..h : i \in 1..Len(w) /\ i # Len(w)
      BY <1>6, <2>3
    <3> QED BY <2>4, <3>1 DEF W, DI!Words
  <2>6. \A j \in 1..Len(v) : v[j] > said \/ (j <= Len(w) /\ v[j] = w[j])
    BY <1>6, <2>1, <2>4 DEF n
  <2>7. \A j \in 1..Len(v) : v[j] <= said'
    <3> SUFFICES ASSUME NEW j \in 1..Len(w) PROVE v[j] <= said'
      BY <2>4
    <3>1. CASE j = Len(w)
      BY <1>4, <2>1, <2>4, <3>1 DEF e
    <3>2. CASE j # Len(w)
      <4>1. v[j] = w[j] /\ w[j] <= said /\ w[j] \in 1..MaxWords
        BY <1>5, <1>6, <2>4, <3>2 DEF n
      <4> QED BY <1>4, <2>1, <4>1
    <3> QED BY <3>1, <3>2
  <2>8. Distinct(v)
    <3> SUFFICES ASSUME NEW i \in 1..Len(w), NEW j \in 1..Len(w), v[i] = v[j] PROVE i = j
      BY <2>4 DEF Distinct
    <3>1. \A k \in 1..Len(w) : w[k] # e
      <4> SUFFICES ASSUME NEW k \in 1..Len(w) PROVE w[k] # e
        OBVIOUS
      <4>1. w[k] \in 1..MaxWords /\ w[k] <= said
        BY <1>5, <1>6 DEF n
      <4> QED BY <1>4, <4>1 DEF e
    <3>2. CASE i = Len(w) \/ j = Len(w)
      BY <2>4, <3>1, <3>2
    <3>3. CASE i # Len(w) /\ j # Len(w)
      BY <1>5, <2>4, <3>3 DEF Distinct
    <3> QED BY <3>2, <3>3
  <2> QED BY <1>1, <1>2, <1>3, <2>1, <2>3, <2>4, <2>5, <2>6, <2>7, <2>8, SettledTold
<1> QED BY <1>8, <1>9

\* The words the last cycles left unfinished are final now, and nothing else is new.
LEMMA ConfirmsTold == DictationInv /\ DI!Confirms => DictationInv'
<1> SUFFICES ASSUME DictationInv, DI!Confirms PROVE DictationInv'
  OBVIOUS
<1>0. PICK w \in DI!Words : \E h \in 0..Len(w) : Told(w, h)
  BY DEF DictationInv
<1>1. PICK h \in 0..Len(w) : Told(w, h)
  BY <1>0
<1> DEFINE n == Len(w)
           F == cycle.final
           P == cycle.interim
<1>2. /\ rec # "none" /\ P # <<>> /\ cycle.segments = <<>> /\ guess = <<>>
      /\ DI!OnResult(<<P>>, <<>>)
      /\ UNCHANGED <<cumulative, panel, guess, said, settled, gone, sent>>
  BY DEF DI!Confirms, DI!heard
<1>3. DI!TypeOK /\ Locked /\ DI!SendsWhatIsShown /\ panel
  BY <1>2 DEF DictationInv, NothingShown
<1>4. PICK b \in 0..h, p \in 0..h :
        /\ b <= p /\ F = Part(w, 0, b) /\ P = Part(w, b, p)
        /\ DI!Merge(cycle.segments) = Part(w, p, h)
  BY <1>1, <1>2 DEF Told, InCycle
<1>5. /\ Distinct(w) /\ (\A i \in 1..Len(w) : w[i] <= said) /\ guess = Part(w, h, Len(w))
      /\ Both(final, interim) = w /\ OnPanel(w, h)
  BY <1>1, <1>3 DEF Told, Heard
<1>6. /\ w \in Seq(1..MaxWords) /\ n \in Nat /\ h \in Nat /\ b \in Nat /\ p \in Nat /\ 0 \in Nat
      /\ b <= p /\ p <= h /\ b <= h /\ h <= n /\ n <= Len(w) /\ p <= n /\ b <= n /\ 0 <= b /\ 0 <= n
      /\ n = Len(w) /\ n <= n /\ b <= b
  BY <1>4 DEF DI!Words
<1> HIDE DEF n
<1>7. p = h /\ h = n /\ b # p
  <2>1. DI!Merge(<<>>) = <<>>
    BY MergeNone
  <2>2. p = h
    BY <1>2, <1>4, <1>6, <2>1, PartIsEmpty
  <2>3. h = n
    BY <1>2, <1>5, <1>6, PartIsEmpty DEF n
  <2>4. b # p
    BY <1>2, <1>4, <1>6, PartIsEmpty
  <2> QED BY <2>2, <2>3, <2>4
<1>8. /\ F \in DI!Words /\ P \in DI!Words /\ <<>> \in DI!Words /\ F \in Seq(1..MaxWords)
      /\ P \in Seq(1..MaxWords) /\ <<>> \in Seq(1..MaxWords)
  BY <1>3 DEF DI!TypeOK, DI!Words
<1>9. Both(F, P) = w /\ Both(w, <<>>) = w /\ Both(<<>>, <<>>) = <<>>
  <2>1. Both(Part(w, 0, b), Part(w, b, n)) = Part(w, 0, n)
    BY <1>5, <1>6, PartsMerge
  <2>2. Both(Part(w, 0, n), Part(w, n, n)) = Part(w, 0, n)
    BY <1>5, <1>6, PartsMerge
  <2>3. Part(w, 0, n) = w /\ Part(w, n, n) = <<>>
    BY <1>6, PartIsWhole, PartIsEmpty DEF n
  <2>4. Both(<<>>, <<>>) = <<>>
    BY <1>8, BothIn
  <2> QED BY <1>4, <1>7, <2>1, <2>2, <2>3, <2>4
<1>10. DI!Merge(<<P>>) = P /\ DI!Merge(<<F, P>>) = w /\ DI!Merge(<<<<>>, <<>>, <<>>>>) = <<>>
  <2>1. DI!Merge(<<P>>) = P
    BY <1>8, MergeOne
  <2>2. DI!Merge(<<F, P>>) = Both(F, P)
    BY <1>8, MergeTwo
  <2> DEFINE e == <<>>
  <2>3. e \in Seq(1..MaxWords) /\ Both(e, e) = e
    BY <1>8, <1>9
  <2> HIDE DEF e
  <2>4. DI!Merge(<<e, e, e>>) = Both(Both(e, e), e)
    BY <2>3, MergeThree
  <2>5. DI!Merge(<<e, e, e>>) = e
    BY <2>3, <2>4
  <2> QED BY <1>9, <2>1, <2>2, <2>5 DEF e
<1>11. /\ cycle' = [cycle EXCEPT !.interim = <<>>, !.segments = <<P>>]
       /\ DI!Transcribed(w, <<>>) /\ failed' \in BOOLEAN
       /\ UNCHANGED <<rec, requested, status, cycles>>
  <2>1. DI!IsPrefix(P, P)
    BY <1>8 DEF DI!IsPrefix
  <2>2. /\ cycle' = [cycle EXCEPT !.interim = <<>>, !.segments = <<P>>]
        /\ DI!Transcribed(DI!Merge(<<F, DI!Merge(<<P>>)>>), DI!Merge(<<<<>>, <<>>, <<>>>>))
        /\ failed' \in BOOLEAN
        /\ UNCHANGED <<rec, requested, status, cycles>>
    BY <1>2, <1>3, <1>10, <2>1 DEF DI!OnResult, DI!TypeOK
  <2> QED BY <1>10, <2>2
<1>12. w # <<>>
  <2>1. n # 0
    BY <1>6, <1>7
  <2> QED BY <1>6, <2>1, EmptySeq
<1>13. TellsOf(w)
  <2>1. recognized = Both(final, interim) /\ (baseline = DI!None => edited = final)
    BY <1>5 DEF OnPanel
  <2> QED BY <1>3, <1>8, <1>9, <1>11, <1>12, <2>1, PanelTells
<1>14. DI!Left' = DI!Left \o Part(w, h, h)
  <2>1. Part(w, h, h) = <<>> /\ <<>> \in DI!Words
    BY <1>6, <1>7, PartIsEmpty DEF DI!Words
  <2>2. settled \in Seq(1..MaxWords)
    BY <1>3 DEF DI!TypeOK, DI!Words
  <2>3. settled' = settled \o <<>> /\ gone' = gone
    BY <1>2, <2>2, ConcatEmptySeq
  <2> QED BY <1>3, <2>1, <2>3, LeftGrows
<1>15. OnPanel(w, h)'
  <2>1. \A j \in 1..Len(w) : w[j] > said \/ (j <= Len(w) /\ w[j] = w[j])
    BY <1>6
  <2>2. said' \in Nat /\ said' >= said /\ h <= h /\ h <= Len(w)
    BY <1>2, <1>3, <1>6, WordsAreBounded DEF DI!TypeOK
  <2>3. \A i \in 1..h : w[i] = w[i]
    OBVIOUS
  <2> QED BY <1>3, <1>5, <1>6, <1>13, <1>14, <2>1, <2>2, <2>3, PanelGrows
<1>16. cycle'.final = F /\ cycle'.interim = <<>> /\ cycle'.segments = <<P>>
  BY <1>3, <1>11 DEF DI!TypeOK
<1>17. InCycle(w, h)'
  <2>1. Part(w, b, b) = <<>>
    BY <1>6, PartIsEmpty
  <2>2. DI!Merge(cycle'.segments) = Part(w, b, h)
    BY <1>4, <1>7, <1>10, <1>16
  <2>3. b \in 0..h /\ cycle'.final = Part(w, 0, b) /\ cycle'.interim = Part(w, b, b)
    BY <1>4, <1>16, <2>1
  <2> QED BY <1>6, <2>2, <2>3 DEF InCycle
<1>18. Told(w, h)'
  <2>1. Heard(w, h)'
    BY <1>2, <1>5, <1>13 DEF Heard, TellsOf
  <2> QED BY <1>15, <1>17, <2>1 DEF Told
<1>19. DI!TypeOK'
  <2>1. <<P>> \in Seq(DI!Words)
    BY <1>8
  <2>2. cycle' \in [final : DI!Words, interim : DI!Words, segments : Seq(DI!Words)]
    BY <1>3, <1>8, <1>11, <2>1 DEF DI!TypeOK
  <2>3. final' \in DI!Words /\ interim' \in DI!Words /\ recognized' = w /\ baseline' = baseline
    BY <1>13 DEF TellsOf
  <2>4. edited' \in DI!Words
    BY <1>3, <1>13 DEF TellsOf, DI!TypeOK
  <2> QED BY <1>2, <1>3, <1>11, <2>2, <2>3, <2>4 DEF DI!TypeOK
<1>20. Locked'
  BY <1>2, <1>3, <1>11 DEF Locked
<1>21. DI!SendsWhatIsShown'
  BY <1>2, <1>3 DEF DI!SendsWhatIsShown
<1> QED BY <1>2, <1>3, <1>11, <1>18, <1>19, <1>20, <1>21 DEF DictationInv

-------------------------------------------------------------------------------
\* With nothing heard, the panel has no words but those of a correction.
NothingHeard ==
  /\ DI!TypeOK /\ Locked /\ DI!SendsWhatIsShown
  /\ final = <<>> /\ interim = <<>> /\ guess = <<>>
  /\ rec # "none" => cycle = DI!Nothing
  /\ IF panel
     THEN /\ recognized = <<>>
          /\ baseline = DI!None => edited = <<>> /\ DI!Left = <<>>
          /\ baseline # DI!None => /\ baseline = <<>> /\ DI!Left = edited
                                   /\ \A i \in 1..Len(edited) : edited[i] <= said
     ELSE rec = "none" /\ settled = <<>>

\* A page with nothing heard tells no words.
LEMMA NothingTold == NothingHeard => DictationInv
<1> SUFFICES ASSUME NothingHeard PROVE DictationInv
  OBVIOUS
<1> DEFINE w == <<>>
<1>1. /\ w \in DI!Words /\ w \in Seq(1..MaxWords) /\ Len(w) = 0 /\ 0 \in 0..Len(w)
      /\ \A j \in 1..Len(w) : FALSE
  BY DEF DI!Words
<1>2. DI!TypeOK /\ Locked /\ DI!SendsWhatIsShown
  BY DEF NothingHeard
<1>3. final = w /\ interim = w /\ guess = w
  BY DEF NothingHeard
<1>4. rec # "none" => cycle.final = w /\ cycle.interim = w /\ cycle.segments = w
  BY DEF NothingHeard, DI!Nothing
<1>5. DI!Merge(w) = w /\ Both(w, w) = w
  BY <1>1, MergeNone, BothIn
<1>6. panel => /\ recognized = w
               /\ baseline = DI!None => edited = w /\ DI!Left = w
               /\ baseline # DI!None => /\ baseline = w /\ DI!Left = edited
                                        /\ \A i \in 1..Len(edited) : edited[i] <= said
  BY DEF NothingHeard
<1>7. ~panel => rec = "none" /\ settled = <<>>
  BY DEF NothingHeard
<1>8. ~panel => NothingShown
  BY <1>3, <1>7 DEF NothingShown
<1> HIDE DEF w
<1>9. Part(w, 0, 0) = w
  <2>1. Part(w, 0, Len(w)) = w
    BY <1>1, PartIsWhole
  <2> QED BY <1>1, <2>1
<1>10. Heard(w, 0)
  <2>1. Distinct(w)
    BY <1>1 DEF Distinct
  <2> QED BY <1>1, <1>3, <1>5, <1>9, <2>1 DEF Heard
<1>11. ASSUME rec # "none" PROVE InCycle(w, 0)
  <2>1. 0 \in 0..0 /\ 0 <= 0
    OBVIOUS
  <2>2. cycle.final = Part(w, 0, 0) /\ cycle.interim = Part(w, 0, 0) /\ DI!Merge(cycle.segments) = Part(w, 0, 0)
    BY <1>4, <1>5, <1>9, <1>11
  <2> QED BY <2>1, <2>2 DEF InCycle
<1>12. ASSUME panel PROVE OnPanel(w, 0)
  <2>1. CASE baseline = DI!None
    BY <1>3, <1>6, <1>9, <1>12, <2>1 DEF OnPanel
  <2>2. CASE baseline # DI!None
    <3>1. edited \o w = edited
      <4>1. edited \in Seq(1..MaxWords)
        BY <1>2 DEF DI!TypeOK, DI!Words
      <4> QED BY <4>1, ConcatEmptySeq DEF w
    <3>2. 0 \in 0..0 /\ \A j \in 0 + 1..Len(w) : FALSE
      BY <1>1
    <3>3. Corrected(w, 0, 0)
      BY <1>6, <1>9, <1>12, <2>2, <3>1, <3>2 DEF Corrected
    <3> QED BY <1>6, <1>12, <2>2, <3>2, <3>3 DEF OnPanel
  <2> QED BY <2>1, <2>2
<1>13. Told(w, 0)
  BY <1>10, <1>11, <1>12 DEF Told
<1> QED BY <1>1, <1>2, <1>8, <1>13 DEF DictationInv

\* What the panel shows and sends: the text the user has, and the words being guessed.
LEMMA ShowsAll == DictationInv => (panel => DI!Combined = DI!Left \o guess)
<1> SUFFICES ASSUME DictationInv, panel PROVE DI!Combined = DI!Left \o guess
  OBVIOUS
<1>0. PICK w \in DI!Words : \E h \in 0..Len(w) : Told(w, h)
  BY DEF DictationInv
<1>1. PICK h \in 0..Len(w) : Told(w, h)
  BY <1>0
<1> DEFINE n == Len(w)
<1>2. DI!TypeOK
  BY DEF DictationInv
<1>3. /\ Distinct(w) /\ guess = Part(w, h, n) /\ Both(final, interim) = w /\ OnPanel(w, h)
  BY <1>1 DEF Told, Heard
<1>4. /\ w \in Seq(1..MaxWords) /\ n \in Nat /\ h \in Nat /\ 0 \in Nat /\ 0 <= h /\ h <= n
      /\ n = Len(w) /\ n <= n /\ n <= Len(w)
  BY DEF DI!Words
<1>5. /\ final \in Seq(1..MaxWords) /\ interim \in Seq(1..MaxWords)
      /\ edited \in Seq(1..MaxWords)
  BY <1>2 DEF DI!TypeOK, DI!Words
<1>6. DI!Merge(<<final, interim>>) = w
  BY <1>3, <1>5, MergeTwo
<1> HIDE DEF n
<1>7. CASE baseline = DI!None
  <2>1. DI!Combined = DI!Merge(<<final, interim>>)
    BY <1>3, <1>7 DEF DI!Combined, DI!Pending, OnPanel
  <2>2. DI!Left \o guess = Part(w, 0, n)
    <3>1. DI!Left = Part(w, 0, h)
      BY <1>3, <1>7 DEF OnPanel
    <3> QED BY <1>3, <1>4, <3>1, PartsMeet
  <2>3. Part(w, 0, n) = w
    BY <1>4, PartIsWhole DEF n
  <2> QED BY <1>6, <2>1, <2>2, <2>3
<1>8. CASE baseline # DI!None
  <2>1. PICK e \in 0..h : Corrected(w, h, e)
    BY <1>3, <1>8 DEF OnPanel
  <2>2. e \in Nat /\ e <= h /\ e <= n /\ 0 <= e /\ 0 <= 0
    BY <1>4
  <2> DEFINE P == Part(w, e, n)
  <2>3. DI!Pending = P
    <3>1. DI!Pending = DI!Suffix(Part(w, 0, e), Part(w, 0, n))
      <4>1. Part(w, 0, n) = w
        BY <1>4, PartIsWhole DEF n
      <4>2. baseline = Part(w, 0, e)
        BY <2>1 DEF Corrected
      <4> QED BY <1>6, <1>8, <4>1, <4>2 DEF DI!Pending
    <3>2. DI!Suffix(Part(w, 0, e), Part(w, 0, n)) = Part(w, e, n)
      BY <1>3, <1>4, <2>2, PartsMerge
    <3> QED BY <3>1, <3>2
  <2>4. P \in Seq(1..MaxWords) /\ Len(P) = n - e /\ \A j \in 1..n - e : P[j] = w[e + j]
    <3>1. IsPart(P, 1..MaxWords, w, e, n)
      BY <1>4, <2>2, PartIs
    <3> HIDE DEF P
    <3> QED BY <3>1 DEF IsPart
  <2> HIDE DEF P
  <2>5. DI!Suffix(edited, P) = P
    <3>1. \A i \in 1..Len(edited), j \in 1..Len(P) : edited[i] # P[j]
      <4> SUFFICES ASSUME NEW i \in 1..Len(edited), NEW j \in 1..n - e PROVE edited[i] # P[j]
        BY <2>4
      <4>1. e + j \in e + 1..n
        BY <1>4, <2>2
      <4>2. edited[i] # w[e + j]
        BY <1>4, <2>1, <4>1 DEF Corrected
      <4> QED BY <2>4, <4>2
    <3> QED BY <1>5, <2>4, <3>1, SuffixApart
  <2>6. DI!Combined = edited \o P
    <3>1. DI!Combined = DI!Merge(<<edited, P>>)
      BY <2>3 DEF DI!Combined
    <3>2. DI!Merge(<<edited, P>>) = Both(edited, P)
      BY <1>5, <2>4, MergeTwo
    <3> QED BY <2>5, <3>1, <3>2 DEF Both
  <2>7. DI!Left \o guess = edited \o P
    <3>1. DI!Left = edited \o Part(w, e, h)
      BY <2>1 DEF Corrected
    <3>2. Part(w, e, h) \in Seq(1..MaxWords) /\ Part(w, h, n) \in Seq(1..MaxWords)
      BY <1>4, <2>2, PartIn DEF DI!Words
    <3>3. InAnyOrder(edited, Part(w, e, h), Part(w, h, n))
      BY <1>5, <3>2, Joined
    <3>4. Part(w, e, h) \o Part(w, h, n) = Part(w, e, n)
      BY <1>4, <2>2, PartsMeet
    <3> QED BY <1>3, <3>1, <3>3, <3>4 DEF InAnyOrder, P
  <2> QED BY <2>6, <2>7
<1> QED BY <1>7, <1>8

-------------------------------------------------------------------------------
\* The words the last cycle leaves unfinished begin the next one.
LEMMA NewCycleIn ==
  ASSUME DI!TypeOK, NEW w \in DI!Words, Both(final, interim) = w
  PROVE  /\ DI!NewCycle \in [final : DI!Words, interim : DI!Words, segments : Seq(DI!Words)]
         /\ Len(final) \in 0..Len(w)
         /\ DI!NewCycle.final = Part(w, 0, Len(final))
         /\ DI!NewCycle.interim = Part(w, Len(final), Len(w))
         /\ DI!Merge(DI!NewCycle.segments) = Part(w, Len(w), Len(w))
<1> DEFINE s == final
           t == DI!Suffix(final, interim)
<1>1. s \in Seq(1..MaxWords) /\ interim \in Seq(1..MaxWords)
  BY DEF DI!TypeOK, DI!Words
<1>2. t \in Seq(1..MaxWords)
  BY <1>1, SuffixIn
<1>3. w = s \o t
  BY DEF Both
<1> HIDE DEF s, t
<1>4. /\ Len(w) = Len(s) + Len(t) /\ Len(s) \in Nat /\ Len(t) \in Nat
      /\ Part(w, 0, Len(s)) = s /\ Part(w, Len(s), Len(s) + Len(t)) = t
  BY <1>1, <1>2, <1>3, PartsOfTwo
<1>5. Part(w, Len(w), Len(w)) = <<>>
  <2>1. w \in Seq(1..MaxWords) /\ Len(w) \in Nat /\ Len(w) <= Len(w)
    BY DEF DI!Words
  <2> QED BY <2>1, PartIsEmpty
<1>6. DI!NewCycle = [final |-> s, interim |-> t, segments |-> <<>>]
  BY DEF DI!NewCycle, s, t
<1>7. <<>> \in Seq(DI!Words) /\ s \in DI!Words /\ t \in DI!Words
  BY <1>1, <1>2 DEF DI!Words
<1>8. Len(s) \in 0..Len(w)
  BY <1>4
<1> QED BY <1>4, <1>5, <1>6, <1>7, <1>8, MergeNone DEF s

\* A cycle that is over, with or without a next one, changes no word: those the browser
\* was guessing stay with the user.
LEMMA CycleEnds ==
  ASSUME DictationInv, DI!GuessStays,
         UNCHANGED <<cumulative, final, interim, panel, edited, baseline, recognized, sent>>,
         rec' \in {"none", "running", "stopping"}, requested' \in BOOLEAN, failed' \in BOOLEAN,
         status' \in {"idle", "listening", "processing", "error"}, cycles' \in 0..MaxCycles,
         cycle' = DI!NewCycle \/ (cycle' = cycle /\ rec' = "none"),
         rec' # "none" => panel, rec' = "none" => ~requested',
         status' \in {"listening", "processing"} <=> rec' # "none"
  PROVE  DictationInv'
<1>0. PICK w \in DI!Words : \E h \in 0..Len(w) : Told(w, h)
  BY DEF DictationInv
<1>1. PICK h \in 0..Len(w) : Told(w, h)
  BY <1>0
<1> DEFINE n == Len(w)
<1>2. DI!TypeOK /\ Locked /\ DI!SendsWhatIsShown /\ (~panel => NothingShown)
  BY DEF DictationInv
<1>3. /\ Distinct(w) /\ (\A i \in 1..n : w[i] <= said) /\ guess = Part(w, h, n)
      /\ Both(final, interim) = w
  BY <1>1 DEF Told, Heard
<1>4. settled' = settled \o guess /\ guess' = <<>> /\ said' = said /\ gone' = gone
  BY DEF DI!GuessStays
<1>l. DI!Left' = DI!Left \o guess /\ settled' \in DI!Words /\ gone' \in 0..Len(settled')
  <2>1. guess \in DI!Words
    BY <1>2 DEF DI!TypeOK
  <2> QED BY <1>2, <1>4, <2>1, LeftGrows
<1>5. /\ w \in Seq(1..MaxWords) /\ n \in Nat /\ n = Len(w) /\ n <= n /\ n <= Len(w) /\ h \in Nat
      /\ h <= n /\ n \in 0..n
  BY DEF DI!Words
<1>6. Part(w, n, n) = <<>>
  BY <1>5, PartIsEmpty
<1>7. Heard(w, n)'
  BY <1>3, <1>4, <1>6 DEF Heard
<1>8. ASSUME panel PROVE OnPanel(w, n)'
  <2>1. OnPanel(w, h)
    BY <1>1, <1>8 DEF Told
  <2>2. TellsOf(w)
    BY <1>2, <1>3, <2>1 DEF TellsOf, OnPanel, DI!TypeOK
  <2>3. \A j \in 1..Len(w) : w[j] > said \/ (j <= Len(w) /\ w[j] = w[j])
    BY <1>5
  <2>4. said' \in Nat /\ said' >= said
    BY <1>2, <1>4, WordsAreBounded DEF DI!TypeOK
  <2>5. \A i \in 1..h : w[i] = w[i]
    OBVIOUS
  <2>6. DI!Left' = DI!Left \o Part(w, h, n)
    BY <1>3, <1>l
  <2> HIDE DEF n
  <2> QED BY <1>2, <1>5, <2>1, <2>2, <2>3, <2>4, <2>5, <2>6, PanelGrows
<1>9. ASSUME rec' # "none" PROVE InCycle(w, n)'
  <2>1. cycle' = DI!NewCycle
    BY <1>9
  <2>2. /\ Len(final) \in 0..n
        /\ cycle'.final = Part(w, 0, Len(final))
        /\ cycle'.interim = Part(w, Len(final), n)
        /\ DI!Merge(cycle'.segments) = Part(w, n, n)
    BY <1>2, <1>3, <2>1, NewCycleIn
  <2>3. Len(final) <= n
    BY <1>5, <2>2
  <2> HIDE DEF n
  <2> QED BY <1>5, <2>2, <2>3 DEF InCycle
<1>10. Told(w, n)'
  BY <1>7, <1>8, <1>9 DEF Told
<1>11. DI!TypeOK'
  <2>1. settled' \in DI!Words /\ gone' \in 0..Len(settled') /\ guess' \in DI!Words
    BY <1>4, <1>l DEF DI!Words
  <2>2. cycle' \in [final : DI!Words, interim : DI!Words, segments : Seq(DI!Words)]
    <3>1. CASE cycle' = DI!NewCycle
      BY <1>2, <1>3, <3>1, NewCycleIn
    <3>2. CASE cycle' = cycle
      BY <1>2, <3>2 DEF DI!TypeOK
    <3> QED BY <3>1, <3>2
  <2> QED BY <1>2, <1>4, <2>1, <2>2 DEF DI!TypeOK
<1>12. Locked'
  BY <1>4 DEF Locked
<1>13. ~panel' => NothingShown'
  <2> SUFFICES ASSUME ~panel PROVE NothingShown'
    OBVIOUS
  <2>1. NothingShown /\ guess = <<>> /\ rec' = "none"
    BY <1>2 DEF NothingShown, Locked
  <2>2. settled' = <<>>
    BY <1>4, <2>1, ConcatEmptySeq DEF NothingShown
  <2> QED BY <2>1, <2>2 DEF NothingShown
<1>14. DI!SendsWhatIsShown'
  BY <1>2 DEF DI!SendsWhatIsShown
<1> QED BY <1>2, <1>5, <1>10, <1>11, <1>12, <1>13, <1>14 DEF DictationInv

-------------------------------------------------------------------------------
\* What changes nothing of it.
LEMMA DictationStays == DictationInv /\ UNCHANGED dictation => DictationInv'
<1> SUFFICES ASSUME DictationInv, UNCHANGED dictation PROVE DictationInv'
  OBVIOUS
<1> USE DEF dictation
<1>1. DI!TypeOK'
  BY DEF DictationInv, DI!TypeOK
<1>2. Locked' /\ (~panel' => NothingShown') /\ DI!SendsWhatIsShown'
  BY DEF DictationInv, Locked, NothingShown, DI!SendsWhatIsShown
<1>l. DI!Left' = DI!Left
  BY DEF DI!Left
<1>3. ASSUME NEW w, NEW h, Told(w, h) PROVE Told(w, h)'
  <2>1. Heard(w, h)'
    BY <1>3 DEF Told, Heard
  <2>2. ASSUME rec # "none" PROVE InCycle(w, h)'
    BY <1>3, <2>2 DEF Told, InCycle
  <2>3. ASSUME panel PROVE OnPanel(w, h)'
    BY <1>3, <1>l, <2>3 DEF Told, OnPanel, Corrected
  <2> QED BY <2>1, <2>2, <2>3 DEF Told
<1>4. \E w \in DI!Words : \E h \in 0..Len(w) : Told(w, h)'
  BY <1>3 DEF DictationInv
<1> QED BY <1>1, <1>2, <1>4 DEF DictationInv

\* A recognition starts with the closure, or fails.
LEMMA StartsOrFails ==
  ASSUME DI!TypeOK, NEW closure, DI!StartRecognition(closure)
  PROVE  /\ cycles' \in 0..MaxCycles /\ requested' \in BOOLEAN /\ failed' \in BOOLEAN
         /\ \/ rec' = "running" /\ requested' /\ status' = "listening" /\ cycle' = closure
            \/ rec' = "none" /\ ~requested' /\ status' = "error" /\ cycle' = cycle
<1>1. cycles' \in 0..MaxCycles
  <2>1. cycles \in 0..MaxCycles /\ cycles < MaxCycles /\ cycles' = cycles + 1
    BY DEF DI!StartRecognition, DI!TypeOK
  <2> QED BY <2>1, WordsAreBounded
<1> QED BY <1>1 DEF DI!StartRecognition

\* A cycle ends.
LEMMA OnEndTold == DictationInv /\ DI!OnEnd => DictationInv'
<1> SUFFICES ASSUME DictationInv, DI!OnEnd PROVE DictationInv'
  OBVIOUS
<1>1. DI!TypeOK /\ Locked /\ panel /\ rec # "none"
  BY DEF DictationInv, DI!OnEnd, NothingShown
<1>2. /\ DI!GuessStays
      /\ UNCHANGED <<cumulative, final, interim, panel, edited, baseline, recognized, sent>>
  BY DEF DI!OnEnd, DI!draft
<1>3. CASE requested
  <2>1. DI!StartRecognition(DI!NewCycle)
    BY <1>3 DEF DI!OnEnd
  <2>2. /\ cycles' \in 0..MaxCycles /\ requested' \in BOOLEAN /\ failed' \in BOOLEAN
        /\ \/ rec' = "running" /\ requested' /\ status' = "listening" /\ cycle' = DI!NewCycle
           \/ rec' = "none" /\ ~requested' /\ status' = "error" /\ cycle' = cycle
    BY <1>1, <2>1, StartsOrFails
  <2> QED BY <1>1, <1>2, <2>2, CycleEnds
<1>4. CASE ~requested
  <2>1. /\ rec' = "none" /\ status' = (IF failed THEN "error" ELSE "idle")
        /\ UNCHANGED <<requested, failed, cycle, cycles>>
    BY <1>4 DEF DI!OnEnd
  <2>2. /\ cycles' \in 0..MaxCycles /\ failed' \in BOOLEAN /\ requested' = FALSE
        /\ status' \in {"idle", "error"} /\ cycle' = cycle
    BY <1>1, <1>4, <2>1 DEF DI!TypeOK
  <2> QED BY <1>2, <2>1, <2>2, CycleEnds
<1> QED BY <1>3, <1>4

\* Recognition fails.
LEMMA OnErrorTold == DictationInv /\ DI!OnError => DictationInv'
<1> SUFFICES ASSUME DictationInv, DI!OnError PROVE DictationInv'
  OBVIOUS
<1>1. DI!TypeOK
  BY DEF DictationInv
<1>2. /\ DI!GuessStays
      /\ UNCHANGED <<cumulative, final, interim, panel, edited, baseline, recognized, sent>>
      /\ rec' = "none" /\ requested' = FALSE /\ status' = "error" /\ failed' = TRUE
      /\ cycles' = cycles /\ cycle' = cycle
  BY DEF DI!OnError, DI!draft
<1>3. cycles' \in 0..MaxCycles
  BY <1>1, <1>2 DEF DI!TypeOK
<1> QED BY <1>2, <1>3, CycleEnds

\* The user stops and goes on,
LEMMA ToggleTold == DictationInv /\ DI!Toggle => DictationInv'
<1> SUFFICES ASSUME DictationInv, DI!Toggle PROVE DictationInv'
  OBVIOUS
<1>1. DI!TypeOK /\ Locked /\ panel /\ (~panel => NothingShown) /\ DI!SendsWhatIsShown
  BY DEF DictationInv, DI!Toggle
<1>2. UNCHANGED <<panel, edited, baseline, recognized>>
  BY DEF DI!Toggle, DI!draft
<1>3. CASE status = "listening"
  <2>1. DI!StopListening /\ rec # "none"
    BY <1>1, <1>3 DEF DI!Toggle, Locked
  <2>2. UNCHANGED <<cumulative, failed, cycle, cycles, final, interim, sent>> /\ requested' = FALSE
    BY <2>1 DEF DI!StopListening
  <2>3. CASE rec' = "stopping" /\ status' = "processing" /\ UNCHANGED <<guess, said, settled, gone>>
    <3>1. DI!TypeOK'
      BY <1>1, <1>2, <2>2, <2>3 DEF DI!TypeOK
    <3>2. Locked'
      BY <2>2, <2>3 DEF Locked
    <3>3. ASSUME NEW w, NEW h, Told(w, h) PROVE Told(w, h)'
      <4>1. Heard(w, h)'
        BY <2>2, <2>3, <3>3 DEF Told, Heard
      <4>2. InCycle(w, h)'
        BY <2>1, <2>2, <3>3 DEF Told, InCycle
      <4>3. OnPanel(w, h)'
        <5>1. DI!Left' = DI!Left
          BY <2>3 DEF DI!Left
        <5> QED BY <1>1, <1>2, <2>2, <2>3, <3>3, <5>1 DEF Told, OnPanel, Corrected
      <4> QED BY <4>1, <4>2, <4>3 DEF Told
    <3>4. \E w \in DI!Words : \E h \in 0..Len(w) : Told(w, h)'
      BY <3>3 DEF DictationInv
    <3>5. DI!SendsWhatIsShown'
      BY <1>1, <2>2 DEF DI!SendsWhatIsShown
    <3> QED BY <1>1, <1>2, <2>2, <3>1, <3>2, <3>4, <3>5 DEF DictationInv
  <2>4. CASE /\ rec' = "none" /\ status' = (IF failed THEN "error" ELSE "idle")
             /\ DI!GuessStays
    <3>1. /\ cycles' \in 0..MaxCycles /\ failed' \in BOOLEAN
          /\ status' \in {"idle", "error"}
      BY <1>1, <2>2, <2>4 DEF DI!TypeOK
    <3> QED BY <1>2, <2>2, <2>4, <3>1, CycleEnds
  <2> QED BY <1>3, <2>1, <2>3, <2>4 DEF DI!StopListening, DI!heard
<1>4. CASE status # "listening"
  <2>1. DI!StartListening
    BY <1>4 DEF DI!Toggle
  <2>2. UNCHANGED <<cumulative, final, interim, sent>>
    BY <2>1 DEF DI!StartListening
  <2>3. CASE requested
    <3>1. UNCHANGED <<rec, requested, status, failed, cycle, cycles, guess, said, settled, gone>>
      BY <2>1, <2>3 DEF DI!StartListening, DI!hook, DI!heard
    <3> QED BY <1>2, <2>2, <3>1, DictationStays DEF dictation
  <2>4. CASE ~requested
    <3>1. DI!GuessStays /\ DI!StartRecognition(DI!NewCycle)
      BY <2>1, <2>4 DEF DI!StartListening
    <3>2. /\ cycles' \in 0..MaxCycles /\ requested' \in BOOLEAN /\ failed' \in BOOLEAN
          /\ \/ rec' = "running" /\ requested' /\ status' = "listening" /\ cycle' = DI!NewCycle
             \/ rec' = "none" /\ ~requested' /\ status' = "error" /\ cycle' = cycle
      BY <1>1, <3>1, StartsOrFails
    <3> QED BY <1>1, <1>2, <2>2, <3>1, <3>2, CycleEnds
  <2> QED BY <2>3, <2>4
<1> QED BY <1>3, <1>4

\* opens the panel,
LEMMA OpenTold == DictationInv /\ DI!Open => DictationInv'
<1> SUFFICES ASSUME DictationInv, DI!Open PROVE DictationInv'
  OBVIOUS
<1>1. DI!TypeOK /\ Locked /\ ~panel /\ NothingShown /\ DI!SendsWhatIsShown
  BY DEF DictationInv, DI!Open
<1>2. rec = "none" /\ final = <<>> /\ interim = <<>> /\ settled = <<>> /\ guess = <<>> /\ ~requested
  BY <1>1 DEF NothingShown, Locked
<1>3. DI!Merge(<<final, interim>>) = <<>> /\ DI!NewCycle = DI!Nothing
  <2>1. <<>> \in Seq(1..MaxWords) /\ \A i \in 1..Len(<<>>) : FALSE
    OBVIOUS
  <2>2. DI!Suffix(<<>>, <<>>) = <<>>
    BY <2>1, SuffixApart
  <2>3. DI!Merge(<<<<>>, <<>>>>) = Both(<<>>, <<>>)
    BY <2>1, MergeTwo
  <2>4. Both(<<>>, <<>>) = <<>>
    BY <2>1, BothIn
  <2> QED BY <1>2, <2>2, <2>3, <2>4 DEF DI!NewCycle, DI!Nothing
<1>4. /\ panel' /\ edited' = <<>> /\ baseline' = DI!None /\ recognized' = <<>>
      /\ UNCHANGED <<cumulative, final, interim, sent>>
      /\ DI!GuessStays /\ DI!StartRecognition(DI!Nothing)
  BY <1>2, <1>3 DEF DI!Open, DI!StartListening
<1>5. /\ settled' = <<>> /\ guess' = <<>> /\ said' = said /\ DI!Left' = <<>>
      /\ gone' = 0 /\ Len(settled') = 0
  <2>1. settled' = <<>> \o <<>> /\ guess' = <<>> /\ said' = said /\ gone' = gone
    BY <1>2, <1>4 DEF DI!GuessStays
  <2>2. settled' = <<>>
    BY <2>1, ConcatEmptySeq
  <2>3. gone = 0
    BY <1>1, <1>2 DEF DI!TypeOK
  <2>4. DI!Left' = <<>>
    <3>1. <<>> \in DI!Words
      BY DEF DI!Words
    <3> QED BY <2>1, <2>2, <2>3, <3>1, LeftIs
  <2> QED BY <2>1, <2>2, <2>3, <2>4
<1>6. /\ cycles' \in 0..MaxCycles /\ requested' \in BOOLEAN /\ failed' \in BOOLEAN
      /\ \/ rec' = "running" /\ requested' /\ status' = "listening" /\ cycle' = DI!Nothing
         \/ rec' = "none" /\ ~requested' /\ status' = "error" /\ cycle' = cycle
  BY <1>1, <1>4, StartsOrFails
<1>7. DI!TypeOK'
  <2>1. <<>> \in DI!Words /\ DI!Nothing \in [final : DI!Words, interim : DI!Words, segments : Seq(DI!Words)]
    BY DEF DI!Nothing, DI!Words
  <2> QED BY <1>1, <1>2, <1>4, <1>5, <1>6, <2>1 DEF DI!TypeOK
<1>8. Locked'
  BY <1>5, <1>6 DEF Locked
<1>s. DI!SendsWhatIsShown'
  BY <1>1, <1>4 DEF DI!SendsWhatIsShown
<1>9. NothingHeard'
  BY <1>1, <1>2, <1>4, <1>5, <1>6, <1>7, <1>8, <1>s DEF NothingHeard
<1> QED BY <1>9, NothingTold, PTL

\* begins again after an error,
LEMMA RetryTold == DictationInv /\ DI!RetryAfterError => DictationInv'
<1> SUFFICES ASSUME DictationInv, DI!RetryAfterError PROVE DictationInv'
  OBVIOUS
<1>1. /\ DI!TypeOK /\ Locked /\ panel /\ status = "error" /\ DI!SendsWhatIsShown
      /\ DI!Transcribed(<<>>, <<>>) /\ guess' = <<>>
      /\ gone' = IF recognized = <<>> THEN gone ELSE Len(settled)
      /\ DI!StartRecognition(DI!Nothing)
      /\ UNCHANGED <<cumulative, panel, said, settled, sent>>
  BY DEF DictationInv, DI!RetryAfterError
<1>2. /\ cycles' \in 0..MaxCycles /\ requested' \in BOOLEAN /\ failed' \in BOOLEAN
      /\ \/ rec' = "running" /\ requested' /\ status' = "listening" /\ cycle' = DI!Nothing
         \/ rec' = "none" /\ ~requested' /\ status' = "error" /\ cycle' = cycle
  BY <1>1, StartsOrFails
<1>3. rec = "none" /\ guess = <<>>
  BY <1>1 DEF Locked
<1>4. PICK w \in DI!Words : \E h \in 0..Len(w) : Told(w, h)
  BY DEF DictationInv
<1>5. PICK h \in 0..Len(w) : Told(w, h)
  BY <1>4
<1>6. Both(final, interim) = w /\ OnPanel(w, h)
  BY <1>1, <1>5 DEF Told, Heard
<1>7. /\ <<>> \in DI!Words /\ <<>> \in Seq(1..MaxWords) /\ final \in Seq(1..MaxWords)
      /\ interim \in Seq(1..MaxWords) /\ edited \in DI!Words
  BY <1>1 DEF DI!TypeOK, DI!Words
<1>8. DI!Merge(<<<<>>, <<>>>>) = <<>> /\ Both(<<>>, <<>>) = <<>>
  <2>1. DI!Merge(<<<<>>, <<>>>>) = Both(<<>>, <<>>)
    BY <1>7, MergeTwo
  <2>2. Both(<<>>, <<>>) = <<>>
    BY <1>7, BothIn
  <2> QED BY <2>1, <2>2
<1>9. final' = <<>> /\ interim' = <<>>
  BY <1>1 DEF DI!Transcribed
<1>l. settled \in DI!Words /\ gone \in 0..Len(settled) /\ Len(settled) \in 0..Len(settled)
  BY <1>1 DEF DI!TypeOK, DI!Words
<1>10. /\ recognized' = <<>> /\ edited' \in DI!Words /\ gone' \in 0..Len(settled)
       /\ baseline' \in DI!Words \cup {DI!None}
       /\ baseline' = DI!None => edited' = <<>> /\ DI!Left' = <<>>
       /\ baseline' # DI!None => /\ baseline' = <<>> /\ DI!Left' = edited'
                                 /\ \A i \in 1..Len(edited') : edited'[i] <= said
  <2>1. CASE final # <<>> \/ interim # <<>>
    <3>1. w # <<>>
      <4>1. CASE final = <<>>
        BY <1>6, <1>7, <2>1, <4>1, BothIn
      <4>2. CASE final # <<>>
        <5>1. DI!Suffix(final, interim) \in Seq(1..MaxWords)
          BY <1>7, SuffixIn
        <5>2. Len(final) \in Nat /\ Len(final) # 0
          BY <1>7, <4>2, EmptySeq
        <5>3. Len(w) = Len(final) + Len(DI!Suffix(final, interim)) /\ Len(DI!Suffix(final, interim)) \in Nat
          BY <1>6, <1>7, <5>1, ConcatProperties DEF Both
        <5> QED BY <5>2, <5>3
      <4> QED BY <4>1, <4>2
    <3>2. recognized # <<>>
      BY <1>6, <3>1 DEF OnPanel
    <3>3. recognized' = <<>> /\ baseline' = DI!None /\ edited' = <<>>
      BY <1>1, <1>8, <2>1, <3>2 DEF DI!Transcribed
    <3>4. gone' = Len(settled) /\ DI!Left' = <<>>
      BY <1>1, <1>l, <3>2, LeftIs
    <3> QED BY <1>7, <1>l, <3>3, <3>4
  <2>2. CASE final = <<>> /\ interim = <<>>
    <3>1. w = <<>> /\ UNCHANGED <<edited, baseline, recognized>>
      BY <1>1, <1>6, <1>8, <2>2 DEF DI!Transcribed, DI!draft
    <3>2. recognized = <<>> /\ gone' = gone /\ DI!Left' = DI!Left
      BY <1>1, <1>6, <3>1 DEF OnPanel, DI!Left
    <3>3. h = 0 /\ Part(w, 0, 0) = <<>>
      <4>1. Len(w) = 0 /\ 0 <= 0
        BY <3>1
      <4>2. Part(w, 0, 0) = <<>>
        <5>1. Part(w, 0, Len(w)) = w
          BY <1>7, <3>1, PartIsWhole
        <5> QED BY <3>1, <4>1, <5>1
      <4> QED BY <4>1, <4>2
    <3>4. CASE baseline = DI!None
      <4>1. edited = <<>> /\ DI!Left = <<>>
        BY <1>6, <2>2, <3>3, <3>4 DEF OnPanel
      <4>2. baseline' = DI!None /\ edited' = <<>> /\ DI!Left' = <<>> /\ gone' = gone
        BY <3>1, <3>2, <3>4, <4>1
      <4>3. recognized' = <<>>
        BY <3>1, <3>2
      <4> QED BY <1>7, <1>l, <4>2, <4>3
    <3>5. CASE baseline # DI!None
      <4>1. Corrected(w, 0, 0)
        <5>1. PICK e \in 0..h : Corrected(w, h, e)
          BY <1>6, <3>5 DEF OnPanel
        <5>2. e = 0
          BY <3>3, <5>1
        <5> QED BY <3>3, <5>1, <5>2
      <4>2. edited \o <<>> = edited
        BY <1>7, ConcatEmptySeq DEF DI!Words
      <4>3. baseline = <<>> /\ DI!Left = edited /\ \A i \in 1..Len(edited) : edited[i] <= said
        BY <3>3, <4>1, <4>2 DEF Corrected
      <4> QED BY <1>7, <1>l, <3>1, <3>2, <3>5, <4>3
    <3> QED BY <3>4, <3>5
  <2> QED BY <2>1, <2>2
<1>11. DI!TypeOK'
  <2>1. DI!Nothing \in [final : DI!Words, interim : DI!Words, segments : Seq(DI!Words)]
    BY DEF DI!Nothing, DI!Words
  <2> QED BY <1>1, <1>2, <1>7, <1>9, <1>10, <2>1 DEF DI!TypeOK
<1>12. Locked'
  BY <1>1, <1>2 DEF Locked
<1>s. DI!SendsWhatIsShown'
  BY <1>1 DEF DI!SendsWhatIsShown
<1>13. NothingHeard'
  BY <1>1, <1>2, <1>9, <1>10, <1>11, <1>12, <1>s DEF NothingHeard
<1> QED BY <1>13, NothingTold, PTL

\* corrects the text,
LEMMA EditTold == DictationInv /\ DI!Edit => DictationInv'
<1> SUFFICES ASSUME DictationInv, DI!Edit PROVE DictationInv'
  OBVIOUS
<1>1. /\ DI!TypeOK /\ Locked /\ panel /\ status \notin {"listening", "processing"}
      /\ DI!SendsWhatIsShown
  BY DEF DictationInv, DI!Edit
<1>2. /\ \/ edited' = <<>> /\ said' = said
         \/ said < MaxWords /\ said' = said + 1 /\ edited' = <<said'>>
      /\ baseline' = DI!Merge(<<final, interim>>) /\ settled' = edited' /\ gone' = 0
      /\ UNCHANGED <<cumulative, rec, requested, status, failed, cycle, cycles, final, interim,
                     panel, recognized, guess, sent>>
  BY DEF DI!Edit, DI!hook
<1>3. rec = "none" /\ guess = <<>>
  BY <1>1 DEF Locked
<1>4. PICK w \in DI!Words : \E h \in 0..Len(w) : Told(w, h)
  BY DEF DictationInv
<1>5. PICK h \in 0..Len(w) : Told(w, h)
  BY <1>4
<1> DEFINE n == Len(w)
<1>6. /\ Distinct(w) /\ (\A i \in 1..n : w[i] <= said) /\ Both(final, interim) = w /\ OnPanel(w, h)
  BY <1>1, <1>5 DEF Told, Heard
<1>7. /\ w \in Seq(1..MaxWords) /\ n \in Nat /\ n \in 0..n /\ n <= n /\ n <= Len(w) /\ n = Len(w)
      /\ final \in Seq(1..MaxWords) /\ interim \in Seq(1..MaxWords)
  BY <1>1 DEF DI!TypeOK, DI!Words
<1>8. said \in Nat /\ said' \in 0..MaxWords /\ said' >= said
  <2>1. said \in 0..MaxWords
    BY <1>1 DEF DI!TypeOK
  <2> QED BY <1>2, <2>1, WordsAreBounded
<1>9. edited' \in Seq(1..MaxWords) /\ \A i \in 1..Len(edited') : edited'[i] <= said'
  <2>1. CASE edited' = <<>>
    BY <2>1
  <2>2. CASE said' = said + 1 /\ edited' = <<said'>>
    <3>1. said' \in 1..MaxWords /\ said' <= said'
      BY <1>8, <2>2, WordsAreBounded
    <3> DEFINE e == said'
    <3>2. <<e>> \in Seq(1..MaxWords) /\ Len(<<e>>) = 1 /\ <<e>>[1] = e
      BY <3>1
    <3>3. \A i \in 1..1 : i = 1
      OBVIOUS
    <3> QED BY <2>2, <3>1, <3>2, <3>3
  <2> QED BY <1>2, <2>1, <2>2
<1>10. baseline' = w
  BY <1>2, <1>6, <1>7, MergeTwo
<1>11. w # DI!None
  <2> SUFFICES ASSUME w = DI!None PROVE FALSE
    OBVIOUS
  <2>1. Len(w) = 1 /\ w[1] = 0 /\ 1 \in 1..1
    BY DEF DI!None
  <2>2. w[1] \in 1..MaxWords
    BY <1>7, <2>1, ElementOfSeq
  <2> QED BY <2>1, <2>2
<1>12. Part(w, n, n) = <<>> /\ Part(w, 0, n) = w
  BY <1>7, PartIsEmpty, PartIsWhole
<1>13. Corrected(w, n, n)'
  <2>1. DI!Left' = edited' \o Part(w, n, n)
    <3>1. edited' \o <<>> = edited'
      BY <1>9, ConcatEmptySeq
    <3>2. DI!Left' = edited'
      BY <1>2, <1>9, LeftIs DEF DI!Words
    <3> QED BY <1>12, <3>1, <3>2
  <2>2. \A j \in n + 1..n : FALSE
    BY <1>7
  <2> QED BY <1>9, <1>10, <1>12, <2>1, <2>2 DEF Corrected
<1>14. OnPanel(w, n)'
  BY <1>2, <1>6, <1>7, <1>10, <1>11, <1>13 DEF OnPanel
<1>15. Heard(w, n)'
  <2>1. \A i \in 1..n : w[i] <= said'
    <3> SUFFICES ASSUME NEW i \in 1..n PROVE w[i] <= said'
      OBVIOUS
    <3>1. w[i] \in 1..MaxWords
      BY <1>7, ElementOfSeq
    <3> QED BY <1>6, <1>8, <3>1
  <2> QED BY <1>2, <1>3, <1>6, <1>12, <2>1 DEF Heard
<1>16. Told(w, n)' /\ n \in 0..Len(w)
  BY <1>2, <1>3, <1>7, <1>14, <1>15 DEF Told
<1>17. DI!TypeOK'
  <2>1. gone' \in 0..Len(settled')
    BY <1>2, <1>9
  <2> QED BY <1>1, <1>2, <1>8, <1>9, <1>10, <2>1 DEF DI!TypeOK, DI!Words
<1>18. Locked'
  BY <1>1, <1>2 DEF Locked
<1>19. DI!SendsWhatIsShown'
  BY <1>1, <1>2 DEF DI!SendsWhatIsShown
<1> QED BY <1>1, <1>2, <1>16, <1>17, <1>18, <1>19 DEF DictationInv

\* The Pause key's text begins what the panel shows, unless that was corrected.
LEMMA FinalBegins ==
  DictationInv /\ panel /\ baseline = DI!None => DI!IsPrefix(final, DI!Left \o guess)
<1> SUFFICES ASSUME DictationInv, panel, baseline = DI!None
             PROVE  DI!IsPrefix(final, DI!Left \o guess)
  OBVIOUS
<1> DEFINE f == final
           t == DI!Suffix(final, interim)
<1>1. f \in Seq(1..MaxWords) /\ interim \in Seq(1..MaxWords)
  BY DEF DictationInv, DI!TypeOK, DI!Words
<1>2. t \in Seq(1..MaxWords)
  BY <1>1, SuffixIn
<1>3. DI!Left \o guess = f \o t
  <2>1. edited = final
    BY DEF DictationInv, Told, OnPanel
  <2>2. DI!Combined = DI!Merge(<<final, interim>>)
    BY <2>1 DEF DI!Combined, DI!Pending
  <2>3. DI!Combined = DI!Left \o guess
    BY ShowsAll
  <2> QED BY <1>1, <2>2, <2>3, MergeTwo DEF Both
<1> HIDE DEF f, t
<1> DEFINE u == f \o t
           n == Len(f)
<1>4. /\ u \in Seq(1..MaxWords) /\ Len(u) = n + Len(t) /\ n \in Nat /\ Len(t) \in Nat
      /\ \A i \in 1..n : u[i] = f[i]
  BY <1>1, <1>2, PartsOfTwo
<1> HIDE DEF u
<1>5. n <= Len(u) /\ n <= Len(f) /\ 0 \in Nat /\ 0 <= n
  BY <1>4
<1>6. Part(u, 0, n) = Part(f, 0, n)
  BY <1>1, <1>4, <1>5, PartsSame
<1> QED BY <1>3, <1>5, <1>6 DEF DI!IsPrefix, Part, f, u

\* The panel goes,
LEMMA GoneTold ==
  ASSUME DI!TypeOK, DI!Gone, DI!SendsWhatIsShown',
         sent' \in [text : DI!Words, shown : DI!Words, how : DI!Ways]
  PROVE  DictationInv'
<1>1. /\ panel' = FALSE /\ rec' = "none" /\ requested' = FALSE /\ status' = "idle" /\ failed' = FALSE
      /\ final' = <<>> /\ interim' = <<>>
      /\ edited' = <<>> /\ baseline' = DI!None /\ recognized' = <<>>
      /\ guess' = <<>> /\ settled' = <<>> /\ gone' = 0
      /\ UNCHANGED <<cumulative, cycle, cycles, said>>
  BY DEF DI!Gone
<1>2. DI!TypeOK'
  <2>1. <<>> \in DI!Words /\ 0 \in 0..Len(<<>>)
    BY DEF DI!Words
  <2> QED BY <1>1, <2>1 DEF DI!TypeOK
<1>3. NothingHeard'
  BY <1>1, <1>2 DEF NothingHeard, Locked
<1> QED BY <1>3, NothingTold, PTL

\* What there is to send is words.
LEMMA WordsToSend ==
  DictationInv => final \in DI!Words /\ DI!Left \o guess \in DI!Words
<1> SUFFICES ASSUME DictationInv PROVE final \in DI!Words /\ DI!Left \o guess \in DI!Words
  OBVIOUS
<1>1. /\ settled \in DI!Words /\ gone \in 0..Len(settled) /\ Len(settled) \in Nat
      /\ guess \in DI!Words /\ final \in DI!Words
  BY DEF DictationInv, DI!TypeOK, DI!Words
<1>2. Part(settled, gone, Len(settled)) \in DI!Words
  BY <1>1, PartIn
<1>3. DI!Left \in DI!Words
  BY <1>2 DEF DI!Left, Part
<1> QED BY <1>1, <1>3, ConcatProperties DEF DI!Words

\* sending what it shows or not,
LEMMA CloseTold == DictationInv /\ DI!Close => DictationInv'
<1> SUFFICES ASSUME DictationInv, DI!Close PROVE DictationInv'
  OBVIOUS
<1>1. DI!TypeOK /\ DI!Gone /\ panel /\ DI!SendsWhatIsShown
  BY DEF DictationInv, DI!Close, DI!Gone
<1>2. DI!Combined = DI!Left \o guess /\ DI!Left \o guess \in DI!Words
  BY <1>1, ShowsAll, WordsToSend
<1>3. CASE sent' = [text |-> DI!Combined, shown |-> DI!Left \o guess, how |-> "panel"]
  <2>1. DI!SendsWhatIsShown'
    BY <1>2, <1>3 DEF DI!SendsWhatIsShown
  <2>2. sent' \in [text : DI!Words, shown : DI!Words, how : DI!Ways]
    BY <1>2, <1>3 DEF DI!Ways
  <2> QED BY <1>1, <2>1, <2>2, GoneTold
<1>4. CASE sent' = sent
  <2>1. DI!SendsWhatIsShown'
    BY <1>1, <1>4 DEF DI!SendsWhatIsShown
  <2>2. sent' \in [text : DI!Words, shown : DI!Words, how : DI!Ways]
    BY <1>1, <1>4 DEF DI!TypeOK
  <2> QED BY <1>1, <2>1, <2>2, GoneTold
<1> QED BY <1>3, <1>4 DEF DI!Close

\* or by the Pause key.
LEMMA PauseKeyTold == DictationInv /\ DI!PauseKey => DictationInv'
<1> SUFFICES ASSUME DictationInv, DI!PauseKey PROVE DictationInv'
  OBVIOUS
<1>1. DI!TypeOK /\ DI!Gone /\ panel
  BY DEF DictationInv, DI!PauseKey, DI!Gone
<1>2. final \in DI!Words /\ DI!Left \o guess \in DI!Words
  BY WordsToSend
<1>3. CASE baseline = DI!None
  <2>1. sent' = [text |-> final, shown |-> DI!Left \o guess, how |-> "key"]
    BY <1>3 DEF DI!PauseKey
  <2>2. DI!SendsWhatIsShown'
    BY <1>1, <1>3, <2>1, FinalBegins DEF DI!SendsWhatIsShown
  <2>3. sent' \in [text : DI!Words, shown : DI!Words, how : DI!Ways]
    BY <1>2, <2>1 DEF DI!Ways
  <2> QED BY <1>1, <2>2, <2>3, GoneTold
<1>4. CASE baseline # DI!None
  <2>1. sent' = [text |-> final, shown |-> DI!Left \o guess, how |-> "corrected"]
    BY <1>4 DEF DI!PauseKey
  <2>2. DI!SendsWhatIsShown'
    BY <2>1 DEF DI!SendsWhatIsShown
  <2>3. sent' \in [text : DI!Words, shown : DI!Words, how : DI!Ways]
    BY <1>2, <2>1 DEF DI!Ways
  <2> QED BY <1>1, <2>2, <2>3, GoneTold
<1> QED BY <1>3, <1>4

-------------------------------------------------------------------------------
\* The invariant holds at the start,
LEMMA DictationStarts == DI!Init => DictationInv
<1> SUFFICES ASSUME DI!Init PROVE NothingHeard
  BY NothingTold
<1>1. DI!TypeOK
  <2>1. <<>> \in DI!Words /\ DI!Nothing \in [final : DI!Words, interim : DI!Words, segments : Seq(DI!Words)]
    BY DEF DI!Nothing, DI!Words
  <2>2. 0 \in 0..MaxWords /\ 0 \in 0..MaxCycles
    BY WordsAreBounded
  <2>3. sent \in [text : DI!Words, shown : DI!Words, how : DI!Ways]
    BY <2>1 DEF DI!Init, DI!Ways
  <2>4. gone \in 0..Len(settled)
    BY DEF DI!Init
  <2> QED BY <2>1, <2>2, <2>3, <2>4 DEF DI!Init, DI!TypeOK
<1>2. DI!SendsWhatIsShown
  BY DEF DI!Init, DI!SendsWhatIsShown
<1> QED BY <1>1, <1>2 DEF DI!Init, NothingHeard, Locked

\* is kept by every step,
LEMMA DictationSteps == DictationInv /\ [DI!Next]_dictation => DictationInv'
<1> SUFFICES ASSUME DictationInv, DI!Next \/ UNCHANGED dictation PROVE DictationInv'
  OBVIOUS
<1> QED BY HearsTold, SettlesTold, ConfirmsTold, OnEndTold, OnErrorTold, OpenTold, ToggleTold,
           RetryTold, EditTold, CloseTold, PauseKeyTold, DictationStays DEF DI!Next

\* which the browser's steps are,
LEMMA DictationOf == [BrowserNext]_BrowserVars => [DI!Next]_dictation
BY DEF BrowserNext, BrowserVars, Of

\* and so holds always.
LEMMA DictationAlways == BrowserSpec => []DictationInv
<1>1. BrowserInit => DictationInv
  BY DictationStarts DEF BrowserInit
<1>2. DictationInv /\ [BrowserNext]_BrowserVars => DictationInv'
  BY DictationSteps, DictationOf
<1> QED BY <1>1, <1>2, PTL DEF BrowserSpec

\* Every word said or corrected is shown once and in order, whatever cycles the browser
\* cut the speech into, less what a retry after an error takes, and that is what the panel
\* sends; the Pause key sends how it begins, unless it was corrected; and the field is
\* locked exactly while a recognizer runs (WordsKept of Dictation).
THEOREM WordsStayKept == BrowserSpec => []WordsKept
<1>1. DictationInv => WordsKept
  <2> SUFFICES ASSUME DictationInv PROVE WordsKept
    OBVIOUS
  <2>1. (status \in {"listening", "processing"}) = (rec # "none")
    BY DEF DictationInv, Locked
  <2>2. panel => DI!Combined = DI!Left \o guess
    BY ShowsAll
  <2>3. DI!SendsWhatIsShown
    BY DEF DictationInv
  <2> QED BY <2>1, <2>2, <2>3 DEF WordsKept, DI!WordsKept
<1> QED BY <1>1, DictationAlways, PTL

-------------------------------------------------------------------------------
(***************************************************************************)
(* The types of the components above.                                      *)
(***************************************************************************)

\* ActiveSession: what the URL names, what is remembered and what is asked for are sessions.
SessionTypes == SessionInv /\ AS!TypeOK

\* deriveActiveSessionId and resolvedActiveSessionId name sessions of the lists, or none.
LEMMA ActiveIsOne ==
  ASSUME SessionTypes
  PROVE  AS!Active \in Sessions \cup {0} /\ AS!Resolved \in Sessions \cup {0}
<1>1. AS!Shown \subseteq Sessions /\ AS!Pickable \subseteq Sessions
  BY DEF SessionTypes, AS!TypeOK, AS!Shown, AS!Pickable, AS!Free
<1>2. AS!First(AS!Shown) \in Sessions \cup {0} /\ AS!First(AS!Pickable) \in Sessions \cup {0}
  BY <1>1, FirstIsOne DEF AS!First, AS!None
<1>3. AS!Active \in Sessions \cup {0}
  BY <1>2 DEF AS!Active, SessionTypes, AS!TypeOK, AS!None
<1>4. QED BY <1>2, <1>3 DEF AS!Resolved, AS!None

\* The lists of sessions and panes are agreed on before anything happens.
LEMMA SessionTypesInit == AS!Init => SessionTypes
<1> SUFFICES ASSUME AS!Init PROVE SessionTypes
  OBVIOUS
<1>1. moves \in 0..MaxMoves
  BY BoundsAreNumbers DEF AS!Init
<1>2. QED BY <1>1, SessionInit DEF AS!Init, SessionTypes, AS!TypeOK, AS!Shown, AS!None

\* Every effect, move of the user and answer of a query keeps them sessions.
LEMMA SessionTypesStep == SessionTypes /\ [AS!Next]_(AS!vars) => SessionTypes'
<1> SUFFICES ASSUME SessionTypes, [AS!Next]_(AS!vars) PROVE SessionTypes'
  OBVIOUS
<1>0. SessionInv' /\ AS!Active \in Sessions \cup {0} /\ AS!Resolved \in Sessions \cup {0}
  BY SessionStep, ActiveIsOne DEF SessionTypes
<1>a. AS!Moves => moves' \in 0..MaxMoves
  BY BoundsAreNumbers DEF AS!Moves, SessionTypes, AS!TypeOK
<1> SUFFICES AS!TypeOK'
  BY <1>0 DEF SessionTypes
<1> USE DEF SessionTypes, AS!TypeOK, AS!None
<1>1. CASE AS!SyncParam
  BY <1>0, <1>1 DEF AS!SyncParam
<1>2. CASE AS!Remember
  BY <1>0, <1>2 DEF AS!Remember
<1>3. CASE AS!FollowScreen
  BY <1>0, <1>3 DEF AS!FollowScreen
<1>4. CASE AS!DropAttached
  BY <1>4 DEF AS!DropAttached
<1>5. CASE AS!SessionsFetched
  BY <1>0, <1>a, <1>5 DEF AS!SessionsFetched, AS!Keeps
<1>6. CASE AS!PanesFetched
  BY <1>a, <1>6 DEF AS!PanesFetched
<1>7. ASSUME NEW s \in Sessions, AS!UserOpens(s) PROVE AS!TypeOK'
  BY <1>a, <1>7 DEF AS!UserOpens
<1>8. ASSUME NEW s \in Sessions, AS!UserAttaches(s) PROVE AS!TypeOK'
  BY <1>a, <1>8 DEF AS!UserAttaches
<1>9. CASE UNCHANGED AS!vars
  BY <1>9 DEF AS!vars
<1>10. QED
  BY <1>1, <1>2, <1>3, <1>4, <1>5, <1>6, <1>7, <1>8, <1>9 DEF AS!Next

\* The types of a window's components: every one of them, in every behaviour of the
\* browser, keeps to the types its module states.
LEMMA WindowTypes ==
  BrowserSpec => [](AP!TypeOK /\ WO!TypeOK /\ AS!TypeOK /\ AC!TypeOK /\ DI!TypeOK)
<1>1. BrowserSpec => []AP!TypeOK
  <2>1. PollInv => AP!TypeOK
    BY DEF PollInv
  <2> QED BY <2>1, PollInit, PollStep, PollLift, PTL
<1>2. BrowserSpec => []WO!TypeOK
  <2>1. OwnerInv => WO!TypeOK
    BY DEF OwnerInv, OwnerTypes, Fair, FairChanges, WO!TypeOK
  <2> QED BY <2>1, OwnerInit, OwnerStep, OwnerLift, PTL
<1>3. BrowserSpec => []AS!TypeOK
  <2>1. SessionTypes => AS!TypeOK
    BY DEF SessionTypes
  <2> QED BY <2>1, SessionTypesInit, SessionTypesStep, SessionLift, PTL
<1>4. BrowserSpec => []AC!TypeOK
  <2>1. CreateInv => AC!TypeOK
    <3> SUFFICES ASSUME CreateInv PROVE AC!TypeOK
      OBVIOUS
    <3>1. 1..born \subseteq 1..MaxPanes
      BY BoundsAreNumbers DEF CreateInv, CreatePanes
    <3> DEFINE ids == 1..MaxPanes
    <3>2. /\ server \subseteq ids /\ showing \subseteq ids
          /\ before \subseteq ids /\ newPane \subseteq ids
          /\ listing = AC!None \/ listing \subseteq ids
          /\ prev = AC!None \/ prev \subseteq ids
          /\ born \in 0..MaxPanes
      BY <3>1 DEF CreateInv, CreatePanes
    <3> HIDE DEF ids
    <3>4. /\ {server, showing, before, newPane} \subseteq SUBSET ids
          /\ {listing, prev} \subseteq (SUBSET ids) \cup {AC!None}
      BY <3>2
    <3>5. AC!PaneIds = ids
      BY DEF ids, AC!PaneIds
    <3>3. user \in [pc : {"idle", "create", "created", "delete", "deleted", "next"},
                    left : SUBSET AC!PaneIds, adds : BOOLEAN]
      BY <3>1 DEF CreateInv, CreateUser, AC!PaneIds
    <3> QED BY <3>2, <3>3, <3>4, <3>5 DEF CreateInv, CreateFlags, AC!TypeOK
  <2> QED BY <2>1, CreateInit, CreateStep, CreateLift, PTL
<1>5. BrowserSpec => []DI!TypeOK
  <2>1. DictationInv => DI!TypeOK
    BY DEF DictationInv
  <2> QED BY <2>1, DictationAlways, PTL
<1> QED BY <1>1, <1>2, <1>3, <1>4, <1>5, PTL
==================================================================================
