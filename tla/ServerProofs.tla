------------------------------- MODULE ServerProofs -------------------------------
(***************************************************************************)
(* Safety of components of the server that do not meet, for every value of *)
(* the constants: ViewConnection, Maintenance, EventWatcher, AgentShows    *)
(* and OutputBatch in a behaviour of MCServer, and the types of all five.  *)
(***************************************************************************)
EXTENDS MCServer, FiniteSetTheorems, SequenceFacts, TLAPS

-------------------------------------------------------------------------------
(***************************************************************************)
(* ViewConnection: the counts of a session, and what a respawn leaves.     *)
(***************************************************************************)

\* Where a handler of a view can be.
Stages == {"new", "options", "transport", "wait", "start", "undo", "claim", "reread",
           "ready", "stream", "close", "teardown", "over"}

\* What is known of one view.
View == [at : Stages, applied : BOOLEAN, pending : BOOLEAN, gen : 0..MaxRespawns + 1,
         running : BOOLEAN, output : BOOLEAN, attempt : 0..ClaimAttempts, reread : BOOLEAN,
         claim : {"none", "applied", "refused", "overtaken", "stale"}, respawned : BOOLEAN]

\* A claim that has read the generation again has the one there is now, unless the
\* session was respawned since, and then it knows.
Follows(w, now) ==
  /\ w.reread => w.at \in {"claim", "reread"}
  /\ w.at = "claim" /\ w.reread /\ ~w.respawned => w.gen = now
  /\ w.claim # "stale"

\* What a view holds, by the stage of its handler: its tasks count, its output task
\* runs and its client is there only in between, and only an external session has
\* options to hold.
Holds(w, client, external) ==
  /\ w.running => w.at \in {"stream", "claim", "reread", "close", "teardown", "over"}
  /\ w.at \in {"stream", "close", "teardown"} => w.running
  /\ w.output => w.running /\ w.at \in {"stream", "claim", "reread"}
  /\ client => w.at \in {"claim", "reread", "ready", "stream", "close"}
  /\ w.at \in {"new", "options"} => ~w.applied
  /\ w.at = "options" \/ w.applied => external

\* The views that count as connections, and those that hold the session's options.
Working(vs) == {v \in Views : vs[v].running /\ vs[v].at # "over"}
\* The views that hold the options of the session.
Holding(vs) == {v \in Views : vs[v].applied /\ vs[v].at # "over"}

\* A view that failed to take hold of the options lets go of them all the same, so
\* refs may be less than the views that hold them, and is never more.
Counts ==
  /\ active = Cardinality(Working(view))
  /\ refs \in Nat /\ refs <= Cardinality(Holding(view))
  /\ refs = 0 => look = "own" \/ mishaps

\* The parts of the state the counts and the generation are about.
ViewTypes ==
  /\ kind \in {"tether", "external"}
  /\ view \in [Views -> View]
  /\ look \in {"own", "plain", "mixed"} /\ mishaps \in BOOLEAN
  /\ browser \subseteq Views /\ clients \subseteq Views
  /\ generation \in 1..MaxRespawns + 1

\* Every view follows the generation and holds what its stage says.
ViewsSound ==
  \A v \in Views : /\ Follows(view[v], generation)
                   /\ Holds(view[v], v \in clients, kind = "external")

\* The counts and what the views hold: only together do they carry over a step.
ViewInv == ViewTypes /\ Counts /\ ViewsSound

\* The counts after one view moved.
LEMMA ViewsCounted ==
  ASSUME NEW vs \in [Views -> View], NEW v \in Views, NEW x \in View,
         NEW ws, ws = [vs EXCEPT ![v] = x]
  PROVE  /\ ws \in [Views -> View]
         /\ Cardinality(Working(vs)) \in 0..Cardinality(Views)
         /\ Cardinality(Holding(vs)) \in 0..Cardinality(Views)
         /\ ((x.running /\ x.at # "over") <=> (vs[v].running /\ vs[v].at # "over"))
              => Cardinality(Working(ws)) = Cardinality(Working(vs))
         /\ ((x.applied /\ x.at # "over") <=> (vs[v].applied /\ vs[v].at # "over"))
              => Cardinality(Holding(ws)) = Cardinality(Holding(vs))
         /\ x.running /\ x.at # "over" /\ ~vs[v].running
              => Cardinality(Working(ws)) = Cardinality(Working(vs)) + 1
         /\ x.at = "over" /\ vs[v].running /\ vs[v].at # "over"
              => Cardinality(Working(ws)) = Cardinality(Working(vs)) - 1
         /\ x.applied /\ x.at # "over" /\ ~(vs[v].applied /\ vs[v].at # "over")
              => Cardinality(Holding(ws)) = Cardinality(Holding(vs)) + 1
         /\ x.at = "over" /\ vs[v].applied /\ vs[v].at # "over"
              => Cardinality(Holding(ws)) = Cardinality(Holding(vs)) - 1
<1>1. /\ IsFiniteSet(Working(vs)) /\ Cardinality(Working(vs)) <= Cardinality(Views)
      /\ IsFiniteSet(Holding(vs)) /\ Cardinality(Holding(vs)) <= Cardinality(Views)
  <2>1. Working(vs) \subseteq Views /\ Holding(vs) \subseteq Views
    BY DEF Working, Holding
  <2> QED BY <2>1, FS_Subset, ViewsAreFinite
<1>2. /\ Cardinality(Working(vs)) \in Nat /\ Cardinality(Holding(vs)) \in Nat
      /\ Cardinality(Views) \in Nat
  BY <1>1, FS_CardinalityType, ViewsAreFinite
<1>3. /\ ws \in [Views -> View] /\ ws[v] = x
      /\ \A u \in Views \ {v} : ws[u] = vs[u]
  OBVIOUS
<1>4. ((x.running /\ x.at # "over") <=> (vs[v].running /\ vs[v].at # "over"))
        => Working(ws) = Working(vs)
  BY <1>3 DEF Working
<1>5. ((x.applied /\ x.at # "over") <=> (vs[v].applied /\ vs[v].at # "over"))
        => Holding(ws) = Holding(vs)
  BY <1>3 DEF Holding
<1>6. x.running /\ x.at # "over" /\ ~vs[v].running
        => Working(ws) = Working(vs) \cup {v} /\ v \notin Working(vs)
  BY <1>3 DEF Working
<1>7. x.at = "over" /\ vs[v].running /\ vs[v].at # "over"
        => Working(ws) = Working(vs) \ {v} /\ v \in Working(vs)
  BY <1>3 DEF Working
<1>8. x.applied /\ x.at # "over" /\ ~(vs[v].applied /\ vs[v].at # "over")
        => Holding(ws) = Holding(vs) \cup {v} /\ v \notin Holding(vs)
  BY <1>3 DEF Holding
<1>9. x.at = "over" /\ vs[v].applied /\ vs[v].at # "over"
        => Holding(ws) = Holding(vs) \ {v} /\ v \in Holding(vs)
  BY <1>3 DEF Holding
<1>10. /\ v \notin Working(vs) => Cardinality(Working(vs) \cup {v}) = Cardinality(Working(vs)) + 1
       /\ v \in Working(vs) => Cardinality(Working(vs) \ {v}) = Cardinality(Working(vs)) - 1
       /\ v \notin Holding(vs) => Cardinality(Holding(vs) \cup {v}) = Cardinality(Holding(vs)) + 1
       /\ v \in Holding(vs) => Cardinality(Holding(vs) \ {v}) = Cardinality(Holding(vs)) - 1
  BY <1>1, FS_AddElement, FS_RemoveElement
<1> HIDE DEF Working, Holding, View
<1>11. Cardinality(Working(vs)) \in 0..Cardinality(Views)
       /\ Cardinality(Holding(vs)) \in 0..Cardinality(Views)
  BY <1>1, <1>2
<1> QED BY <1>3, <1>4, <1>5, <1>6, <1>7, <1>8, <1>9, <1>10, <1>11

\* A view that ends takes what it holds off the counts.
LEMMA ViewEnds ==
  ASSUME NEW vs \in [Views -> View], NEW v \in Views, NEW x \in View,
         NEW ws, ws = [vs EXCEPT ![v] = x], x.at = "over", vs[v].at # "over"
  PROVE  /\ vs[v].running => Cardinality(Working(ws)) = Cardinality(Working(vs)) - 1
         /\ vs[v].applied => Cardinality(Holding(ws)) = Cardinality(Holding(vs)) - 1
BY ViewsCounted

\* One view moves, its client comes or goes with it, and others are left alone.
LEMMA OneMoves ==
  ASSUME ViewInv, NEW v \in Views, NEW x \in View, view' = [view EXCEPT ![v] = x],
         UNCHANGED <<kind, browser, generation>>,
         look' \in {"own", "plain", "mixed"}, mishaps' \in BOOLEAN,
         clients' \in {clients, clients \cup {v}, clients \ {v}},
         Follows(x, generation), Holds(x, v \in clients', kind = "external"), Counts'
  PROVE  ViewInv'
<1>1. ViewTypes'
  BY DEF ViewInv, ViewTypes
<1>2. ASSUME NEW u \in Views
      PROVE  /\ Follows(view'[u], generation')
             /\ Holds(view'[u], u \in clients', kind' = "external")
  <2>1. CASE u = v
    <3>1. view'[u] = x
      BY <2>1 DEF ViewInv, ViewTypes
    <3> QED BY <2>1, <3>1
  <2>2. CASE u # v
    <3>1. view'[u] = view[u] /\ (u \in clients' <=> u \in clients)
      BY <2>2 DEF ViewInv, ViewTypes
    <3>2. Follows(view[u], generation) /\ Holds(view[u], u \in clients, kind = "external")
      BY DEF ViewInv, ViewsSound
    <3> QED BY <3>1, <3>2 DEF Holds
  <2> QED BY <2>1, <2>2
<1>3. ViewsSound'
  BY <1>2 DEF ViewsSound
<1> QED BY <1>1, <1>3 DEF ViewInv

\* Where the counts are left alone, so is what is counted.
LEMMA CountsKept ==
  ASSUME ViewInv, NEW v \in Views, NEW x \in View, view' = [view EXCEPT ![v] = x],
         UNCHANGED <<active, options>>,
         (x.running /\ x.at # "over") <=> (view[v].running /\ view[v].at # "over"),
         (x.applied /\ x.at # "over") <=> (view[v].applied /\ view[v].at # "over")
  PROVE  Counts'
BY ViewsCounted DEF ViewInv, ViewTypes, Counts, options

\* The same for the stages at which a handler neither counts nor claims.
LEMMA StageMoves ==
  ASSUME ViewInv, NEW v \in Views, NEW x \in View, view' = [view EXCEPT ![v] = x],
         UNCHANGED <<kind, browser, generation, active, options>>,
         clients' \in {clients, clients \cup {v}, clients \ {v}},
         x.applied = view[v].applied, x.running = view[v].running, x.reread = view[v].reread,
         x.claim = view[v].claim, x.reread => x.at = view[v].at /\ x.gen = view[v].gen
                                              /\ x.respawned = view[v].respawned,
         x.at = "over" => ~x.running /\ ~x.applied,
         x.at # view[v].at => view[v].at # "over",
         Holds(x, v \in clients', kind = "external")
  PROVE  ViewInv'
<1>1. Counts'
  <2>1. (x.running /\ x.at # "over") <=> (view[v].running /\ view[v].at # "over")
    BY DEF ViewInv, ViewTypes, View
  <2>2. (x.applied /\ x.at # "over") <=> (view[v].applied /\ view[v].at # "over")
    BY DEF ViewInv, ViewTypes, View
  <2> QED BY <2>1, <2>2, CountsKept
<1>2. Follows(x, generation)
  BY DEF Follows, ViewInv, ViewsSound
<1>3. look' \in {"own", "plain", "mixed"} /\ mishaps' \in BOOLEAN
  BY DEF options, ViewInv, ViewTypes
<1> QED BY <1>1, <1>2, <1>3, OneMoves

\* What is known of one view.
LEMMA ViewOf ==
  ASSUME ViewInv, NEW v \in Views
  PROVE  /\ view[v] \in View /\ Follows(view[v], generation)
         /\ Holds(view[v], v \in clients, kind = "external")
         /\ generation \in 0..MaxRespawns + 1 /\ kind \in {"tether", "external"}
BY ClaimsAreBounded DEF ViewInv, ViewTypes, ViewsSound

\* The stages before the client and after it.
LEMMA StageSteps ==
  ASSUME ViewInv, NEW v \in Views,
         \/ Prepare(v) \/ SendTransport(v) \/ FirstResize(v) \/ StartControl(v)
         \/ AskClaim(v) \/ Disconnected(v) \/ CloseControl(v) \/ OutputEnds(v)
  PROVE  ViewInv'
<1> DEFINE w == view[v]
<1>0. w \in View /\ Follows(w, generation) /\ Holds(w, v \in clients, kind = "external")
      /\ generation \in 0..MaxRespawns + 1 /\ kind \in {"tether", "external"}
  BY ViewOf
<1>1. ASSUME NEW a \in Stages, Goes(v, a), w.at \notin {"claim", "reread", "over"},
             a \notin {"claim", "reread"},
             UNCHANGED <<kind, browser, generation, active, options>>,
             clients' \in {clients, clients \cup {v}, clients \ {v}},
             a = "over" => ~w.running /\ ~w.applied,
             Holds([w EXCEPT !.at = a], v \in clients', kind = "external")
      PROVE  ViewInv'
  <2> DEFINE x == [w EXCEPT !.at = a]
  <2>1. x \in View /\ x.at = a /\ x.applied = w.applied /\ x.running = w.running
        /\ x.reread = w.reread /\ x.claim = w.claim
    BY <1>0 DEF View
  <2>2. view' = [view EXCEPT ![v] = x]
    BY <1>1 DEF Goes
  <2>3. ~w.reread
    BY <1>0, <1>1 DEF Follows
  <2> HIDE DEF x
  <2> QED BY <1>1, <2>1, <2>2, <2>3, StageMoves DEF x
<1>2. CASE Prepare(v)
  <2>1. CASE Goes(v, "over")
    <3>1. Holds([w EXCEPT !.at = "over"], v \in clients', kind = "external")
      BY <1>0, <1>2 DEF Prepare, Holds, View
    <3> QED BY <1>0, <1>1, <1>2, <2>1, <3>1 DEF Prepare, Holds, Stages
  <2>2. CASE view' = [view EXCEPT ![v].at = IF kind = "external" THEN "options" ELSE "transport",
                                  ![v].gen = generation]
    <3> DEFINE a == IF kind = "external" THEN "options" ELSE "transport"
               x == [w EXCEPT !.at = a, !.gen = generation]
    <3>1. x \in View /\ x.at = a /\ x.applied = w.applied /\ x.running = w.running
          /\ x.reread = w.reread /\ x.claim = w.claim /\ x.output = w.output
      BY <1>0 DEF View, Stages
    <3>2. view' = [view EXCEPT ![v] = x]
      BY <2>2
    <3>3. w.at = "new" /\ ~w.reread /\ UNCHANGED <<kind, browser, clients, active, options, generation>>
      BY <1>0, <1>2 DEF Prepare, Follows
    <3> HIDE DEF x
    <3>4. Holds(x, v \in clients', kind = "external")
      BY <1>0, <3>1, <3>3 DEF Holds
    <3> QED BY <3>1, <3>2, <3>3, <3>4, StageMoves
  <2> QED BY <1>2, <2>1, <2>2 DEF Prepare
<1>3. CASE SendTransport(v)
  <2>1. ASSUME NEW a \in {"wait", "undo"}, Goes(v, a) PROVE ViewInv'
    <3>1. Holds([w EXCEPT !.at = a], v \in clients', kind = "external")
      BY <1>0, <1>3 DEF SendTransport, Holds, View
    <3> QED BY <1>0, <1>1, <1>3, <2>1, <3>1 DEF SendTransport, Stages
  <2> QED BY <1>3, <2>1 DEF SendTransport
<1>4. CASE FirstResize(v)
  <2>1. PICK p \in BOOLEAN : view' = [view EXCEPT ![v].at = "start", ![v].pending = p]
    BY <1>4 DEF FirstResize, FirstSize
  <2> DEFINE x == [w EXCEPT !.at = "start", !.pending = p]
  <2>2. x \in View /\ x.at = "start" /\ x.applied = w.applied /\ x.running = w.running
        /\ x.reread = w.reread /\ x.claim = w.claim /\ x.output = w.output
    BY <1>0 DEF View, Stages
  <2>3. view' = [view EXCEPT ![v] = x]
    BY <2>1
  <2>4. w.at = "wait" /\ ~w.reread /\ UNCHANGED <<kind, browser, clients, active, options, generation>>
    BY <1>0, <1>4 DEF FirstResize, Follows
  <2> HIDE DEF x
  <2>5. Holds(x, v \in clients', kind = "external")
    BY <1>0, <2>2, <2>4 DEF Holds
  <2> QED BY <2>2, <2>3, <2>4, <2>5, StageMoves
<1>5. CASE StartControl(v)
  <2>1. CASE Goes(v, "undo") /\ UNCHANGED clients
    <3>1. Holds([w EXCEPT !.at = "undo"], v \in clients', kind = "external")
      BY <1>0, <1>5, <2>1 DEF StartControl, Holds, View
    <3> QED BY <1>0, <1>1, <1>5, <2>1, <3>1 DEF StartControl, Stages
  <2>2. CASE /\ clients' = clients \cup {v}
             /\ view' = [view EXCEPT ![v].at = IF view[v].pending THEN "claim" ELSE "ready",
                                     ![v].pending = FALSE]
    <3> DEFINE a == IF w.pending THEN "claim" ELSE "ready"
               x == [w EXCEPT !.at = a, !.pending = FALSE]
    <3>1. x \in View /\ x.at = a /\ x.applied = w.applied /\ x.running = w.running
          /\ x.reread = w.reread /\ x.claim = w.claim /\ x.output = w.output
      BY <1>0 DEF View, Stages
    <3>2. view' = [view EXCEPT ![v] = x]
      BY <2>2
    <3>3. w.at = "start" /\ ~w.reread /\ UNCHANGED <<kind, browser, active, options, generation>>
      BY <1>0, <1>5 DEF StartControl, Follows
    <3> HIDE DEF x
    <3>4. Holds(x, v \in clients', kind = "external")
      BY <1>0, <3>1, <3>3 DEF Holds
    <3> QED BY <2>2, <3>1, <3>2, <3>3, <3>4, StageMoves
  <2> QED BY <1>5, <2>1, <2>2 DEF StartControl
<1>6. CASE AskClaim(v)
  <2> DEFINE x == [w EXCEPT !.at = "claim"]
  <2>1. x \in View /\ x.at = "claim" /\ x.applied = w.applied /\ x.running = w.running
        /\ x.reread = w.reread /\ x.claim = w.claim /\ x.output = w.output
    BY <1>0 DEF View, Stages
  <2>2. view' = [view EXCEPT ![v] = x] /\ w.at = "stream" /\ ~w.reread
        /\ UNCHANGED <<kind, browser, clients, active, options, generation>>
    BY <1>0, <1>6 DEF AskClaim, Follows
  <2> HIDE DEF x
  <2>3. Holds(x, v \in clients', kind = "external")
    BY <1>0, <2>1, <2>2 DEF Holds
  <2> QED BY <2>1, <2>2, <2>3, StageMoves
<1>7. CASE Disconnected(v)
  <2> DEFINE x == [w EXCEPT !.at = "close", !.output = FALSE]
  <2>1. x \in View /\ x.at = "close" /\ x.applied = w.applied /\ x.running = w.running
        /\ x.reread = w.reread /\ x.claim = w.claim /\ x.output = FALSE
    BY <1>0 DEF View, Stages
  <2>2. view' = [view EXCEPT ![v] = x] /\ w.at = "stream" /\ ~w.reread
        /\ UNCHANGED <<kind, browser, clients, active, options, generation>>
    BY <1>0, <1>7 DEF Disconnected, Follows
  <2> HIDE DEF x
  <2>3. Holds(x, v \in clients', kind = "external")
    BY <1>0, <2>1, <2>2 DEF Holds
  <2> QED BY <2>1, <2>2, <2>3, StageMoves
<1>8. CASE CloseControl(v)
  <2>1. clients' = clients \ {v} /\ w.at = "close" /\ Goes(v, "teardown")
        /\ UNCHANGED <<kind, browser, active, options, generation>>
    BY <1>8 DEF CloseControl, ClosedControl
  <2>2. Holds([w EXCEPT !.at = "teardown"], v \in clients', kind = "external")
    BY <1>0, <2>1 DEF Holds, View
  <2> QED BY <1>1, <2>1, <2>2 DEF Stages
<1>9. CASE OutputEnds(v)
  <2> DEFINE x == [w EXCEPT !.output = FALSE]
  <2>1. x \in View /\ x.at = w.at /\ x.applied = w.applied /\ x.running = w.running
        /\ x.reread = w.reread /\ x.claim = w.claim /\ x.output = FALSE /\ x.gen = w.gen
        /\ x.respawned = w.respawned
    BY <1>0 DEF View
  <2>2. view' = [view EXCEPT ![v] = x] /\ w.output
        /\ UNCHANGED <<kind, browser, clients, active, options, generation>>
    BY <1>9 DEF OutputEnds
  <2> HIDE DEF x
  <2>3. Holds(x, v \in clients', kind = "external") /\ w.at # "over"
    BY <1>0, <2>1, <2>2 DEF Holds
  <2> QED BY <2>1, <2>2, <2>3, StageMoves
<1> QED BY <1>2, <1>3, <1>4, <1>5, <1>6, <1>7, <1>8, <1>9

\* restore_external_attach_options takes one off the count if there is one, and the
\* last one restores the options or fails to.
LEMMA Restored ==
  ASSUME Restore, refs \in Nat, look \in {"own", "plain", "mixed"}, mishaps \in BOOLEAN,
         refs = 0 => look = "own" \/ mishaps
  PROVE  /\ refs' \in Nat
         /\ refs = 0 => refs' = 0
         /\ refs # 0 => refs' = refs - 1
         /\ look' \in {"own", "plain", "mixed"} /\ mishaps' \in BOOLEAN
         /\ refs' = 0 => look' = "own" \/ mishaps'
<1>1. CASE refs = 0
  BY <1>1 DEF Restore, options
<1>2. CASE refs > 1
  BY <1>2 DEF Restore
<1>3. CASE refs = 1
  <2>1. refs' = 0 /\ refs - 1 = 0
    BY <1>3 DEF Restore
  <2>2. \/ look' = "own" /\ mishaps' = mishaps
        \/ look' \in {"plain", "mixed"} /\ mishaps' = TRUE
    BY <1>3 DEF Restore
  <2> QED BY <1>3, <2>1, <2>2
<1> QED BY <1>1, <1>2, <1>3

\* The steps that count and take hold of the options.
LEMMA CountingSteps ==
  ASSUME ViewInv, NEW v \in Views,
         ApplyOptions(v) \/ Undo(v) \/ StartTasks(v) \/ Teardown(v)
  PROVE  ViewInv'
<1> DEFINE w == view[v]
           W == Cardinality(Working(view))
           H == Cardinality(Holding(view))
<1>0. w \in View /\ Follows(w, generation) /\ Holds(w, v \in clients, kind = "external")
      /\ generation \in 0..MaxRespawns + 1 /\ kind \in {"tether", "external"}
  BY ViewOf
<1>00. /\ active = W /\ refs \in Nat /\ refs <= H
       /\ refs = 0 => look = "own" \/ mishaps
       /\ look \in {"own", "plain", "mixed"} /\ mishaps \in BOOLEAN
  BY DEF ViewInv, ViewTypes, Counts
<1>01. view \in [Views -> View]
  BY DEF ViewInv, ViewTypes
<1>02. W \in Nat /\ H \in Nat
  <2>1. W \in 0..Cardinality(Views) /\ H \in 0..Cardinality(Views)
    BY <1>0, <1>01, ViewsCounted
  <2>2. Cardinality(Views) \in Nat
    BY ViewsAreFinite, FS_CardinalityType
  <2> QED BY <2>1, <2>2
<1>1. CASE ApplyOptions(v)
  <2>1. PICK applied \in BOOLEAN :
          /\ Apply(applied)
          /\ view' = [view EXCEPT ![v].at = "transport", ![v].applied = applied]
    BY <1>1 DEF ApplyOptions
  <2> DEFINE x == [w EXCEPT !.at = "transport", !.applied = applied]
  <2>2. x \in View /\ x.at = "transport" /\ x.applied = applied /\ x.running = w.running
        /\ x.reread = w.reread /\ x.claim = w.claim /\ x.output = w.output
    BY <1>0 DEF View, Stages
  <2>3. view' = [view EXCEPT ![v] = x]
    BY <2>1
  <2>4. w.at = "options" /\ ~w.reread /\ ~w.applied /\ ~w.running /\ kind = "external"
        /\ UNCHANGED <<kind, browser, clients, active, generation>>
    BY <1>0, <1>1 DEF ApplyOptions, Follows, Holds
  <2> HIDE DEF x
  <2>5. /\ refs' \in Nat /\ (refs' = refs \/ (applied /\ refs' = refs + 1))
        /\ look' \in {"own", "plain", "mixed"} /\ mishaps' \in BOOLEAN
        /\ refs' = 0 => look' = "own" \/ mishaps'
    <3>1. CASE refs > 0
      BY <1>00, <2>1, <3>1 DEF Apply
    <3>2. CASE refs = 0
      <4>1. \/ applied /\ refs' = 1 /\ look' = "plain" /\ mishaps' = mishaps
            \/ refs' = refs /\ look' = look /\ mishaps' = mishaps
            \/ refs' = refs /\ look' = "mixed" /\ mishaps' = TRUE
        BY <2>1, <3>2 DEF Apply, options
      <4>2. refs' \in Nat /\ (refs' = refs \/ (applied /\ refs' = refs + 1))
        BY <3>2, <4>1
      <4>3. look' \in {"own", "plain", "mixed"} /\ mishaps' \in BOOLEAN
        BY <1>00, <4>1
      <4>4. refs' = 0 => look' = "own" \/ mishaps'
        <5>1. refs' = 1 => refs' # 0
          OBVIOUS
        <5> QED BY <1>00, <3>2, <4>1, <5>1, Zenon
      <4> QED BY <4>2, <4>3, <4>4
    <3> QED BY <1>00, <3>1, <3>2
  <2>6. /\ Cardinality(Working(view')) = W
        /\ applied => Cardinality(Holding(view')) = H + 1
        /\ ~applied => Cardinality(Holding(view')) = H
    <3>1. (x.running /\ x.at # "over") <=> (w.running /\ w.at # "over")
      BY <2>2, <2>4
    <3>2. applied => x.applied /\ x.at # "over" /\ ~(w.applied /\ w.at # "over")
      BY <2>2, <2>4
    <3>3. ~applied => ((x.applied /\ x.at # "over") <=> (w.applied /\ w.at # "over"))
      BY <2>2, <2>4
    <3>4. Cardinality(Working(view')) = W
      BY <1>01, <2>2, <2>3, <3>1, ViewsCounted
    <3>5. applied => Cardinality(Holding(view')) = H + 1
      BY <1>01, <2>2, <2>3, <3>2, ViewsCounted
    <3>6. ~applied => Cardinality(Holding(view')) = H
      BY <1>01, <2>2, <2>3, <3>3, ViewsCounted
    <3> QED BY <3>4, <3>5, <3>6
  <2>7. Counts'
    BY <1>00, <1>02, <2>4, <2>5, <2>6 DEF Counts
  <2>8. Holds(x, v \in clients', kind = "external")
    BY <1>0, <2>2, <2>4 DEF Holds
  <2>9. Follows(x, generation)
    BY <1>0, <2>2, <2>4 DEF Follows
  <2> QED BY <2>2, <2>3, <2>4, <2>5, <2>7, <2>8, <2>9, OneMoves
<1>2. CASE Undo(v)
  <2> DEFINE x == [w EXCEPT !.at = "over"]
  <2>1. x \in View /\ x.at = "over" /\ x.applied = w.applied /\ x.running = w.running
        /\ x.reread = w.reread /\ x.claim = w.claim /\ x.output = w.output
    BY <1>0 DEF View, Stages
  <2>2. view' = [view EXCEPT ![v] = x]
    BY <1>2 DEF Undo, Goes
  <2>3. w.at = "undo" /\ ~w.reread /\ ~w.running
        /\ UNCHANGED <<kind, browser, clients, active, generation>>
    BY <1>0, <1>2 DEF Undo, Follows, Holds
  <2>4. IF w.applied THEN Restore ELSE UNCHANGED options
    BY <1>2 DEF Undo
  <2> HIDE DEF x
  <2>5. /\ refs' \in Nat
        /\ ~w.applied => refs' = refs
        /\ w.applied => (refs = 0 => refs' = 0) /\ (refs # 0 => refs' = refs - 1)
        /\ look' \in {"own", "plain", "mixed"} /\ mishaps' \in BOOLEAN
        /\ refs' = 0 => look' = "own" \/ mishaps'
    BY <1>00, <2>4, Restored DEF options
  <2>6. /\ Cardinality(Working(view')) = W
        /\ w.applied => Cardinality(Holding(view')) = H - 1
        /\ ~w.applied => Cardinality(Holding(view')) = H
    <3>1. (x.running /\ x.at # "over") <=> (w.running /\ w.at # "over")
      BY <2>1, <2>3
    <3>2. w.applied => x.at = "over" /\ w.applied /\ w.at # "over"
      BY <2>1, <2>3
    <3>4. Cardinality(Working(view')) = W
      BY <1>01, <2>1, <2>2, <3>1, ViewsCounted
    <3>5. w.applied => Cardinality(Holding(view')) = H - 1
      BY <1>01, <2>1, <2>2, <3>2, ViewsCounted
    <3>6. ~w.applied => Cardinality(Holding(view')) = H
      <4>1. ~w.applied => Holding(view') = Holding(view)
        BY <1>01, <2>1, <2>2 DEF Holding
      <4> QED BY <4>1
    <3> QED BY <3>4, <3>5, <3>6
  <2>7. Cardinality(Holding(view')) \in Nat
    <3>1. view' \in [Views -> View] /\ Cardinality(Holding(view')) \in 0..Cardinality(Views)
      <4>1. view' \in [Views -> View]
        BY <1>01, <2>1, <2>2
      <4> QED BY <2>1, <4>1, ViewsCounted
    <3>2. Cardinality(Views) \in Nat
      BY ViewsAreFinite, FS_CardinalityType
    <3> QED BY <3>1, <3>2
  <2>8. refs' <= Cardinality(Holding(view'))
    BY <1>00, <1>02, <2>5, <2>6, <2>7
  <2>9. Counts'
    BY <1>00, <2>3, <2>5, <2>6, <2>8 DEF Counts
  <2>10. Follows(x, generation) /\ Holds(x, v \in clients', kind = "external")
    BY <1>0, <2>1, <2>3 DEF Follows, Holds
  <2> QED BY <2>1, <2>2, <2>3, <2>5, <2>9, <2>10, OneMoves
<1>3. CASE StartTasks(v)
  <2> DEFINE x == [w EXCEPT !.at = "stream", !.running = TRUE, !.output = TRUE]
  <2>1. x \in View /\ x.at = "stream" /\ x.applied = w.applied /\ x.running = TRUE
        /\ x.reread = w.reread /\ x.claim = w.claim /\ x.output = TRUE
    BY <1>0 DEF View, Stages
  <2>2. view' = [view EXCEPT ![v] = x] /\ active' = active + 1
    BY <1>3 DEF StartTasks
  <2>3. w.at = "ready" /\ ~w.reread /\ ~w.running
        /\ UNCHANGED <<kind, browser, clients, options, generation>>
    BY <1>0, <1>3 DEF StartTasks, Follows, Holds
  <2> HIDE DEF x
  <2>4. /\ Cardinality(Working(view')) = W + 1
        /\ Cardinality(Holding(view')) = H
    <3>1. x.running /\ x.at # "over" /\ ~w.running
      BY <2>1, <2>3
    <3>2. Cardinality(Working(view')) = W + 1
      <4>1. Working(view') = Working(view) \cup {v} /\ v \notin Working(view)
        BY <1>01, <2>1, <2>2, <3>1 DEF Working
      <4>2. IsFiniteSet(Working(view))
        BY ViewsAreFinite, FS_Subset DEF Working
      <4> QED BY <4>1, <4>2, FS_AddElement
    <3>3. Cardinality(Holding(view')) = H
      <4>1. Holding(view') = Holding(view)
        BY <1>01, <2>1, <2>2, <2>3 DEF Holding
      <4> QED BY <4>1
    <3> QED BY <3>2, <3>3
  <2>5. Counts'
    BY <1>00, <2>2, <2>3, <2>4 DEF Counts, options
  <2>6. Follows(x, generation) /\ Holds(x, v \in clients', kind = "external")
    BY <1>0, <2>1, <2>3 DEF Follows, Holds
  <2> QED BY <1>00, <2>1, <2>2, <2>3, <2>5, <2>6, OneMoves DEF options
<1>4. CASE Teardown(v)
  <2> DEFINE x == [w EXCEPT !.at = "over"]
  <2>1. x \in View /\ x.at = "over" /\ x.applied = w.applied /\ x.running = w.running
        /\ x.reread = w.reread /\ x.claim = w.claim /\ x.output = w.output
    BY <1>0 DEF View, Stages
  <2>2. view' = [view EXCEPT ![v] = x] /\ active' = active - 1
    BY <1>4 DEF Teardown, Goes
  <2>3. w.at = "teardown" /\ ~w.reread /\ w.running
        /\ UNCHANGED <<kind, browser, clients, generation>>
    BY <1>0, <1>4 DEF Teardown, Follows, Holds
  <2>4. IF kind = "external" THEN Restore ELSE UNCHANGED options
    BY <1>4 DEF Teardown
  <2> HIDE DEF x
  <2>5. /\ refs' \in Nat
        /\ kind # "external" => refs' = refs
        /\ kind = "external" => (refs = 0 => refs' = 0) /\ (refs # 0 => refs' = refs - 1)
        /\ look' \in {"own", "plain", "mixed"} /\ mishaps' \in BOOLEAN
        /\ refs' = 0 => look' = "own" \/ mishaps'
    BY <1>00, <2>4, Restored DEF options
  <2>6. /\ Cardinality(Working(view')) = W - 1
        /\ w.applied => Cardinality(Holding(view')) = H - 1
        /\ ~w.applied => Cardinality(Holding(view')) = H
    <3>1. x.at = "over" /\ w.running /\ w.at # "over"
      BY <2>1, <2>3
    <3>3. /\ w.running => Cardinality(Working(view')) = W - 1
          /\ w.applied => Cardinality(Holding(view')) = H - 1
      BY <1>01, <2>1, <2>2, <3>1, ViewEnds
    <3>4. Cardinality(Working(view')) = W - 1
      BY <2>3, <3>3
    <3>5. w.applied => Cardinality(Holding(view')) = H - 1
      BY <3>3
    <3>6. ~w.applied => Cardinality(Holding(view')) = H
      <4>1. ~w.applied => Holding(view') = Holding(view)
        BY <1>01, <2>1, <2>2 DEF Holding
      <4> QED BY <4>1
    <3> QED BY <3>4, <3>5, <3>6
  <2>7. Cardinality(Holding(view')) \in Nat
    <3>1. Cardinality(Holding(view')) \in 0..Cardinality(Views)
      <4>1. view' \in [Views -> View]
        BY <1>01, <2>1, <2>2
      <4> QED BY <2>1, <4>1, ViewsCounted
    <3>2. Cardinality(Views) \in Nat
      BY ViewsAreFinite, FS_CardinalityType
    <3> QED BY <3>1, <3>2
  <2>8. w.applied => kind = "external"
    BY <1>0 DEF Holds
  <2>9. refs' <= Cardinality(Holding(view'))
    BY <1>00, <1>02, <2>5, <2>6, <2>7, <2>8
  <2>10. Counts'
    BY <1>00, <2>2, <2>5, <2>6, <2>9 DEF Counts
  <2>11. Follows(x, generation) /\ Holds(x, v \in clients', kind = "external")
    BY <1>0, <2>1, <2>3 DEF Follows, Holds
  <2> QED BY <2>1, <2>2, <2>3, <2>5, <2>10, <2>11, OneMoves
<1> QED BY <1>1, <1>2, <1>3, <1>4

\* What follows a claim.
LEMMA ClaimEnds ==
  ASSUME ViewInv, NEW v \in Views, view[v].at \in {"claim", "reread"},
         NEW c \in {"applied", "refused", "overtaken"},
         view' = [view EXCEPT ![v] = Claimed(view[v], c)],
         UNCHANGED <<kind, browser, clients, active, options, generation>>
  PROVE  ViewInv'
<1> DEFINE w == view[v]
           a == IF w.running THEN "stream" ELSE "ready"
           x == Claimed(w, c)
<1>0. w \in View /\ Follows(w, generation) /\ Holds(w, v \in clients, kind = "external")
  BY ViewOf
<1>1. a \in {"stream", "ready"} /\ a \in Stages /\ 0 \in 0..ClaimAttempts
  BY ClaimsAreBounded DEF Stages
<1>2. x = [w EXCEPT !.at = a, !.claim = c, !.attempt = 0, !.reread = FALSE, !.respawned = FALSE]
  BY DEF Claimed
<1>3. (w.running <=> a = "stream") /\ (w.output => w.running)
  BY <1>0 DEF Holds
<1> HIDE DEF a
<1>4. x \in View /\ x.at = a /\ x.claim = c /\ x.reread = FALSE /\ x.running = w.running
      /\ x.applied = w.applied /\ x.output = w.output
  BY <1>0, <1>1, <1>2 DEF View
<1> HIDE DEF x
<1>5. Counts'
  <2>1. (x.running /\ x.at # "over") <=> (w.running /\ w.at # "over")
    BY <1>1, <1>4
  <2>2. (x.applied /\ x.at # "over") <=> (w.applied /\ w.at # "over")
    BY <1>1, <1>4
  <2> QED BY <1>4, <2>1, <2>2, CountsKept DEF x
<1>6. Follows(x, generation) /\ Holds(x, v \in clients', kind = "external")
  BY <1>0, <1>1, <1>3, <1>4 DEF Follows, Holds
<1>7. look' \in {"own", "plain", "mixed"} /\ mishaps' \in BOOLEAN
  BY DEF options, ViewInv, ViewTypes
<1> QED BY <1>4, <1>5, <1>6, <1>7, OneMoves DEF x

\* The claim, and what it does when the session was respawned.  A claim that finds
\* another generation after it read it again knows of the respawn in between.
LEMMA ClaimSteps ==
  ASSUME ViewInv, NEW v \in Views, TryClaim(v) \/ RereadGeneration(v)
  PROVE  ViewInv'
<1> DEFINE w == view[v]
<1>0. w \in View /\ Follows(w, generation) /\ Holds(w, v \in clients, kind = "external")
      /\ generation \in 0..MaxRespawns + 1
  BY ViewOf
<1>1. UNCHANGED <<kind, browser, clients, active, options, generation>>
      /\ w.at \in {"claim", "reread"}
  BY DEF TryClaim, RereadGeneration
<1>2. ASSUME NEW x \in View, view' = [view EXCEPT ![v] = x], x.at \in {"claim", "reread"},
             x.applied = w.applied, x.running = w.running, x.output = w.output,
             Follows(x, generation)
      PROVE  ViewInv'
  <2>1. Counts'
    <3>1. (x.running /\ x.at # "over") <=> (w.running /\ w.at # "over")
      BY <1>1, <1>2
    <3>2. (x.applied /\ x.at # "over") <=> (w.applied /\ w.at # "over")
      BY <1>1, <1>2
    <3> QED BY <1>1, <1>2, <3>1, <3>2, CountsKept
  <2>2. Holds(x, v \in clients', kind = "external")
    BY <1>0, <1>1, <1>2 DEF Holds
  <2>3. look' \in {"own", "plain", "mixed"} /\ mishaps' \in BOOLEAN
    BY <1>1 DEF options, ViewInv, ViewTypes
  <2> QED BY <1>1, <1>2, <2>1, <2>2, <2>3, OneMoves
<1>3. CASE TryClaim(v)
  <2> DEFINE n == [w EXCEPT !.attempt = @ + 1]
             m == [n EXCEPT !.at = "reread", !.reread = TRUE]
  <2>1. \/ \E c \in {"applied", "refused", "overtaken"} :
             view' = [view EXCEPT ![v] = Claimed(w, c)]
        \/ /\ w.attempt # ClaimAttempts /\ w.gen = generation
           /\ view' = [view EXCEPT ![v] = n]
        \/ /\ w.attempt # ClaimAttempts /\ w.gen # generation
           /\ view' = [view EXCEPT ![v] = m]
    <3>1. w.at = "claim"
      BY <1>3 DEF TryClaim
    <3>2. w.gen # generation /\ w.reread => w.respawned
      BY <1>0, <3>1 DEF Follows
    <3> QED BY <1>3, <3>2 DEF TryClaim
  <2>2. w.attempt # ClaimAttempts => w.attempt + 1 \in 0..ClaimAttempts
    BY <1>0, ClaimsAreBounded DEF View
  <2>3. w.attempt # ClaimAttempts =>
          /\ n \in View /\ n.at = w.at /\ n.applied = w.applied /\ n.running = w.running
          /\ n.output = w.output /\ n.gen = w.gen /\ n.claim = w.claim
    BY <1>0, <2>2 DEF View
  <2> HIDE DEF n
  <2>4. CASE w.attempt # ClaimAttempts /\ w.gen = generation /\ view' = [view EXCEPT ![v] = n]
    <3>1. w.at = "claim"
      BY <1>3 DEF TryClaim
    <3>2. Follows(n, generation)
      BY <1>0, <2>3, <2>4, <3>1 DEF Follows
    <3> QED BY <1>2, <2>3, <2>4, <3>1, <3>2
  <2>5. CASE w.attempt # ClaimAttempts /\ view' = [view EXCEPT ![v] = m]
    <3>1. m \in View /\ m.at = "reread" /\ m.applied = n.applied /\ m.running = n.running
          /\ m.output = n.output /\ m.claim = n.claim
      BY <2>3, <2>5 DEF View, Stages
    <3> HIDE DEF m
    <3>2. Follows(m, generation)
      BY <1>0, <2>3, <2>5, <3>1 DEF Follows
    <3> QED BY <1>2, <2>3, <2>5, <3>1, <3>2 DEF m
  <2> QED BY <1>1, <2>1, <2>4, <2>5, ClaimEnds
<1>4. CASE RereadGeneration(v)
  <2> DEFINE x == Reread(w)
  <2>1. CASE view' = [view EXCEPT ![v] = Reread(@)]
    <3>1. x \in View /\ x.at = "claim" /\ x.applied = w.applied /\ x.running = w.running
          /\ x.output = w.output /\ x.gen = generation /\ x.claim = w.claim
      BY <1>0 DEF Reread, View, Stages
    <3> HIDE DEF x
    <3>2. Follows(x, generation)
      BY <1>0, <3>1 DEF Follows
    <3>3. view' = [view EXCEPT ![v] = x]
      BY <2>1 DEF x
    <3> QED BY <1>2, <3>1, <3>2, <3>3
  <2>2. CASE view' = [view EXCEPT ![v] = Claimed(@, "refused")]
    BY <1>1, <2>2, ClaimEnds
  <2> QED BY <1>4, <2>1, <2>2 DEF RereadGeneration
<1> QED BY <1>3, <1>4

\* A respawn makes every claim under way know of it.
LEMMA RespawnStep == ViewInv /\ Respawn => ViewInv'
<1> SUFFICES ASSUME ViewInv, Respawn PROVE ViewInv'
  OBVIOUS
<1>1. /\ generation <= MaxRespawns /\ generation' = generation + 1
      /\ view' = [v \in Views |-> [view[v] EXCEPT !.respawned = @ \/ view[v].at = "claim"]]
      /\ UNCHANGED <<kind, browser, clients, active, options>>
  BY DEF Respawn
<1>2. ASSUME NEW v \in Views
      PROVE  /\ view'[v] \in View
             /\ Follows(view'[v], generation') /\ Holds(view'[v], v \in clients', kind' = "external")
             /\ view'[v].running = view[v].running /\ view'[v].applied = view[v].applied
             /\ view'[v].at = view[v].at
  <2> DEFINE w == view[v]
             r == w.respawned \/ w.at = "claim"
             x == [w EXCEPT !.respawned = r]
  <2>1. w \in View /\ Follows(w, generation) /\ Holds(w, v \in clients, kind = "external")
    BY ViewOf
  <2>2. view'[v] = x /\ r \in BOOLEAN /\ (w.at = "claim" => r = TRUE)
    BY <1>1, <2>1 DEF View
  <2> HIDE DEF r
  <2>3. x \in View /\ x.at = w.at /\ x.applied = w.applied /\ x.running = w.running
        /\ x.output = w.output /\ x.claim = w.claim /\ x.reread = w.reread /\ x.respawned = r
    BY <2>1, <2>2 DEF View
  <2> HIDE DEF x
  <2>4. Follows(x, generation')
    BY <2>1, <2>2, <2>3 DEF Follows
  <2>5. Holds(x, v \in clients', kind' = "external")
    BY <1>1, <2>1, <2>3 DEF Holds
  <2> QED BY <2>2, <2>3, <2>4, <2>5
<1>3. view' \in [Views -> View]
  <2>1. view' = [v \in Views |-> view'[v]]
    BY <1>1
  <2> QED BY <1>2, <2>1
<1>4. generation' \in 1..MaxRespawns + 1
  BY <1>1, ClaimsAreBounded DEF ViewInv, ViewTypes
<1>5. ViewTypes'
  BY <1>1, <1>3, <1>4 DEF ViewInv, ViewTypes, options
<1>6. Working(view') = Working(view) /\ Holding(view') = Holding(view)
  BY <1>2 DEF Working, Holding
<1>7. Counts'
  BY <1>1, <1>6 DEF ViewInv, Counts, options
<1>8. ViewsSound'
  BY <1>2 DEF ViewsSound
<1> QED BY <1>5, <1>7, <1>8 DEF ViewInv

\* No step of a handler, of a browser, of tmux or of others breaks the invariant.
LEMMA ViewStep == ViewInv /\ [Next]_vars => ViewInv'
<1> SUFFICES ASSUME ViewInv, [Next]_vars PROVE ViewInv'
  OBVIOUS
<1>1. CASE UNCHANGED vars
  <2>1. UNCHANGED <<kind, view, browser, clients, active, refs, look, mishaps, generation>>
    BY <1>1 DEF vars
  <2>2. ViewTypes'
    BY <2>1 DEF ViewInv, ViewTypes
  <2>3. Counts'
    BY <2>1 DEF ViewInv, Counts
  <2>4. ViewsSound'
    BY <2>1 DEF ViewInv, ViewsSound
  <2> QED BY <2>2, <2>3, <2>4 DEF ViewInv
<1>2. ASSUME NEW v \in Views, BrowserGoes(v) PROVE ViewInv'
  <2>1. UNCHANGED <<kind, view, clients, active, refs, look, mishaps, generation>>
        /\ browser' = browser \ {v}
    BY <1>2 DEF BrowserGoes, options
  <2>2. ViewTypes'
    BY <2>1 DEF ViewInv, ViewTypes
  <2>3. Counts'
    BY <2>1 DEF ViewInv, Counts
  <2>4. ViewsSound'
    BY <2>1 DEF ViewInv, ViewsSound
  <2> QED BY <2>2, <2>3, <2>4 DEF ViewInv
<1> QED
  BY <1>1, <1>2, StageSteps, CountingSteps, ClaimSteps, RespawnStep DEF Next, Handler

\* A handler begins with nothing.
LEMMA ViewInit == Init => ViewInv
<1> SUFFICES ASSUME Init PROVE ViewInv
  OBVIOUS
<1>1. Start \in View /\ Start.at = "new" /\ Start.applied = FALSE /\ Start.running = FALSE
      /\ Start.output = FALSE /\ Start.reread = FALSE /\ Start.claim = "none"
  BY ClaimsAreBounded DEF Start, View, Stages
<1>2. \A v \in Views : view[v] = Start
  BY DEF Init
<1>3. Working(view) = {} /\ Holding(view) = {}
  BY <1>1, <1>2 DEF Working, Holding
<1>4. Counts
  BY <1>3, FS_EmptySet DEF Init, Counts
<1>5. ViewsSound
  BY <1>1, <1>2 DEF Init, ViewsSound, Follows, Holds
<1>6. generation \in 1..MaxRespawns + 1
  BY ClaimsAreBounded DEF Init
<1>7. ViewTypes
  BY <1>1, <1>6 DEF Init, ViewTypes
<1> QED BY <1>4, <1>5, <1>7 DEF ViewInv

\* A step of the server is one of the views or leaves them.
LEMMA ViewLift ==
  /\ ServerInit => Init
  /\ [ServerNext]_ServerVars => [Next]_vars
<1>1. ServerInit => Init
  BY DEF ServerInit
<1>2. [ServerNext]_ServerVars => [Next]_vars
  BY DEF ServerNext, ServerVars, vars
<1> QED BY <1>1, <1>2

\* However the session is respawned and whoever else claims, a claim that read the
\* generation again does not end as stale unless it was respawned again meanwhile.
THEOREM RespawnIsFollowed == ServerSpec => []OneRespawnIsFollowed
<1>1. ViewInv => OneRespawnIsFollowed
  BY DEF ViewInv, ViewsSound, Follows, OneRespawnIsFollowed
<1> QED BY <1>1, ViewInit, ViewStep, ViewLift, PTL DEF ServerSpec

\* A view that is over, at whatever stage it ended, left neither client nor output
\* task; when all are over no connection is counted, nothing refers to the attach
\* options, and the user's session looks as before, unless a command failed.
THEOREM NothingIsLeft == ServerSpec => []EndedViewsLeaveNothing
<1>1. ViewInv => EndedViewsLeaveNothing
  <2> SUFFICES ASSUME ViewInv, NEW v \in Views, view[v].at = "over"
               PROVE  /\ v \notin clients /\ ~view[v].output
                      /\ (\A u \in Views : view[u].at = "over")
                           => active = 0 /\ refs = 0 /\ (look = "own" \/ mishaps)
    BY DEF EndedViewsLeaveNothing
  <2>1. v \notin clients /\ ~view[v].output
    BY DEF ViewInv, ViewsSound, Holds
  <2>2. ASSUME \A u \in Views : view[u].at = "over"
        PROVE  active = 0 /\ refs = 0 /\ (look = "own" \/ mishaps)
    <3>1. Working(view) = {} /\ Holding(view) = {}
      BY <2>2 DEF Working, Holding
    <3>2. active = 0 /\ refs = 0
      BY <3>1, FS_EmptySet DEF ViewInv, Counts
    <3> QED BY <3>2 DEF ViewInv, Counts
  <2> QED BY <2>1, <2>2
<1> QED BY <1>1, ViewInit, ViewStep, ViewLift, PTL DEF ServerSpec

-------------------------------------------------------------------------------
(***************************************************************************)
(* Maintenance: cycles take turns, and settings outlive an outage.         *)
(***************************************************************************)

\* Maintenance counts with the Cardinality of its own instance of FiniteSets: the same
\* operator.
LEMMA CardinalityOfRuns == ASSUME NEW S PROVE MA!Cardinality(S) = Cardinality(S)
  BY DEF MA!Cardinality, Cardinality

\* Until the loop is cancelled, a thread at work holds the lock, and the status says
\* so.
CycleInv ==
  /\ cycle \in [MA!Runs -> [at : MA!Stages, read : SUBSET Projects,
                            reason : {"startup", "interval", "manual"}]]
  /\ catalog \subseteq Projects
  /\ status \in [state : {"idle", "running"}, error : BOOLEAN, runs : Nat]
  /\ stopped \in BOOLEAN
  /\ ~stopped => /\ \A n \in MA!Runs : MA!UnderWay(n) => lock = n
                 /\ status.state = "running" <=> lock # 0

\* Nothing runs at first.
LEMMA CycleInit == MA!Init => CycleInv
<1> SUFFICES ASSUME MA!Init PROVE CycleInv
  OBVIOUS
<1>1. cycle \in [MA!Runs -> [at : MA!Stages, read : SUBSET Projects,
                            reason : {"startup", "interval", "manual"}]]
      /\ \A n \in MA!Runs : ~MA!UnderWay(n)
  BY DEF MA!Init, MA!UnderWay, MA!Stages
<1>2. status \in [state : {"idle", "running"}, error : BOOLEAN, runs : Nat]
      /\ status.state = "idle" /\ lock = 0
  BY DEF MA!Init
<1> QED BY <1>1, <1>2 DEF MA!Init, CycleInv

\* A thread that moves on is at work still, or it is over and holds the lock until it
\* is finished.
LEMMA ThreadMoves ==
  ASSUME CycleInv, NEW n \in MA!Runs, MA!UnderWay(n), NEW a \in MA!Stages \ {"none"},
         NEW read \in SUBSET Projects, UNCHANGED <<lock, status, stopped>>,
         catalog' \subseteq Projects,
         \/ cycle' = [cycle EXCEPT ![n].at = a]
         \/ cycle' = [cycle EXCEPT ![n].at = a, ![n].read = read]
  PROVE  CycleInv'
<1>1. cycle' \in [MA!Runs -> [at : MA!Stages, read : SUBSET Projects,
                              reason : {"startup", "interval", "manual"}]]
  BY DEF CycleInv
<1>2. \A m \in MA!Runs \ {n} : cycle'[m] = cycle[m]
  BY DEF CycleInv
<1>3. \A m \in MA!Runs : MA!UnderWay(m)' => MA!UnderWay(m)
  BY <1>2 DEF MA!UnderWay
<1> QED BY <1>1, <1>3 DEF CycleInv

\* A run that finds the lock is skipped; one that takes it is the only one at work.
LEMMA RunStep ==
  ASSUME CycleInv, NEW reason \in {"startup", "interval", "manual"}, MA!RunCycle(reason)
  PROVE  CycleInv'
<1> DEFINE run == status.runs + 1
<1>1. UNCHANGED <<catalog, stopped>>
  BY DEF MA!RunCycle, MA!world
<1>2. CASE lock # 0
  BY <1>1, <1>2 DEF MA!RunCycle, MA!Locked, CycleInv, MA!UnderWay
<1>3. CASE lock = 0
  <2>1. /\ lock' = run /\ run <= MaxRuns
        /\ status' = [state |-> "running", error |-> FALSE, runs |-> run]
        /\ cycle' = [cycle EXCEPT ![run] = [at |-> "links", read |-> {}, reason |-> reason]]
    BY <1>3 DEF MA!RunCycle, MA!Locked
  <2>2. run \in Nat /\ run # 0 /\ run >= 1
    BY DEF CycleInv
  <2> HIDE DEF run
  <2>3. cycle' \in [MA!Runs -> [at : MA!Stages, read : SUBSET Projects,
                                reason : {"startup", "interval", "manual"}]]
    BY <2>1 DEF CycleInv, MA!Stages
  <2>4. ~stopped => \A n \in MA!Runs : MA!UnderWay(n)' => n = run
    <3>1. ~stopped => \A n \in MA!Runs : ~MA!UnderWay(n)
      BY <1>3 DEF CycleInv, MA!Runs
    <3>2. \A n \in MA!Runs : n # run => cycle'[n] = cycle[n]
      BY <2>1 DEF CycleInv
    <3> QED BY <3>1, <3>2 DEF MA!UnderWay
  <2>5. status' \in [state : {"idle", "running"}, error : BOOLEAN, runs : Nat]
        /\ status'.state = "running"
    BY <2>1, <2>2
  <2> QED BY <1>1, <2>1, <2>2, <2>3, <2>4, <2>5 DEF CycleInv
<1> QED BY <1>2, <1>3

\* Every step of the cycles, of requests and of Tether.
LEMMA CycleStep == CycleInv /\ [MA!Next]_(MA!vars) => CycleInv'
<1> SUFFICES ASSUME CycleInv, [MA!Next]_(MA!vars) PROVE CycleInv'
  OBVIOUS
<1>1. ASSUME NEW n \in MA!Runs, MA!Cycle(n) PROVE CycleInv'
  <2>1. CASE MA!FinishCycle(n)
    <3>1. /\ lock = n /\ cycle[n].at \in {"done", "failed"} /\ lock' = 0
          /\ status' = [status EXCEPT !.state = "idle", !.error = cycle[n].at = "failed"]
          /\ UNCHANGED <<cycle, catalog, stopped>>
      BY <2>1 DEF MA!FinishCycle, MA!world
    <3>2. ~MA!UnderWay(n)
      BY <3>1 DEF MA!UnderWay
    <3>3. ~stopped => \A m \in MA!Runs : ~MA!UnderWay(m)'
      BY <3>1, <3>2 DEF CycleInv, MA!UnderWay
    <3>4. status' \in [state : {"idle", "running"}, error : BOOLEAN, runs : Nat]
          /\ status'.state = "idle"
      BY <3>1 DEF CycleInv
    <3> QED BY <3>1, <3>3, <3>4 DEF CycleInv
  <2>2. CASE MA!TidyLinks(n) \/ MA!ListUploads(n) \/ MA!DeleteUploads(n) \/ MA!PruneSettings(n)
    <3>1. \E a \in {"uploads", "failed", "unlink", "projects", "done"} :
            cycle' = [cycle EXCEPT ![n].at = a]
      BY <2>2 DEF MA!TidyLinks, MA!ListUploads, MA!DeleteUploads, MA!PruneSettings
    <3>2. MA!UnderWay(n) /\ UNCHANGED <<lock, status, stopped, catalog>>
      BY <2>2 DEF MA!TidyLinks, MA!ListUploads, MA!DeleteUploads, MA!PruneSettings,
                  MA!UnderWay, MA!world, MA!record
    <3>3. {"uploads", "failed", "unlink", "projects", "done"} \subseteq MA!Stages \ {"none"}
          /\ catalog' \subseteq Projects
      BY <3>2 DEF MA!Stages, CycleInv
    <3> QED BY <3>1, <3>2, <3>3, ThreadMoves
  <2>3. CASE MA!ListProjects(n)
    <3>1. \E a \in {"settings", "failed"}, r \in {{}, catalog} :
            cycle' = [cycle EXCEPT ![n].at = a, ![n].read = r]
      BY <2>3 DEF MA!ListProjects
    <3>2. MA!UnderWay(n) /\ UNCHANGED <<lock, status, stopped, catalog>>
      BY <2>3 DEF MA!ListProjects, MA!UnderWay, MA!world, MA!record
    <3>3. {"settings", "failed"} \subseteq MA!Stages \ {"none"}
          /\ catalog \subseteq Projects /\ catalog' \subseteq Projects
      BY <3>2 DEF MA!Stages, CycleInv
    <3> QED BY <3>1, <3>2, <3>3, ThreadMoves
  <2> QED BY <1>1, <2>1, <2>2, <2>3 DEF MA!Cycle
<1>2. CASE MA!Stop
  <2>1. stopped' = TRUE /\ UNCHANGED <<catalog, cycle, status>>
    BY <1>2 DEF MA!Stop, MA!world
  <2> QED BY <2>1 DEF CycleInv
<1>3. ASSUME UNCHANGED <<lock, cycle, status, stopped>>, catalog' \subseteq Projects
      PROVE  CycleInv'
  BY <1>3 DEF CycleInv, MA!UnderWay
<1>4. ASSUME NEW p \in Projects, MA!Register(p) \/ MA!Unregister(p) \/ MA!UpsertSettings(p)
      PROVE  CycleInv'
  <2>1. catalog' \subseteq Projects
    BY <1>4 DEF MA!Register, MA!Unregister, MA!UpsertSettings, CycleInv
  <2> QED BY <1>3, <1>4, <2>1 DEF MA!Register, MA!Unregister, MA!UpsertSettings, MA!Unaware
<1>5. ASSUME NEW f \in Uploads, MA!SaveUpload(f) \/ MA!Age(f) PROVE CycleInv'
  BY <1>3, <1>5 DEF MA!SaveUpload, MA!Age, MA!Unaware, CycleInv
<1>6. CASE MA!TetherComesAndGoes
  BY <1>3, <1>6 DEF MA!TetherComesAndGoes, MA!Unaware, CycleInv
<1>7. CASE UNCHANGED MA!vars
  BY <1>3, <1>7 DEF MA!vars, CycleInv
<1> QED BY <1>1, <1>2, <1>4, <1>5, <1>6, <1>7, RunStep DEF MA!Next

\* A row goes only from the catalog that this pass listed.
LEMMA RowsGo ==
  [MA!Next]_(MA!vars) =>
    [\A p \in rows \ rows' :
       \E n \in MA!Runs : cycle[n].at = "settings" /\ cycle[n].read \notin {{}, {p}}
                           /\ p \notin cycle[n].read]_(MA!vars)
<1> SUFFICES ASSUME MA!Next, NEW p \in rows \ rows'
             PROVE  \E n \in MA!Runs : cycle[n].at = "settings" /\ cycle[n].read \notin {{}, {p}}
                                       /\ p \notin cycle[n].read
  OBVIOUS
<1>1. PICK n \in MA!Runs : MA!PruneSettings(n)
  <2>1. rows' # rows
    OBVIOUS
  <2>2. ASSUME NEW n \in MA!Runs, MA!Cycle(n) PROVE MA!PruneSettings(n)
    BY <2>1, <2>2 DEF MA!Cycle, MA!TidyLinks, MA!ListUploads, MA!DeleteUploads, MA!ListProjects,
                      MA!FinishCycle, MA!world
  <2>3. ASSUME NEW q \in Projects PROVE ~(MA!Register(q) \/ MA!Unregister(q) \/ MA!UpsertSettings(q))
    BY DEF MA!Register, MA!Unregister, MA!UpsertSettings
  <2>4. ASSUME NEW f \in Uploads PROVE ~(MA!SaveUpload(f) \/ MA!Age(f))
    BY <2>1 DEF MA!SaveUpload, MA!Age
  <2> QED BY <2>1, <2>2, <2>3, <2>4 DEF MA!Next, MA!RunCycle, MA!Stop, MA!TetherComesAndGoes, MA!world
<1>2. cycle[n].at = "settings" /\ cycle[n].read # {} /\ p \notin cycle[n].read
  BY <1>1 DEF MA!PruneSettings, MA!Pruned
<1> QED BY <1>2

\* A step of the server is one of the cycles' or leaves them.
LEMMA CycleLift ==
  /\ ServerInit => MA!Init
  /\ [ServerNext]_ServerVars => [MA!Next]_(MA!vars)
<1>1. ServerInit => MA!Init
  BY DEF ServerInit
<1>2. [ServerNext]_ServerVars => [MA!Next]_(MA!vars)
  BY DEF ServerNext, ServerVars, maintenance, MA!vars
<1> QED BY <1>1, <1>2

\* Until the loop is cancelled no two cycles work at the same time and the status says
\* running exactly while one does; and a pass deletes the settings of a project only
\* after Tether listed others and not it.
THEOREM CyclesTakeTurns == ServerSpec => CyclesAreSafe
<1>1. CycleInv => MA!CyclesDoNotOverlap
  <2> SUFFICES ASSUME CycleInv, ~stopped
               PROVE  /\ MA!Cardinality({n \in MA!Runs : MA!UnderWay(n)}) <= 1
                      /\ status.state = "running" <=> lock # 0
    BY DEF MA!CyclesDoNotOverlap
  <2> DEFINE S == {n \in MA!Runs : MA!UnderWay(n)}
  <2>1. S = {} \/ S = {lock}
    BY DEF CycleInv
  <2>2. Cardinality({}) = 0 /\ Cardinality({lock}) = 1
    BY FS_EmptySet, FS_Singleton
  <2>3. Cardinality(S) <= 1
    BY <2>1, <2>2
  <2> QED BY <2>3, CardinalityOfRuns DEF CycleInv
<1>2. ServerSpec => []MA!CyclesDoNotOverlap
  BY <1>1, CycleInit, CycleStep, CycleLift, PTL DEF ServerSpec
<1>3. ServerSpec => MA!SettingsOutliveOutages
  BY RowsGo, CycleLift, PTL DEF ServerSpec, MA!SettingsOutliveOutages
<1> QED BY <1>2, <1>3 DEF CyclesAreSafe, MA!CyclesAreSafe

-------------------------------------------------------------------------------
(***************************************************************************)
(* EventWatcher: links follow the ends of their sessions, and no others.   *)
(***************************************************************************)

\* The instance of a session, and the records of the watchers' state.
Own(s) == IF s \in OfActive THEN "active" ELSE "agent"
\* An event of a log, a daemon and a watcher, with no bound on their numbers.
Event == [type : {"ended", "updated"}, session : Sessions]
Daemon == [up : BOOLEAN, socket : BOOLEAN, boot : Nat, log : Seq(Event)]
Watch == [phase : {"idle", "subscribe", "stream"}, seq : Int, boot : Int, next : Int,
          gap : BOOLEAN, caughtUp : BOOLEAN, missed : SUBSET Sessions]

\* The end of s is in the log from k on.
Logs(t, s, k) ==
  \E n \in k..Len(t.log) : t.log[n].type = "ended" /\ t.log[n].session = s

\* A cursor of the boot that runs is inside its log, and a stream reads on after it.  A
\* stream with a gap has none.
Cursor(t, w) ==
  /\ w.seq >= EW!None /\ (w.boot = EW!None => w.seq = EW!None)
  /\ w.boot <= t.boot
  /\ w.boot = t.boot => w.seq <= Len(t.log)
  /\ w.phase = "stream" =>
       /\ t.up /\ w.boot = t.boot
       /\ 1 <= w.next /\ w.next <= Len(t.log) + 1 /\ w.seq < w.next
       /\ w.gap => w.seq = EW!None

\* How the watcher still learns that s ended: the stream reads it on, a gap or another
\* boot makes it read everything again, or its next stream is a fresh one.
Learns(t, w, s) ==
  \/ s \in w.missed
  \/ w.phase = "stream" /\ (w.gap \/ Logs(t, s, w.next))
  \/ /\ w.phase # "stream"
     /\ EW!Resuming(w)
     /\ ~t.up \/ w.boot # t.boot \/ Logs(t, s, w.seq + 1)
  \/ w.phase = "idle" /\ ~EW!Resuming(w)

\* The types of the daemons and their watchers.
WatchTypes ==
  /\ tether \in [EW!Instances -> Daemon]
  /\ watch \in [EW!Instances -> Watch]
  /\ ended \subseteq Sessions /\ linked \subseteq Sessions

\* What a log says ended has ended.
LogsTrue ==
  \A i \in EW!Instances : \A n \in 1..Len(tether[i].log) :
    tether[i].log[n].type = "ended" => tether[i].log[n].session \in ended

\* Every watcher has such a cursor.
Cursors == \A i \in EW!Instances : Cursor(tether[i], watch[i])

\* What ended and keeps a link is still to be learnt.
Learning ==
  \A i \in EW!Instances : \A s \in ended \cap linked :
    Own(s) = i /\ watch[i].caughtUp => Learns(tether[i], watch[i], s)

\* The inductive invariant: a cursor alone does not tell that what ended will be read.
WatchInv == WatchTypes /\ LogsTrue /\ Cursors /\ Learning

\* What is known of one instance.
LEMMA InstanceOf ==
  ASSUME WatchInv, NEW i \in EW!Instances
  PROVE  /\ tether[i] \in Daemon /\ watch[i] \in Watch
         /\ Cursor(tether[i], watch[i])
         /\ \A n \in 1..Len(tether[i].log) :
              /\ tether[i].log[n] \in Event
              /\ tether[i].log[n].type = "ended" => tether[i].log[n].session \in ended
         /\ \A s \in ended \cap linked :
              Own(s) = i /\ watch[i].caughtUp => Learns(tether[i], watch[i], s)
BY DEF WatchInv, WatchTypes, LogsTrue, Cursors, Learning, Daemon

\* One instance and its watcher move; links go, and at most a session of that instance
\* ends.
LEMMA InstanceMoves ==
  ASSUME WatchInv, NEW i \in EW!Instances, NEW t \in Daemon, NEW w \in Watch,
         tether' = [tether EXCEPT ![i] = t], watch' = [watch EXCEPT ![i] = w],
         linked' \subseteq linked, ended \subseteq ended', ended' \subseteq Sessions,
         \A s \in ended' \ ended : Own(s) = i,
         \A n \in 1..Len(t.log) : t.log[n].type = "ended" => t.log[n].session \in ended',
         Cursor(t, w),
         \A s \in ended' \cap linked' : Own(s) = i /\ w.caughtUp => Learns(t, w, s)
  PROVE  WatchInv'
<1>1. WatchTypes'
  BY DEF WatchInv, WatchTypes
<1>2. /\ tether'[i] = t /\ watch'[i] = w
      /\ \A j \in EW!Instances \ {i} : tether'[j] = tether[j] /\ watch'[j] = watch[j]
  BY DEF WatchInv, WatchTypes
<1>3. LogsTrue'
  BY <1>2 DEF WatchInv, LogsTrue
<1>4. Cursors'
  BY <1>2 DEF WatchInv, Cursors
<1>5. Learning'
  <2> SUFFICES ASSUME NEW j \in EW!Instances, NEW s \in ended' \cap linked',
                      Own(s) = j, watch'[j].caughtUp
               PROVE  Learns(tether'[j], watch'[j], s)
    BY DEF Learning
  <2>1. CASE j = i
    BY <1>2, <2>1
  <2>2. CASE j # i
    <3>1. s \in ended \cap linked
      BY <2>2
    <3> QED BY <1>2, <2>2, <3>1 DEF WatchInv, Learning
  <2> QED BY <2>1, <2>2
<1> QED BY <1>1, <1>3, <1>4, <1>5 DEF WatchInv

\* The same when only the watcher moves.
LEMMA WatcherMoves ==
  ASSUME WatchInv, NEW i \in EW!Instances, NEW w \in Watch,
         UNCHANGED <<tether, ended>>, watch' = [watch EXCEPT ![i] = w],
         linked' \subseteq linked, Cursor(tether[i], w),
         \A s \in ended \cap linked' : Own(s) = i /\ w.caughtUp => Learns(tether[i], w, s)
  PROVE  WatchInv'
<1> DEFINE t == tether[i]
<1>1. t \in Daemon /\ tether' = [tether EXCEPT ![i] = t]
  BY DEF WatchInv, WatchTypes
<1>2. \A n \in 1..Len(t.log) : t.log[n].type = "ended" => t.log[n].session \in ended'
  BY InstanceOf
<1>3. ended' \subseteq Sessions
  BY DEF WatchInv, WatchTypes
<1> HIDE DEF t
<1> QED BY <1>1, <1>2, <1>3, InstanceMoves DEF t

\* A pass that every candidate answered leaves no link to an ended session; and it
\* takes a link of one that lives only if its instance is no candidate.
LEMMA Reconciled ==
  ASSUME WatchInv, EW!Reconcile
  PROVE  /\ linked' \subseteq linked
         /\ EW!FanOut(seen) => ended \cap linked' = {}
         /\ \A s \in (linked \ linked') \ ended : Own(s) \notin seen /\ ~tether[Own(s)].socket
<1> DEFINE answered == {i \in EW!Candidates(seen) : tether[i].up}
           alive == {s \in Sessions \ ended : [r \in Sessions |-> Own(r)][s] \in answered}
<1>1. linked' = IF EW!FanOut(seen) THEN linked \cap alive ELSE linked
  BY DEF EW!Reconcile, Own
<1>2. ASSUME NEW s \in (linked \ linked') \ ended
      PROVE  Own(s) \notin seen /\ ~tether[Own(s)].socket
  <2>1. EW!FanOut(seen) /\ s \in Sessions /\ s \notin alive
    BY <1>1 DEF WatchInv, WatchTypes
  <2>2. Own(s) \notin answered
    BY <2>1
  <2>3. Own(s) \notin EW!Candidates(seen)
    BY <2>1, <2>2 DEF EW!FanOut
  <2> QED BY <2>3 DEF EW!Candidates, EW!Instances, Own
<1> QED BY <1>1, <1>2

\* A log that grows leaves a cursor good, and what the watcher learns it learns still.
LEMMA LogGrows ==
  ASSUME NEW t \in Daemon, NEW u \in Daemon, NEW w \in Watch, NEW x \in Watch, Cursor(t, w),
         u.up = t.up, u.boot = t.boot, Len(t.log) <= Len(u.log),
         \A n \in 1..Len(t.log) : u.log[n] = t.log[n],
         x.phase = w.phase, x.seq = w.seq, x.boot = w.boot, x.next = w.next, x.gap = w.gap,
         w.missed \subseteq x.missed
  PROVE  Cursor(u, x) /\ \A s : Learns(t, w, s) => Learns(u, x, s)
<1>1. Len(t.log) \in Nat /\ Len(u.log) \in Nat
  BY DEF Daemon
<1>2. Cursor(u, x)
  BY <1>1 DEF Cursor, Daemon, Watch
<1>3. ASSUME NEW s, Learns(t, w, s) PROVE Learns(u, x, s)
  <2>1. ASSUME NEW k \in Int, k >= 1, Logs(t, s, k) PROVE Logs(u, s, k)
    <3>1. PICK n \in k..Len(t.log) : t.log[n].type = "ended" /\ t.log[n].session = s
      BY <2>1 DEF Logs
    <3>2. n \in 1..Len(t.log) /\ n \in k..Len(u.log)
      BY <1>1, <2>1
    <3> QED BY <3>1, <3>2 DEF Logs
  <2>2. CASE w.phase = "stream" /\ (w.gap \/ Logs(t, s, w.next))
    <3>1. w.next \in Int /\ w.next >= 1
      BY <2>2 DEF Cursor, Watch
    <3> QED BY <2>1, <2>2, <3>1 DEF Learns
  <2>3. CASE /\ w.phase # "stream" /\ EW!Resuming(w)
             /\ ~t.up \/ w.boot # t.boot \/ Logs(t, s, w.seq + 1)
    <3>1. w.seq + 1 \in Int /\ w.seq + 1 >= 1
      BY <2>3 DEF Cursor, Watch, EW!Resuming, EW!None
    <3>2. EW!Resuming(x)
      BY <2>3 DEF EW!Resuming
    <3> QED BY <2>1, <2>3, <3>1, <3>2 DEF Learns
  <2>4. CASE s \in w.missed \/ (w.phase = "idle" /\ ~EW!Resuming(w))
    BY <2>4 DEF Learns, EW!Resuming
  <2> QED BY <1>3, <2>2, <2>3, <2>4 DEF Learns
<1> QED BY <1>2, <1>3

\* A daemon that runs logs an event.
LEMMA LogAppended ==
  ASSUME NEW t \in Daemon, NEW e \in Event, NEW u, u = [t EXCEPT !.log = Append(@, e)]
  PROVE  /\ u \in Daemon /\ u.up = t.up /\ u.boot = t.boot
         /\ Len(t.log) \in Nat /\ Len(u.log) = Len(t.log) + 1
         /\ u.log[Len(t.log) + 1] = e
         /\ \A n \in 1..Len(t.log) : u.log[n] = t.log[n]
<1> DEFINE l == Append(t.log, e)
<1>1. /\ l \in Seq(Event) /\ Len(t.log) \in Nat /\ Len(l) = Len(t.log) + 1
      /\ l[Len(t.log) + 1] = e /\ \A n \in 1..Len(t.log) : l[n] = t.log[n]
  BY DEF Daemon
<1>2. u = [t EXCEPT !.log = l]
  OBVIOUS
<1> HIDE DEF l
<1> QED BY <1>1, <1>2 DEF Daemon

\* A session ends.  The watcher of its instance reads that in the log; or it was down,
\* or between the watcher's pass and its subscription.
LEMMA SessionEndsStep ==
  ASSUME WatchInv, NEW s \in Sessions, EW!SessionEnds(s)
  PROVE  WatchInv' /\ linked' = linked
<1> DEFINE i == Own(s)
           t == tether[i]
           w == watch[i]
           e == [type |-> "ended", session |-> s]
           fresh == w.phase = "subscribe" /\ ~EW!Resuming(w)
           u == IF t.up THEN [t EXCEPT !.log = Append(@, e)] ELSE t
           x == IF fresh THEN [w EXCEPT !.missed = @ \cup {s}] ELSE w
<1>1. i \in EW!Instances /\ [r \in Sessions |-> IF r \in OfActive THEN "active" ELSE "agent"][s] = i
  BY DEF EW!Instances, Own
<1>2. t \in Daemon /\ w \in Watch /\ Cursor(t, w) /\ e \in Event
  BY <1>1, InstanceOf DEF Event
<1>3. \A n \in 1..Len(t.log) : t.log[n].type = "ended" => t.log[n].session \in ended
  BY <1>1, InstanceOf
<1>4. \A r \in ended \cap linked : Own(r) = i /\ w.caughtUp => Learns(t, w, r)
  BY <1>1, InstanceOf
<1>5. /\ s \notin ended /\ ended' = ended \cup {s} /\ linked' = linked
      /\ tether' = [tether EXCEPT ![i] = u]
      /\ watch' = [watch EXCEPT ![i] = x]
  BY <1>1 DEF EW!SessionEnds, EW!Logged, Own, WatchInv, WatchTypes
<1>6. /\ u \in Daemon /\ u.up = t.up /\ u.boot = t.boot
      /\ Len(t.log) \in Nat /\ Len(u.log) \in Nat /\ Len(t.log) <= Len(u.log)
      /\ \A n \in 1..Len(t.log) : u.log[n] = t.log[n]
      /\ t.up => Len(u.log) = Len(t.log) + 1 /\ u.log[Len(t.log) + 1] = e
      /\ ~t.up => Len(u.log) = Len(t.log)
  <2>1. CASE t.up
    <3>1. u = [t EXCEPT !.log = Append(@, e)]
      BY <2>1
    <3> HIDE DEF u, t, e
    <3>2. /\ u \in Daemon /\ u.up = t.up /\ u.boot = t.boot
          /\ Len(t.log) \in Nat /\ Len(u.log) = Len(t.log) + 1
          /\ u.log[Len(t.log) + 1] = e
          /\ \A n \in 1..Len(t.log) : u.log[n] = t.log[n]
      BY <1>2, <3>1, LogAppended
    <3>3. Len(u.log) \in Nat /\ Len(t.log) <= Len(u.log)
      BY <3>2
    <3> QED BY <2>1, <3>2, <3>3
  <2>2. CASE ~t.up
    BY <1>2, <2>2 DEF Daemon
  <2> QED BY <2>1, <2>2
<1>7. /\ x \in Watch /\ x.phase = w.phase /\ x.seq = w.seq /\ x.boot = w.boot
      /\ x.next = w.next /\ x.gap = w.gap /\ x.caughtUp = w.caughtUp
      /\ w.missed \subseteq x.missed /\ (fresh => s \in x.missed)
  BY <1>2 DEF Watch
<1> HIDE DEF u, x
<1>8. \A n \in 1..Len(u.log) : u.log[n].type = "ended" => u.log[n].session \in ended'
  <2> TAKE n \in 1..Len(u.log)
  <2>1. n \in 1..Len(t.log) \/ (t.up /\ n = Len(t.log) + 1)
    BY <1>6
  <2> QED BY <1>3, <1>5, <1>6, <2>1
<1>9. Cursor(u, x) /\ \A r : Learns(t, w, r) => Learns(u, x, r)
  BY <1>2, <1>6, <1>7, LogGrows
<1>10. Learns(u, x, s)
  <2>1. CASE w.phase = "stream"
    <3>1. t.up /\ Len(t.log) + 1 \in w.next..Len(u.log)
      BY <1>2, <1>6, <2>1 DEF Cursor, Watch
    <3>2. Logs(u, s, x.next)
      BY <1>6, <1>7, <3>1 DEF Logs
    <3> QED BY <1>7, <2>1, <3>2 DEF Learns
  <2>2. CASE w.phase # "stream" /\ EW!Resuming(w)
    <3>1. ASSUME t.up, w.boot = t.boot PROVE Logs(u, s, x.seq + 1)
      <4>1. w.seq + 1 \in Int /\ Len(t.log) + 1 \in (w.seq + 1)..Len(u.log)
        BY <1>2, <1>6, <3>1 DEF Cursor, Watch
      <4> QED BY <1>6, <1>7, <3>1, <4>1 DEF Logs
    <3>2. EW!Resuming(x)
      BY <1>7, <2>2 DEF EW!Resuming
    <3> QED BY <1>6, <1>7, <2>2, <3>1, <3>2 DEF Learns
  <2>3. CASE w.phase # "stream" /\ ~EW!Resuming(w)
    <3>1. w.phase = "idle" \/ fresh
      BY <1>2, <2>3 DEF Watch
    <3> QED BY <1>7, <2>3, <3>1 DEF Learns, EW!Resuming
  <2> QED BY <2>1, <2>2, <2>3
<1>11. \A r \in ended' \cap linked' : Own(r) = i /\ x.caughtUp => Learns(u, x, r)
  BY <1>4, <1>5, <1>7, <1>9, <1>10
<1>12. ended' \subseteq Sessions
  BY <1>5 DEF WatchInv, WatchTypes
<1>13. \A r \in ended' \ ended : Own(r) = i
  BY <1>5
<1> HIDE DEF i
<1> QED BY <1>1, <1>5, <1>6, <1>7, <1>8, <1>9, <1>11, <1>12, <1>13, InstanceMoves

\* Tether's side: a session ends or changes, a daemon stops or starts.
LEMMA TetherSteps ==
  ASSUME WatchInv,
         \/ \E s \in Sessions : EW!SessionEnds(s) \/ EW!SessionUpdates(s)
         \/ \E i \in EW!Instances : EW!DaemonStops(i) \/ EW!DaemonStarts(i)
  PROVE  WatchInv' /\ linked' = linked
<1>1. ASSUME NEW s \in Sessions, EW!SessionUpdates(s) PROVE WatchInv' /\ linked' = linked
  <2> DEFINE i == Own(s)
             t == tether[i]
             w == watch[i]
             e == [type |-> "updated", session |-> s]
             u == [t EXCEPT !.log = Append(@, e)]
  <2>1. i \in EW!Instances /\ [r \in Sessions |-> IF r \in OfActive THEN "active" ELSE "agent"][s] = i
    BY DEF EW!Instances, Own
  <2>2. t \in Daemon /\ w \in Watch /\ Cursor(t, w) /\ e \in Event
    BY <2>1, InstanceOf DEF Event
  <2>3. \A n \in 1..Len(t.log) : t.log[n].type = "ended" => t.log[n].session \in ended
    BY <2>1, InstanceOf
  <2>4. \A r \in ended \cap linked : Own(r) = i /\ w.caughtUp => Learns(t, w, r)
    BY <2>1, InstanceOf
  <2>5. UNCHANGED <<ended, linked, watch>> /\ tether' = [tether EXCEPT ![i] = u]
    BY <1>1, <2>1 DEF EW!SessionUpdates, EW!Logged, Own, WatchInv, WatchTypes
  <2>6. watch' = [watch EXCEPT ![i] = w] /\ ended' \subseteq Sessions
    BY <2>5 DEF WatchInv, WatchTypes
  <2> HIDE DEF u, t, w, i
  <2>7. /\ u \in Daemon /\ u.up = t.up /\ u.boot = t.boot
        /\ Len(t.log) \in Nat /\ Len(u.log) = Len(t.log) + 1
        /\ u.log[Len(t.log) + 1] = e
        /\ \A n \in 1..Len(t.log) : u.log[n] = t.log[n]
    BY <2>2, LogAppended DEF u
  <2>8. Cursor(u, w) /\ \A r : Learns(t, w, r) => Learns(u, w, r)
    BY <2>2, <2>7, LogGrows
  <2>9. \A n \in 1..Len(u.log) : u.log[n].type = "ended" => u.log[n].session \in ended'
    <3> TAKE n \in 1..Len(u.log)
    <3>1. n \in 1..Len(t.log) \/ n = Len(t.log) + 1
      BY <2>7
    <3> QED BY <2>3, <2>5, <2>7, <3>1
  <2>10. \A r \in ended' \cap linked' : Own(r) = i /\ w.caughtUp => Learns(u, w, r)
    BY <2>4, <2>5, <2>8
  <2> QED BY <2>1, <2>2, <2>5, <2>6, <2>7, <2>8, <2>9, <2>10, InstanceMoves
<1>2. ASSUME NEW i \in EW!Instances, EW!DaemonStops(i) PROVE WatchInv' /\ linked' = linked
  <2> DEFINE t == tether[i]
             w == watch[i]
             p == IF w.phase = "stream" THEN "idle" ELSE w.phase
             x == [w EXCEPT !.phase = p]
  <2>1. t \in Daemon /\ w \in Watch /\ Cursor(t, w)
    BY InstanceOf
  <2>2. \A n \in 1..Len(t.log) : t.log[n].type = "ended" => t.log[n].session \in ended
    BY InstanceOf
  <2>3. \A r \in ended \cap linked : Own(r) = i /\ w.caughtUp => Learns(t, w, r)
    BY InstanceOf
  <2>4. UNCHANGED <<ended, linked>> /\ watch' = [watch EXCEPT ![i] = x]
    BY <1>2 DEF EW!DaemonStops
  <2>5. PICK left \in BOOLEAN : tether' = [tether EXCEPT ![i].up = FALSE, ![i].socket = left]
    BY <1>2 DEF EW!DaemonStops
  <2> DEFINE u == [t EXCEPT !.up = FALSE, !.socket = left]
  <2>6. tether' = [tether EXCEPT ![i] = u]
    BY <2>5
  <2>7. u \in Daemon /\ u.up = FALSE /\ u.boot = t.boot /\ u.log = t.log
    BY <2>1 DEF Daemon
  <2>8. p \in {"idle", "subscribe"} /\ (w.phase # "stream" => p = w.phase)
        /\ (w.phase = "stream" => p = "idle")
    BY <2>1 DEF Watch
  <2> HIDE DEF p, u
  <2>9. /\ x \in Watch /\ x.phase = p /\ x.seq = w.seq /\ x.boot = w.boot /\ x.caughtUp = w.caughtUp
        /\ x.missed = w.missed
    BY <2>1, <2>8 DEF Watch
  <2> HIDE DEF x, w, t
  <2>10. Cursor(u, x)
    BY <2>1, <2>7, <2>8, <2>9 DEF Cursor
  <2>11. \A r : Learns(t, w, r) => Learns(u, x, r)
    BY <2>7, <2>8, <2>9 DEF Learns, EW!Resuming
  <2>12. \A r \in ended' \cap linked' : Own(r) = i /\ x.caughtUp => Learns(u, x, r)
    BY <2>3, <2>4, <2>9, <2>11
  <2>13. \A n \in 1..Len(u.log) : u.log[n].type = "ended" => u.log[n].session \in ended'
    BY <2>2, <2>4, <2>7
  <2>14. ended' \subseteq Sessions
    BY <2>4 DEF WatchInv, WatchTypes
  <2> QED BY <2>4, <2>6, <2>7, <2>9, <2>10, <2>12, <2>13, <2>14, InstanceMoves
<1>3. ASSUME NEW i \in EW!Instances, EW!DaemonStarts(i) PROVE WatchInv' /\ linked' = linked
  <2> DEFINE t == tether[i]
             w == watch[i]
             u == [up |-> TRUE, socket |-> TRUE, boot |-> t.boot + 1, log |-> <<>>]
  <2>1. t \in Daemon /\ w \in Watch /\ Cursor(t, w)
    BY InstanceOf
  <2>3. \A r \in ended \cap linked : Own(r) = i /\ w.caughtUp => Learns(t, w, r)
    BY InstanceOf
  <2>4. UNCHANGED <<ended, linked, watch>> /\ tether' = [tether EXCEPT ![i] = u] /\ ~t.up
    BY <1>3 DEF EW!DaemonStarts
  <2>5. watch' = [watch EXCEPT ![i] = w] /\ ended' \subseteq Sessions
    BY <2>4 DEF WatchInv, WatchTypes
  <2>6. u \in Daemon /\ u.boot = t.boot + 1 /\ u.log = <<>>
    BY <2>1 DEF Daemon
  <2> HIDE DEF u, t, w
  <2>7. w.phase # "stream" /\ w.boot # u.boot /\ w.boot <= u.boot
    BY <2>1, <2>4, <2>6 DEF Cursor, Daemon, Watch
  <2>8. Cursor(u, w)
    BY <2>1, <2>7 DEF Cursor
  <2>9. \A r : Learns(t, w, r) => Learns(u, w, r)
    BY <2>7 DEF Learns
  <2>10. \A r \in ended' \cap linked' : Own(r) = i /\ w.caughtUp => Learns(u, w, r)
    BY <2>3, <2>4, <2>9
  <2>11. \A n \in 1..Len(u.log) : u.log[n].type = "ended" => u.log[n].session \in ended'
    BY <2>6
  <2> QED BY <2>1, <2>4, <2>5, <2>6, <2>8, <2>10, <2>11, InstanceMoves
<1> QED BY <1>1, <1>2, <1>3, SessionEndsStep

\* A link that goes is of an ended session, or of an instance that is no candidate.
Spares ==
  \A s \in (linked \ linked') \ ended : Own(s) \notin seen /\ ~tether[Own(s)].socket

\* A pass, of a fresh stream or after a gap: what ended and was answered loses its link.
LEMMA PassSteps ==
  ASSUME WatchInv, NEW i \in EW!Instances, EW!Connect(i) \/ EW!HandleGap(i)
  PROVE  WatchInv' /\ Spares
<1> DEFINE t == tether[i]
           w == watch[i]
<1>1. t \in Daemon /\ w \in Watch /\ Cursor(t, w)
  BY InstanceOf
<1>2. CASE EW!Connect(i) /\ EW!Resuming(w)
  <2> DEFINE x == [w EXCEPT !.phase = "subscribe"]
  <2>1. UNCHANGED <<tether, ended, linked>> /\ watch' = [watch EXCEPT ![i] = x]
        /\ w.phase = "idle"
    BY <1>2 DEF EW!Connect
  <2>2. x \in Watch /\ x.phase = "subscribe" /\ x.seq = w.seq /\ x.boot = w.boot
        /\ x.caughtUp = w.caughtUp /\ x.missed = w.missed
    BY <1>1 DEF Watch
  <2>3. \A r \in ended \cap linked : Own(r) = i /\ w.caughtUp => Learns(t, w, r)
    BY InstanceOf
  <2> HIDE DEF x, w, t
  <2>4. Cursor(t, x)
    BY <1>1, <2>2 DEF Cursor
  <2>5. \A r \in ended \cap linked' : Own(r) = i /\ x.caughtUp => Learns(t, x, r)
    BY <1>2, <2>1, <2>2, <2>3 DEF Learns, EW!Resuming
  <2>6. WatchInv'
    BY <2>1, <2>2, <2>4, <2>5, WatcherMoves DEF t
  <2> QED BY <2>1, <2>6 DEF Spares
<1>3. CASE EW!Connect(i) /\ ~EW!Resuming(w)
  <2> DEFINE c == EW!FanOut(seen)
             x == [w EXCEPT !.phase = "subscribe", !.caughtUp = c, !.missed = {}]
  <2>1. UNCHANGED <<tether, ended>> /\ EW!Reconcile /\ watch' = [watch EXCEPT ![i] = x]
    BY <1>3 DEF EW!Connect
  <2>2. c \in BOOLEAN
    BY DEF EW!FanOut
  <2>3. linked' \subseteq linked /\ (c => ended \cap linked' = {}) /\ Spares
    BY <2>1, Reconciled DEF Spares
  <2> HIDE DEF c
  <2>4. x \in Watch /\ x.phase = "subscribe" /\ x.seq = w.seq /\ x.boot = w.boot
        /\ x.caughtUp = c
    BY <1>1, <2>2 DEF Watch
  <2> HIDE DEF x, w, t
  <2>5. Cursor(t, x)
    BY <1>1, <2>4 DEF Cursor
  <2>6. \A r \in ended \cap linked' : Own(r) = i /\ x.caughtUp => Learns(t, x, r)
    BY <2>3, <2>4
  <2>7. WatchInv'
    BY <2>1, <2>3, <2>4, <2>5, <2>6, WatcherMoves DEF t
  <2> QED BY <2>3, <2>7
<1>4. CASE EW!HandleGap(i)
  <2> DEFINE c == EW!FanOut(seen)
             k == w.next - 1
             x == [w EXCEPT !.seq = k, !.gap = FALSE, !.caughtUp = c, !.missed = {}]
  <2>1. UNCHANGED <<tether, ended>> /\ EW!Reconcile /\ watch' = [watch EXCEPT ![i] = x]
        /\ w.phase = "stream"
    BY <1>4 DEF EW!HandleGap
  <2>2. c \in BOOLEAN
    BY DEF EW!FanOut
  <2>3. linked' \subseteq linked /\ (c => ended \cap linked' = {}) /\ Spares
    BY <2>1, Reconciled DEF Spares
  <2>k. k \in Int /\ k = w.next - 1
    BY <1>1 DEF Watch
  <2> HIDE DEF c, k, w, t
  <2>4. x \in Watch /\ x.phase = "stream" /\ x.seq = k /\ x.boot = w.boot
        /\ x.next = w.next /\ x.gap = FALSE /\ x.caughtUp = c
    BY <1>1, <2>1, <2>2, <2>k DEF Watch
  <2> HIDE DEF x
  <2>5. Cursor(t, x)
    <3>1. Len(t.log) \in Nat /\ t.boot \in Nat /\ w.next \in Int
      BY <1>1 DEF Daemon, Watch
    <3>2. t.up /\ w.boot = t.boot /\ 1 <= w.next /\ w.next <= Len(t.log) + 1
      BY <1>1, <2>1 DEF Cursor
    <3>3. x.seq >= EW!None /\ x.seq <= Len(t.log) /\ x.seq < x.next /\ x.boot # EW!None
          /\ x.boot <= t.boot
      BY <2>4, <2>k, <3>1, <3>2 DEF EW!None
    <3> QED BY <2>4, <3>2, <3>3 DEF Cursor
  <2>6. \A r \in ended \cap linked' : Own(r) = i /\ x.caughtUp => Learns(t, x, r)
    BY <2>3, <2>4
  <2>7. WatchInv'
    BY <2>1, <2>3, <2>4, <2>5, <2>6, WatcherMoves DEF t
  <2> QED BY <2>3, <2>7
<1> QED BY <1>2, <1>3, <1>4

\* A subscription replays what came after the cursor, or says gap, or the pass before
\* it has seen what it skips.
LEMMA SubscribeStep ==
  ASSUME WatchInv, NEW i \in EW!Instances, EW!Subscribe(i)
  PROVE  WatchInv' /\ linked' = linked
<1> DEFINE t == tether[i]
           w == watch[i]
           replays == EW!Resuming(w) /\ w.boot = t.boot
<1>1. t \in Daemon /\ w \in Watch /\ Cursor(t, w)
  BY InstanceOf
<1>2. \A r \in ended \cap linked : Own(r) = i /\ w.caughtUp => Learns(t, w, r)
  BY InstanceOf
<1>3. UNCHANGED <<tether, ended, linked>> /\ w.phase = "subscribe"
  BY DEF EW!Subscribe
<1>4. CASE ~t.up
  <2> DEFINE x == [w EXCEPT !.phase = "idle"]
  <2>1. watch' = [watch EXCEPT ![i] = x]
    BY <1>4 DEF EW!Subscribe
  <2>2. x \in Watch /\ x.phase = "idle" /\ x.seq = w.seq /\ x.boot = w.boot
        /\ x.caughtUp = w.caughtUp /\ x.missed = w.missed
    BY <1>1 DEF Watch
  <2> HIDE DEF x, w, t
  <2>3. Cursor(t, x)
    BY <1>1, <2>2 DEF Cursor
  <2>4. \A r \in ended \cap linked' : Own(r) = i /\ x.caughtUp => Learns(t, x, r)
    BY <1>2, <1>3, <2>2 DEF Learns, EW!Resuming
  <2> QED BY <1>3, <2>1, <2>2, <2>3, <2>4, WatcherMoves DEF t
<1>5. CASE t.up
  <2> DEFINE q == IF w.boot \notin {EW!None, t.boot} THEN EW!None ELSE w.seq
             g == EW!Resuming(w) /\ ~replays
             n == IF replays THEN w.seq + 1 ELSE Len(t.log) + 1
             b == t.boot
             x == [w EXCEPT !.seq = q, !.boot = b, !.phase = "stream", !.gap = g, !.next = n]
  <2>1. watch' = [watch EXCEPT ![i] = x]
    BY <1>5 DEF EW!Subscribe, EW!Hello
  <2>2. q \in Int /\ g \in BOOLEAN /\ n \in Int /\ Len(t.log) \in Nat /\ t.boot \in Nat
        /\ w.seq \in Int /\ w.boot \in Int /\ EW!None = -1
    BY <1>1 DEF Daemon, Watch, EW!None, EW!Resuming
  <2>3. /\ w.seq >= -1 /\ (w.boot = -1 => w.seq = -1) /\ w.boot <= t.boot
        /\ w.boot = t.boot => w.seq <= Len(t.log)
    BY <1>1, <2>2 DEF Cursor
  <2>4. EW!Resuming(w) <=> w.seq # -1 /\ w.boot # -1
    BY <2>2 DEF EW!Resuming
  <2>5. /\ q >= -1 /\ q <= Len(t.log) /\ q < n /\ 1 <= n /\ n <= Len(t.log) + 1
        /\ g => q = -1
        /\ t.boot # -1
        /\ EW!Resuming(w) /\ ~g => w.boot = t.boot /\ n = w.seq + 1
    <3>1. CASE replays
      BY <2>2, <2>3, <2>4, <3>1
    <3>2. CASE ~replays
      BY <2>2, <2>3, <2>4, <3>2
    <3> QED BY <3>1, <3>2
  <2>a. q \in Int /\ g \in BOOLEAN /\ n \in Int /\ b \in Int /\ b = t.boot
    BY <2>2
  <2>b. x.phase = "stream" /\ x.seq = q /\ x.boot = b /\ x.next = n
        /\ (x.gap <=> g) /\ (x.caughtUp <=> w.caughtUp) /\ x.missed = w.missed /\ x \in Watch
    <3> HIDE DEF q, g, n, replays, w, t, b
    <3> QED BY <1>1, <2>a DEF Watch
  <2> HIDE DEF q, g, n, replays, w, t, b
  <2>6. x \in Watch /\ x.phase = "stream" /\ x.seq = q /\ x.boot = t.boot /\ x.next = n
        /\ (x.gap <=> g) /\ (x.caughtUp <=> w.caughtUp) /\ x.missed = w.missed
    BY <2>a, <2>b
  <2> HIDE DEF x
  <2>7. Cursor(t, x)
    BY <1>5, <2>2, <2>5, <2>6 DEF Cursor
  <2>8. ASSUME NEW r \in ended \cap linked', Own(r) = i, x.caughtUp PROVE Learns(t, x, r)
    <3>1. Learns(t, w, r)
      BY <1>2, <1>3, <2>6, <2>8
    <3>2. CASE r \in w.missed
      BY <2>6, <3>2 DEF Learns
    <3>3. CASE r \notin w.missed
      <4>1. EW!Resuming(w) /\ (w.boot # t.boot \/ Logs(t, r, w.seq + 1))
        BY <1>3, <1>5, <3>1, <3>3 DEF Learns
      <4>2. g \/ Logs(t, r, n)
        BY <2>5, <4>1
      <4> QED BY <2>6, <4>2 DEF Learns
    <3> QED BY <3>2, <3>3
  <2> QED BY <1>3, <2>1, <2>6, <2>7, <2>8, WatcherMoves DEF t
<1> QED BY <1>4, <1>5

\* A stream breaks, tells where it stands or brings the next event.
LEMMA StreamSteps ==
  ASSUME WatchInv, NEW i \in EW!Instances,
         EW!StreamBreaks(i) \/ EW!Heartbeat(i) \/ EW!HandleEvent(i)
  PROVE  WatchInv' /\ Spares
<1> DEFINE t == tether[i]
           w == watch[i]
<1>1. t \in Daemon /\ w \in Watch /\ Cursor(t, w)
  BY InstanceOf
<1>2. \A r \in ended \cap linked : Own(r) = i /\ w.caughtUp => Learns(t, w, r)
  BY InstanceOf
<1>3. UNCHANGED <<tether, ended>> /\ w.phase = "stream"
  BY DEF EW!StreamBreaks, EW!Heartbeat, EW!HandleEvent
<1>4. /\ Len(t.log) \in Nat /\ t.boot \in Nat /\ w.next \in Int /\ w.seq \in Int
      /\ t.up /\ w.boot = t.boot /\ w.boot # EW!None
      /\ 1 <= w.next /\ w.next <= Len(t.log) + 1 /\ w.seq < w.next /\ w.seq >= EW!None
      /\ w.gap => w.seq = EW!None
      /\ w.seq <= Len(t.log) /\ EW!None = -1
  BY <1>1, <1>3 DEF Cursor, Daemon, Watch, EW!None
<1>5. CASE EW!StreamBreaks(i)
  <2> DEFINE x == [w EXCEPT !.phase = "idle"]
  <2>1. watch' = [watch EXCEPT ![i] = x] /\ linked' = linked
    BY <1>5 DEF EW!StreamBreaks
  <2>2. x \in Watch /\ x.phase = "idle" /\ x.seq = w.seq /\ x.boot = w.boot
        /\ x.caughtUp = w.caughtUp /\ x.missed = w.missed
    BY <1>1 DEF Watch
  <2> HIDE DEF x, w, t
  <2>3. Cursor(t, x)
    BY <1>1, <2>2 DEF Cursor
  <2>4. ASSUME NEW r \in ended \cap linked', Own(r) = i, x.caughtUp PROVE Learns(t, x, r)
    <3>1. Learns(t, w, r)
      BY <1>2, <2>1, <2>2, <2>4
    <3>2. CASE r \in w.missed
      BY <2>2, <3>2 DEF Learns
    <3>3. CASE ~EW!Resuming(x)
      BY <2>2, <3>3 DEF Learns
    <3>4. CASE r \notin w.missed /\ EW!Resuming(x)
      <4>1. ~w.gap
        BY <1>4, <2>2, <3>4 DEF EW!Resuming
      <4>2. Logs(t, r, w.next)
        BY <1>3, <3>1, <3>4, <4>1 DEF Learns
      <4>3. Logs(t, r, w.seq + 1)
        BY <1>4, <4>2 DEF Logs
      <4> QED BY <2>2, <3>4, <4>3 DEF Learns
    <3> QED BY <3>2, <3>3, <3>4
  <2>5. WatchInv'
    BY <1>3, <2>1, <2>2, <2>3, <2>4, WatcherMoves DEF t
  <2> QED BY <2>1, <2>5 DEF Spares
<1>6. CASE EW!Heartbeat(i)
  <2> DEFINE x == [w EXCEPT !.seq = w.next - 1]
  <2>1. watch' = [watch EXCEPT ![i] = x] /\ linked' = linked /\ ~w.gap
    BY <1>6 DEF EW!Heartbeat
  <2>2. x \in Watch /\ x.phase = "stream" /\ x.seq = w.next - 1 /\ x.boot = w.boot
        /\ x.next = w.next /\ x.gap = w.gap /\ x.caughtUp = w.caughtUp /\ x.missed = w.missed
    BY <1>1, <1>3 DEF Watch
  <2> HIDE DEF x, w, t
  <2>3. Cursor(t, x)
    BY <1>4, <2>1, <2>2 DEF Cursor
  <2>4. \A r : Learns(t, w, r) => Learns(t, x, r)
    BY <1>3, <2>2 DEF Learns
  <2>5. \A r \in ended \cap linked' : Own(r) = i /\ x.caughtUp => Learns(t, x, r)
    BY <1>2, <2>1, <2>2, <2>4
  <2>6. WatchInv'
    BY <1>3, <2>1, <2>2, <2>3, <2>5, WatcherMoves DEF t
  <2> QED BY <2>1, <2>6 DEF Spares
<1>7. CASE EW!HandleEvent(i)
  <2> DEFINE e == t.log[w.next]
             k == w.next + 1
             x == [w EXCEPT !.seq = w.next, !.next = k]
  <2>1. watch' = [watch EXCEPT ![i] = x] /\ ~w.gap /\ w.next <= Len(t.log)
    BY <1>7 DEF EW!HandleEvent
  <2>2. PICK described \in BOOLEAN :
          linked' = IF EW!Drops(e, described) THEN linked \ {e.session} ELSE linked
    BY <1>7 DEF EW!HandleEvent
  <2>3. x \in Watch /\ x.phase = "stream" /\ x.seq = w.next /\ x.boot = w.boot
        /\ x.next = w.next + 1 /\ x.gap = w.gap /\ x.caughtUp = w.caughtUp /\ x.missed = w.missed
    <3>1. k \in Int /\ k = w.next + 1
      BY <1>4
    <3> HIDE DEF k, w, t
    <3> QED BY <1>1, <1>3, <3>1 DEF Watch
  <2>4. e \in Event /\ (e.type = "ended" => e.session \in ended)
    BY <1>4, <2>1, InstanceOf
  <2>5. Spares
    <3> SUFFICES ASSUME NEW s \in (linked \ linked') \ ended
                 PROVE  Own(s) \notin seen /\ ~tether[Own(s)].socket
      BY DEF Spares
    <3>1. s = e.session /\ EW!Drops(e, described) /\ s \in Sessions
      BY <2>2, <2>4 DEF Event
    <3>2. EW!Unlisted(s)
      BY <2>4, <3>1 DEF EW!Drops
    <3>3. Own(s) \notin EW!Candidates(seen)
      BY <3>1, <3>2 DEF EW!Unlisted, Own
    <3> QED BY <3>3 DEF EW!Candidates, EW!Instances, Own
  <2>6. linked' \subseteq linked /\ (e.type = "ended" => e.session \notin linked')
    BY <2>2 DEF EW!Drops
  <2> HIDE DEF x
  <2>7. Cursor(t, x)
    BY <1>1, <1>4, <2>1, <2>3 DEF Cursor
  <2>8. ASSUME NEW r \in ended \cap linked', Own(r) = i, x.caughtUp PROVE Learns(t, x, r)
    <3>1. Learns(t, w, r)
      <4>1. r \in ended \cap linked /\ w.caughtUp
        BY <2>3, <2>6, <2>8
      <4> HIDE DEF t, w
      <4> QED BY <1>2, <2>8, <4>1
    <3>2. CASE r \in w.missed
      BY <2>3, <3>2 DEF Learns
    <3>3. CASE r \notin w.missed
      <4>1. Logs(t, r, w.next)
        BY <1>3, <2>1, <3>1, <3>3 DEF Learns
      <4>2. PICK n \in w.next..Len(t.log) : t.log[n].type = "ended" /\ t.log[n].session = r
        BY <4>1 DEF Logs
      <4>3. n # w.next
        BY <2>6, <4>2
      <4>4. n \in x.next..Len(t.log)
        BY <1>4, <2>3, <4>2, <4>3
      <4>5. Logs(t, r, x.next)
        BY <4>2, <4>4 DEF Logs
      <4> QED BY <2>3, <4>5 DEF Learns
    <3> QED BY <3>2, <3>3
  <2>9. WatchInv'
    <3> HIDE DEF w
    <3> QED BY <1>3, <2>1, <2>3, <2>6, <2>7, <2>8, WatcherMoves
  <2> QED BY <2>5, <2>9
<1> QED BY <1>5, <1>6, <1>7

\* A-Term's restart.
LEMMA RestartStep == WatchInv /\ EW!Restart => WatchInv' /\ linked' = linked
<1> SUFFICES ASSUME WatchInv, EW!Restart PROVE WatchInv' /\ linked' = linked
  OBVIOUS
<1>1. watch' = [i \in EW!Instances |-> EW!Started] /\ UNCHANGED <<tether, ended, linked>>
  BY DEF EW!Restart
<1>2. EW!Started \in Watch /\ EW!Started.phase = "idle" /\ EW!Started.seq = -1
      /\ EW!Started.boot = -1 /\ EW!Started.caughtUp = FALSE /\ EW!None = -1
  BY DEF EW!Started, EW!None, Watch
<1>3. ASSUME NEW i \in EW!Instances PROVE Cursor(tether[i], EW!Started)
  <2>1. tether[i].boot \in Nat /\ Len(tether[i].log) \in Nat
    BY <1>3 DEF WatchInv, WatchTypes, Daemon
  <2> HIDE DEF EW!Started
  <2> QED BY <1>2, <2>1 DEF Cursor
<1>4. WatchTypes'
  BY <1>1, <1>2 DEF WatchInv, WatchTypes
<1>5. LogsTrue' /\ Cursors' /\ Learning'
  BY <1>1, <1>2, <1>3 DEF WatchInv, LogsTrue, Cursors, Learning
<1> QED BY <1>1, <1>4, <1>5 DEF WatchInv

\* Every step.
LEMMA WatchStep == WatchInv /\ [EW!Next]_(EW!vars) => WatchInv' /\ Spares
<1> SUFFICES ASSUME WatchInv, [EW!Next]_(EW!vars) PROVE WatchInv' /\ Spares
  OBVIOUS
<1>1. linked' = linked => Spares
  BY DEF Spares
<1>2. CASE UNCHANGED EW!vars
  BY <1>1, <1>2 DEF EW!vars, WatchInv, WatchTypes, LogsTrue, Cursors, Learning
<1> QED BY <1>1, <1>2, TetherSteps, PassSteps, SubscribeStep, StreamSteps, RestartStep DEF EW!Next

\* Every watcher starts without a cursor, and nothing ended.
LEMMA WatchInit == EW!Init => WatchInv
<1> SUFFICES ASSUME EW!Init PROVE WatchInv
  OBVIOUS
<1>1. EW!Started \in Watch /\ EW!Started.phase = "idle" /\ EW!Started.seq = -1
      /\ EW!Started.boot = -1 /\ EW!Started.caughtUp = FALSE /\ EW!None = -1
  BY DEF EW!Started, EW!None, Watch
<1> DEFINE t == [up |-> TRUE, socket |-> TRUE, boot |-> 1, log |-> <<>>]
<1>2. t \in Daemon /\ t.boot = 1 /\ t.log = <<>>
  BY DEF Daemon
<1>3. tether = [i \in EW!Instances |-> t] /\ watch = [i \in EW!Instances |-> EW!Started]
      /\ ended = {} /\ linked = Sessions
  BY DEF EW!Init
<1> HIDE DEF t
<1>4. Cursor(t, EW!Started)
  <2>1. Len(t.log) = 0
    BY <1>2
  <2> HIDE DEF EW!Started
  <2> QED BY <1>1, <1>2, <2>1 DEF Cursor
<1>5. WatchTypes
  BY <1>1, <1>2, <1>3 DEF WatchTypes
<1>6. LogsTrue
  BY <1>2, <1>3 DEF LogsTrue
<1>7. Cursors /\ Learning
  BY <1>3, <1>4 DEF Cursors, Learning
<1> QED BY <1>5, <1>6, <1>7 DEF WatchInv

\* A step of the server is one of the watchers' or leaves them.
LEMMA WatchLift ==
  /\ ServerInit => EW!Init
  /\ [ServerNext]_ServerVars => [EW!Next]_(EW!vars)
<1>1. ServerInit => EW!Init
  BY DEF ServerInit
<1>2. [ServerNext]_ServerVars => [EW!Next]_(EW!vars)
  BY DEF ServerNext, ServerVars, watcher, EW!vars
<1> QED BY <1>1, <1>2

\* Through restarts, breaks, gaps and new boots, for any split of the sessions between
\* the instances: a link of a session that lives goes only when its instance never
\* answered and has no socket; and a watcher that read everything after a pass that was
\* answered leaves no link of an ended session, but of those that ended between the
\* pass and the subscription.
THEOREM LinksFollow == ServerSpec => LinksFollowEnds
<1>1. WatchInv => EW!StreamCatchesUp
  <2> SUFFICES ASSUME WatchInv, NEW i \in EW!Instances,
                      watch[i].phase = "stream", watch[i].caughtUp, ~watch[i].gap,
                      watch[i].next > Len(tether[i].log),
                      NEW s \in ended \cap linked,
                      [r \in Sessions |-> IF r \in OfActive THEN "active" ELSE "agent"][s] = i
               PROVE  s \in watch[i].missed
    BY DEF EW!StreamCatchesUp
  <2>1. Own(s) = i
    BY DEF Own, WatchInv, WatchTypes
  <2>2. Learns(tether[i], watch[i], s)
    BY <2>1, InstanceOf
  <2>3. ~Logs(tether[i], s, watch[i].next)
    BY InstanceOf DEF Logs, Daemon, Watch
  <2> QED BY <2>2, <2>3 DEF Learns
<1>2. ServerSpec => []EW!StreamCatchesUp
  BY <1>1, WatchInit, WatchStep, WatchLift, PTL DEF ServerSpec
<1>3. WatchInv /\ Spares => [\A s \in (linked \ linked') \ ended : EW!Unreached(s)]_(EW!vars)
  BY DEF Spares, Own, EW!Unreached, WatchInv, WatchTypes
<1>4. ServerSpec => EW!KeepsLiveLinks
  BY <1>3, WatchInit, WatchStep, WatchLift, PTL DEF ServerSpec, EW!KeepsLiveLinks
<1> QED BY <1>2, <1>4 DEF LinksFollowEnds, EW!LinksFollowEnds

-------------------------------------------------------------------------------
(***************************************************************************)
(* AgentShows: a show is put before the user once.                         *)
(***************************************************************************)

\* Shows in the order they were sent, none left out.
Run(q) == q \in Seq(Nat) /\ \A i \in 1..Len(q) : q[i] = q[1] + i - 1 /\ q[i] > 0

\* The answer of a poll: what came after the cursor, and nothing between that the ring
\* has and the answer has not.
Answers(q, c, last, rg) ==
  /\ Run(q) /\ \A i \in 1..Len(q) : c < q[i] /\ q[i] <= last
  /\ q # <<>> => \A s \in AS!ToSet(rg) : c < s /\ s <= q[Len(q)] => s \in AS!ToSet(q)

\* The inductive invariant: the ring is a run up to the last show; what the browser knows
\* is not after its cursor, and what it was offered is what came before; an answer under
\* way is what comes next.
ShowInv ==
  /\ sent \in Nat /\ sent <= MaxShows /\ cursor \in Nat /\ cursor <= sent
  /\ Run(ring) /\ (ring # <<>> => ring[Len(ring)] = sent)
  /\ pushed = [s \in AS!Shows |-> IF s <= sent THEN 1 ELSE 0]
  /\ known \in Seq(Nat) /\ \A i \in 1..Len(known) : known[i] <= cursor
  /\ offered \in [AS!Shows -> {0, 1}]
  /\ \A s \in AS!Shows : s > cursor => offered[s] = 0
  /\ \A s \in AS!Shows : s \in AS!ToSet(ring) /\ s <= cursor => offered[s] = 1
  /\ answer = AS!Idle \/ Answers(answer, cursor, sent, ring)

\* A run has a number at one place only, and every number between its ends.
LEMMA RunFacts ==
  ASSUME NEW q, Run(q)
  PROVE  /\ q \in Seq(Nat) /\ Len(q) \in Nat /\ DOMAIN q = 1..Len(q)
         /\ \A i \in 1..Len(q) : q[i] \in Nat /\ q[i] = q[1] + i - 1 /\ q[i] > 0
         /\ \A i, j \in 1..Len(q) : q[i] = q[j] => i = j
         /\ \A s \in AS!ToSet(q) : \E i \in 1..Len(q) : q[i] = s
         /\ \A i \in 1..Len(q) : q[i] \in AS!ToSet(q)
         /\ \A s \in AS!ToSet(q) : s \in Nat /\ s > 0 /\ q[1] <= s /\ s <= q[Len(q)]
         /\ \A s \in Nat : q # <<>> /\ q[1] <= s /\ s <= q[Len(q)] => s \in AS!ToSet(q)
<1>1. q \in Seq(Nat) /\ Len(q) \in Nat /\ DOMAIN q = 1..Len(q)
  BY DEF Run
<1>2. \A i \in 1..Len(q) : q[i] \in Nat /\ q[i] = q[1] + i - 1 /\ q[i] > 0
  BY <1>1 DEF Run
<1>3. \A s \in AS!ToSet(q) : \E i \in 1..Len(q) : q[i] = s
  BY <1>1 DEF AS!ToSet
<1>4. \A i \in 1..Len(q) : q[i] \in AS!ToSet(q)
  BY <1>1 DEF AS!ToSet
<1>5. \A i, j \in 1..Len(q) : q[i] = q[j] => i = j
  <2> SUFFICES ASSUME NEW i \in 1..Len(q), NEW j \in 1..Len(q), q[i] = q[j] PROVE i = j
    OBVIOUS
  <2>1. q[1] \in Nat
    BY <1>1, <1>2
  <2>2. q[i] = q[1] + i - 1 /\ q[j] = q[1] + j - 1 /\ i \in Nat /\ j \in Nat
    BY <1>1, <1>2
  <2>3. q[1] + i - 1 = q[1] + j - 1
    BY <2>2
  <2> HIDE DEF Run
  <2> QED BY <2>1, <2>2, <2>3
<1>6. \A s \in AS!ToSet(q) : s \in Nat /\ s > 0 /\ q[1] <= s /\ s <= q[Len(q)]
  <2> SUFFICES ASSUME NEW s \in AS!ToSet(q)
               PROVE  s \in Nat /\ s > 0 /\ q[1] <= s /\ s <= q[Len(q)]
    OBVIOUS
  <2>1. PICK i \in 1..Len(q) : q[i] = s
    BY <1>3
  <2>2. Len(q) \in 1..Len(q) /\ 1 \in 1..Len(q) /\ i \in Nat
    BY <1>1, <2>1
  <2>3. q[1] \in Nat /\ q[Len(q)] = q[1] + Len(q) - 1 /\ q[i] = q[1] + i - 1
    BY <1>2, <2>2
  <2> QED BY <1>1, <1>2, <2>1, <2>2, <2>3
<1>7. ASSUME NEW s \in Nat, q # <<>>, q[1] <= s, s <= q[Len(q)]
      PROVE  s \in AS!ToSet(q)
  <2>1. Len(q) \in 1..Len(q) /\ 1 \in 1..Len(q)
    BY <1>1, <1>7
  <2>2. q[1] \in Nat /\ q[Len(q)] = q[1] + Len(q) - 1
    BY <1>2, <2>1
  <2>3. s - q[1] + 1 \in 1..Len(q)
    BY <1>1, <1>7, <2>2
  <2>4. q[s - q[1] + 1] = q[1] + (s - q[1] + 1) - 1
    BY <1>2, <2>3
  <2>5. q[s - q[1] + 1] = s
    BY <2>2, <2>4
  <2> QED BY <1>4, <2>3, <2>5
<1> QED BY <1>1, <1>2, <1>3, <1>4, <1>5, <1>6, <1>7

\* What is left of a sequence from one place on, for runs.
LEMMA RunFrom ==
  ASSUME NEW q, Run(q), NEW m \in 1..Len(q) + 1
  PROVE  /\ Run(SubSeq(q, m, Len(q))) /\ Len(SubSeq(q, m, Len(q))) = Len(q) - m + 1
         /\ \A i \in 1..Len(q) - m + 1 : SubSeq(q, m, Len(q))[i] = q[m + i - 1]
         /\ AS!ToSet(SubSeq(q, m, Len(q))) \subseteq AS!ToSet(q)
<1>1. /\ q \in Seq(Nat) /\ Len(q) \in Nat
      /\ \A i \in 1..Len(q) : q[i] \in Nat /\ q[i] = q[1] + i - 1 /\ q[i] > 0
      /\ \A i \in 1..Len(q) : q[i] \in AS!ToSet(q)
  BY RunFacts
<1> DEFINE t == SubSeq(q, m, Len(q))
<1>2. /\ t \in Seq(Nat) /\ Len(t) = Len(q) - m + 1
      /\ \A i \in 1..Len(q) - m + 1 : t[i] = q[m + i - 1]
  BY <1>1
<1>3. \A i \in 1..Len(q) - m + 1 : m + i - 1 \in 1..Len(q)
  BY <1>1
<1> HIDE DEF t
<1>4. \A i \in 1..Len(t) : t[i] = t[1] + i - 1 /\ t[i] > 0 /\ t[i] \in AS!ToSet(q)
  <2> SUFFICES ASSUME NEW i \in 1..Len(t)
               PROVE  t[i] = t[1] + i - 1 /\ t[i] > 0 /\ t[i] \in AS!ToSet(q)
    OBVIOUS
  <2>1. i \in 1..Len(q) - m + 1 /\ 1 \in 1..Len(q) - m + 1
    BY <1>1, <1>2
  <2>2. t[i] = q[m + i - 1] /\ t[1] = q[m + 1 - 1] /\ m + i - 1 \in 1..Len(q) /\ m + 1 - 1 \in 1..Len(q)
    BY <1>2, <1>3, <2>1
  <2>3. q[m + i - 1] = q[1] + (m + i - 1) - 1 /\ q[m + 1 - 1] = q[1] + (m + 1 - 1) - 1 /\ q[m + i - 1] > 0
    BY <1>1, <2>2
  <2>4. 1 \in 1..Len(q)
    BY <1>1, <2>2
  <2>5. q[1] \in Nat
    BY <1>1, <2>4
  <2>6. q[m + i - 1] \in AS!ToSet(q)
    BY <1>1, <2>2
  <2> QED BY <2>2, <2>3, <2>5, <2>6
<1>5. Run(t)
  BY <1>2, <1>4 DEF Run
<1>6. AS!ToSet(t) \subseteq AS!ToSet(q)
  <2>1. \A s \in AS!ToSet(t) : \E i \in 1..Len(t) : t[i] = s
    BY <1>5, RunFacts
  <2> QED BY <1>4, <2>1
<1> QED BY <1>2, <1>5, <1>6 DEF t

\* deque(maxlen=n) and slice(-n) keep the last ones, and make none up.
LEMMA LastKept ==
  ASSUME NEW C, NEW q \in Seq(C)
  PROVE  /\ AS!Last50(q) \in Seq(C) /\ Len(AS!Last50(q)) <= Kept
         /\ \A i \in 1..Len(AS!Last50(q)) : \E j \in 1..Len(q) : AS!Last50(q)[i] = q[j]
<1>1. Len(q) \in Nat /\ Kept \in Nat
  BY ShowsAreBounded
<1>2. CASE Len(q) <= Kept
  BY <1>1, <1>2 DEF AS!Last50
<1>3. CASE ~(Len(q) <= Kept)
  <2> DEFINE m == Len(q) - Kept + 1
             t == SubSeq(q, m, Len(q))
  <2>1. AS!Last50(q) = t
    BY <1>3 DEF AS!Last50
  <2>2. m \in 1..Len(q) + 1 /\ Len(q) - m + 1 = Kept
    BY <1>1, <1>3
  <2> HIDE DEF m
  <2>3. /\ t \in Seq(C) /\ Len(t) = Kept
        /\ \A i \in 1..Kept : t[i] = q[m + i - 1] /\ m + i - 1 \in 1..Len(q)
    <3>1. m \in Nat /\ \A i \in 1..Kept : m + i - 1 \in 1..Len(q)
      BY <1>1, <2>2
    <3>2. /\ t \in Seq(C) /\ Len(t) = Len(q) - m + 1
          /\ \A i \in 1..Len(q) - m + 1 : t[i] = q[m + i - 1]
      BY <1>1, <2>2
    <3> HIDE DEF t
    <3> QED BY <2>2, <3>1, <3>2
  <2>4. Kept <= Kept
    BY <1>1
  <2> HIDE DEF t
  <2> QED BY <2>1, <2>3, <2>4
<1> QED BY <1>2, <1>3

\* The next show is new to the ring, and after it the ring is still a run up to the last.
LEMMA RingGrows ==
  ASSUME Run(ring), sent \in Nat, ring # <<>> => ring[Len(ring)] = sent
  PROVE  /\ sent + 1 \notin AS!ToSet(ring)
         /\ Run(AS!Add(sent + 1))
         /\ AS!Add(sent + 1)[Len(AS!Add(sent + 1))] = sent + 1
         /\ AS!ToSet(AS!Add(sent + 1)) \subseteq AS!ToSet(ring) \cup {sent + 1}
<1> DEFINE q == Append(ring, sent + 1)
<1>1. /\ ring \in Seq(Nat) /\ Len(ring) \in Nat
      /\ \A i \in 1..Len(ring) : ring[i] \in Nat /\ ring[i] = ring[1] + i - 1 /\ ring[i] > 0
      /\ \A i \in 1..Len(ring) : ring[i] \in AS!ToSet(ring)
      /\ \A s \in AS!ToSet(ring) : s \in Nat /\ s <= ring[Len(ring)]
  BY RunFacts
<1>2. ring = <<>> => AS!ToSet(ring) = {}
  BY DEF AS!ToSet
<1>3. sent + 1 \notin AS!ToSet(ring)
  BY <1>1, <1>2
<1>4. /\ q \in Seq(Nat) /\ Len(q) = Len(ring) + 1 /\ q[Len(ring) + 1] = sent + 1
      /\ \A i \in 1..Len(ring) : q[i] = ring[i]
  BY <1>1
<1>5. ring = <<>> <=> Len(ring) = 0
  BY <1>1
<1> HIDE DEF q
<1>6. q[Len(ring) + 1] = q[1] + (Len(ring) + 1) - 1
  <2>1. CASE Len(ring) = 0
    BY <1>4, <2>1
  <2>2. CASE Len(ring) # 0
    <3>1. Len(ring) \in 1..Len(ring) /\ 1 \in 1..Len(ring)
      BY <1>1, <2>2
    <3>2. ring[Len(ring)] = ring[1] + Len(ring) - 1 /\ ring[Len(ring)] = sent /\ ring[1] \in Nat
      BY <1>1, <1>5, <2>2, <3>1
    <3>3. q[1] = ring[1]
      BY <1>4, <3>1
    <3>4. sent + 1 = ring[1] + (Len(ring) + 1) - 1
      BY <1>1, <3>2
    <3> QED BY <1>4, <3>3, <3>4
  <2> QED BY <2>1, <2>2
<1>7. \A i \in 1..Len(q) : q[i] = q[1] + i - 1 /\ q[i] > 0 /\ q[i] \in AS!ToSet(ring) \cup {sent + 1}
  <2> SUFFICES ASSUME NEW i \in 1..Len(q)
               PROVE  q[i] = q[1] + i - 1 /\ q[i] > 0 /\ q[i] \in AS!ToSet(ring) \cup {sent + 1}
    OBVIOUS
  <2>1. CASE i = Len(ring) + 1
    BY <1>4, <1>6, <2>1
  <2>2. CASE i # Len(ring) + 1
    <3>1. i \in 1..Len(ring) /\ 1 \in 1..Len(ring)
      BY <1>1, <1>4, <2>2
    <3> QED BY <1>1, <1>4, <3>1
  <2> QED BY <2>1, <2>2
<1>8. Run(q)
  BY <1>4, <1>7 DEF Run
<1>9. AS!ToSet(q) \subseteq AS!ToSet(ring) \cup {sent + 1}
  <2>1. \A s \in AS!ToSet(q) : \E i \in 1..Len(q) : q[i] = s
    BY <1>8, RunFacts
  <2> QED BY <1>7, <2>1
<1>10. AS!Add(sent + 1) = AS!Last50(q)
  BY <1>3 DEF AS!Add, q
<1>11. Kept \in Nat /\ Kept # 0
  BY ShowsAreBounded
<1>12. CASE Len(q) <= Kept
  <2>1. AS!Add(sent + 1) = q
    BY <1>10, <1>12 DEF AS!Last50
  <2> QED BY <1>3, <1>4, <1>8, <1>9, <2>1
<1>13. CASE ~(Len(q) <= Kept)
  <2> DEFINE m == Len(q) - Kept + 1
             t == SubSeq(q, m, Len(q))
  <2>1. AS!Add(sent + 1) = t
    BY <1>10, <1>13 DEF AS!Last50
  <2>2. m \in 1..Len(q) + 1 /\ Len(q) - m + 1 = Kept
    BY <1>1, <1>4, <1>11, <1>13
  <2> HIDE DEF m
  <2>3. /\ Run(t) /\ Len(t) = Kept /\ AS!ToSet(t) \subseteq AS!ToSet(q)
        /\ \A i \in 1..Kept : t[i] = q[m + i - 1]
    BY <1>8, <2>2, RunFrom
  <2>4. t[Kept] = q[Len(q)]
    <3>1. Kept \in 1..Kept
      BY <1>11
    <3>2. m + Kept - 1 = Len(q)
      BY <1>1, <1>4, <1>11 DEF m
    <3> QED BY <2>3, <3>1, <3>2
  <2> HIDE DEF t
  <2> QED BY <1>3, <1>4, <1>9, <2>1, <2>3, <2>4
<1> QED BY <1>12, <1>13

\* What recent() answers to a cursor that is no later than the last show.
LEMMA RecentAnswers ==
  ASSUME Run(ring), sent \in Nat, ring # <<>> => ring[Len(ring)] = sent,
         cursor \in Nat, cursor <= sent
  PROVE  Answers(AS!Recent(cursor), cursor, sent, ring)
<1>1. /\ ring \in Seq(Nat) /\ Len(ring) \in Nat /\ DOMAIN ring = 1..Len(ring)
      /\ \A i \in 1..Len(ring) : ring[i] \in Nat /\ ring[i] = ring[1] + i - 1 /\ ring[i] > 0
      /\ \A s \in AS!ToSet(ring) : \E i \in 1..Len(ring) : ring[i] = s
      /\ \A i \in 1..Len(ring) : ring[i] \in AS!ToSet(ring)
      /\ \A s \in AS!ToSet(ring) : s \in Nat /\ s > 0 /\ ring[1] <= s /\ s <= ring[Len(ring)]
      /\ \A s \in Nat : ring # <<>> /\ ring[1] <= s /\ s <= ring[Len(ring)] => s \in AS!ToSet(ring)
  BY RunFacts
<1>2. \A s \in AS!ToSet(ring) : s \in Nat /\ s <= sent /\ ring # <<>>
  BY <1>1
<1>3. CASE cursor \notin AS!ToSet(ring)
  <2>1. AS!Recent(cursor) = ring
    BY <1>3 DEF AS!Recent
  <2>2. \A i \in 1..Len(ring) : cursor < ring[i] /\ ring[i] <= sent
    <3> SUFFICES ASSUME NEW i \in 1..Len(ring) PROVE cursor < ring[i] /\ ring[i] <= sent
      OBVIOUS
    <3>1. ring[i] \in Nat /\ ring[i] <= sent /\ ring # <<>> /\ ring[1] <= ring[i]
      BY <1>1, <1>2
    <3>2. ring[1] \in Nat /\ ring[Len(ring)] = sent
      BY <1>1, <3>1
    <3>3. ~(ring[1] <= cursor)
      BY <1>1, <1>3, <3>1, <3>2
    <3> QED BY <3>1, <3>2, <3>3
  <2> QED BY <2>1, <2>2 DEF Answers
<1>4. CASE cursor \in AS!ToSet(ring)
  <2> DEFINE k == CHOOSE i \in DOMAIN ring : ring[i] = cursor
             t == SubSeq(ring, k + 1, Len(ring))
  <2>1. k \in 1..Len(ring) /\ ring[k] = cursor
    BY <1>1, <1>4
  <2>2. AS!Recent(cursor) = t
    BY <1>4 DEF AS!Recent
  <2> HIDE DEF k
  <2>3. k + 1 \in 1..Len(ring) + 1 /\ Len(ring) - (k + 1) + 1 = Len(ring) - k
    BY <1>1, <2>1
  <2>4. /\ Run(t) /\ Len(t) = Len(ring) - k /\ AS!ToSet(t) \subseteq AS!ToSet(ring)
        /\ \A i \in 1..Len(ring) - k : t[i] = ring[k + 1 + i - 1]
    BY <2>3, RunFrom
  <2> HIDE DEF t
  <2>5. \A i \in 1..Len(t) : t[i] \in AS!ToSet(t)
    BY <2>4, RunFacts
  <2>6. \A i \in 1..Len(t) : cursor < t[i] /\ t[i] <= sent
    <3> SUFFICES ASSUME NEW i \in 1..Len(t) PROVE cursor < t[i] /\ t[i] <= sent
      OBVIOUS
    <3>1. /\ i \in 1..Len(ring) - k /\ i \in Nat /\ k \in Nat /\ k + i \in 1..Len(ring)
          /\ 1 \in 1..Len(ring)
      BY <1>1, <2>1, <2>4
    <3>2. t[i] = ring[k + i] /\ ring[k + i] = ring[1] + (k + i) - 1 /\ ring[k] = ring[1] + k - 1
          /\ ring[1] \in Nat
      <4>1. k + 1 + i - 1 = k + i
        BY <3>1
      <4> QED BY <1>1, <2>1, <2>4, <3>1, <4>1
    <3>3. i > 0
      BY <3>1
    <3>4. t[i] \in AS!ToSet(ring)
      BY <2>4, <2>5
    <3> QED BY <1>2, <2>1, <3>1, <3>2, <3>3, <3>4
  <2>7. \A s \in AS!ToSet(ring) : cursor < s => s \in AS!ToSet(t)
    <3> SUFFICES ASSUME NEW s \in AS!ToSet(ring), cursor < s PROVE s \in AS!ToSet(t)
      OBVIOUS
    <3>1. PICK j \in 1..Len(ring) : ring[j] = s
      BY <1>1
    <3>2. 1 \in 1..Len(ring) /\ j \in Nat /\ k \in Nat
      BY <1>1, <2>1, <3>1
    <3>3. ring[1] \in Nat /\ ring[j] = ring[1] + j - 1 /\ ring[k] = ring[1] + k - 1
      BY <1>1, <2>1, <3>2
    <3>4. j > k
      BY <2>1, <3>1, <3>2, <3>3
    <3>5. j - k \in 1..Len(ring) - k /\ k + 1 + (j - k) - 1 = j
      BY <1>1, <3>1, <3>2, <3>4
    <3>6. t[j - k] = s /\ j - k \in 1..Len(t)
      BY <2>4, <3>1, <3>5
    <3> QED BY <2>5, <3>6
  <2> QED BY <2>2, <2>4, <2>6, <2>7 DEF Answers
<1> QED BY <1>3, <1>4

\* AgentShows counts with the Cardinality of its own instance of FiniteSets.
LEMMA CardinalityOfShows == ASSUME NEW S PROVE AS!Cardinality(S) = Cardinality(S)
  BY DEF AS!Cardinality, Cardinality

\* What a sequence has at some of its places is of it, and no longer.
LEMMA PlacedIn ==
  ASSUME NEW C, NEW q \in Seq(C), NEW places, places \subseteq 1..Len(q)
  PROVE  /\ AS!At(q, places) \in Seq(C) /\ Len(AS!At(q, places)) <= Len(q)
         /\ \A n \in 1..Len(AS!At(q, places)) : \E j \in places : AS!At(q, places)[n] = q[j]
<1> DEFINE Nth(n) == CHOOSE i \in places : AS!Cardinality({j \in places : j <= i}) = n
           N == Cardinality(places)
           t == [n \in 1..N |-> q[Nth(n)]]
<1>1. Len(q) \in Nat /\ IsFiniteSet(1..Len(q)) /\ Cardinality(1..Len(q)) = Len(q)
  BY FS_Interval
<1>2. N \in Nat /\ N <= Len(q)
  <2>1. IsFiniteSet(places) /\ Cardinality(places) <= Cardinality(1..Len(q))
    BY <1>1, FS_Subset
  <2> QED BY <1>1, <2>1, FS_CardinalityType
<1>3. AS!At(q, places) = t
  BY CardinalityOfShows DEF AS!At
<1>4. \A n \in 1..N : Nth(n) \in places
  <2> SUFFICES ASSUME NEW n \in 1..N PROVE Nth(n) \in places
    OBVIOUS
  <2>1. \E i \in places : Cardinality({j \in places : j <= i}) = n
    <3>1. n \in 1..Cardinality(places)
      OBVIOUS
    <3>2. \E i \in places : Cardinality(UpTo(places, i)) = n
      BY <1>1, <3>1, NthOf
    <3> QED BY <3>2 DEF UpTo
  <2>2. \E i \in places : AS!Cardinality({j \in places : j <= i}) = n
    BY <2>1, CardinalityOfShows
  <2> QED BY <2>2
<1> HIDE DEF Nth, N
<1>5. \A n \in 1..N : q[Nth(n)] \in C
  <2>1. \A n \in 1..N : Nth(n) \in 1..Len(q)
    BY <1>4
  <2>2. \A i \in 1..Len(q) : q[i] \in C
    BY ElementOfSeq
  <2> QED BY <2>1, <2>2
<1>6. t \in [1..N -> C]
  BY <1>5
<1>7. t \in Seq(C) /\ Len(t) = N
  BY <1>2, <1>6
<1>8. \A n \in 1..N : t[n] = q[Nth(n)]
  OBVIOUS
<1> HIDE DEF t
<1> QED BY <1>2, <1>3, <1>4, <1>7, <1>8

\* A Set has what the sequence has, and no more of it.
LEMMA DistinctOf ==
  ASSUME NEW C, NEW q \in Seq(C)
  PROVE  /\ AS!Distinct(q) \in Seq(C) /\ Len(AS!Distinct(q)) <= Len(q)
         /\ \A n \in 1..Len(AS!Distinct(q)) : \E j \in 1..Len(q) : AS!Distinct(q)[n] = q[j]
<1> DEFINE firsts == {i \in DOMAIN q : \A j \in DOMAIN q : j < i => q[j] # q[i]}
<1>1. AS!Distinct(q) = AS!At(q, firsts)
  BY DEF AS!Distinct
<1>2. firsts \subseteq 1..Len(q)
  OBVIOUS
<1> HIDE DEF firsts
<1>3. /\ AS!At(q, firsts) \in Seq(C) /\ Len(AS!At(q, firsts)) <= Len(q)
      /\ \A n \in 1..Len(AS!At(q, firsts)) : \E j \in firsts : AS!At(q, firsts)[n] = q[j]
  BY <1>2, PlacedIn
<1> QED BY <1>1, <1>2, <1>3

\* At the start the ring is empty, and nothing was sent, known or offered.
LEMMA ShowInit == ASSUME AS!Init PROVE ShowInv
<1>1. /\ sent = 0 /\ ring = <<>> /\ pushed = [s \in AS!Shows |-> 0] /\ cursor = 0
      /\ known = <<>> /\ answer = AS!Idle /\ offered = [s \in AS!Shows |-> 0]
  BY DEF AS!Init, AS!NoShow
<1>2. Run(ring) /\ known \in Seq(Nat) /\ \A i \in 1..Len(known) : known[i] <= cursor
  BY <1>1 DEF Run
<1>3. AS!ToSet(ring) = {}
  BY <1>1 DEF AS!ToSet
<1>4. sent <= MaxShows /\ \A s \in AS!Shows : ~(s <= sent)
  BY <1>1, ShowsAreBounded DEF AS!Shows
<1> QED BY <1>1, <1>2, <1>3, <1>4 DEF ShowInv

\* A new show leaves the answer under way as it was: the new one comes after it.
LEMMA ShowSent == ASSUME ShowInv, AS!AgentSends PROVE ShowInv'
<1>1. /\ sent < MaxShows /\ sent' = sent + 1 /\ ring' = AS!Add(sent + 1)
      /\ pushed' = IF sent + 1 \in AS!ToSet(ring) THEN pushed
                   ELSE [pushed EXCEPT ![sent + 1] = @ + 1]
      /\ cursor' = cursor /\ known' = known /\ answer' = answer /\ offered' = offered
  BY DEF AS!AgentSends, AS!ReceiveShow, AS!browser
<1>2. sent \in Nat /\ cursor \in Nat /\ cursor <= sent
  BY DEF ShowInv
<1>3. Run(ring) /\ (ring # <<>> => ring[Len(ring)] = sent)
  BY DEF ShowInv
<1>4. /\ sent + 1 \notin AS!ToSet(ring) /\ Run(ring') /\ ring'[Len(ring')] = sent + 1
      /\ AS!ToSet(ring') \subseteq AS!ToSet(ring) \cup {sent + 1}
  <2>1. /\ sent + 1 \notin AS!ToSet(ring)
        /\ Run(AS!Add(sent + 1))
        /\ AS!Add(sent + 1)[Len(AS!Add(sent + 1))] = sent + 1
        /\ AS!ToSet(AS!Add(sent + 1)) \subseteq AS!ToSet(ring) \cup {sent + 1}
    BY <1>2, <1>3, RingGrows
  <2> QED BY <1>1, <2>1
<1>5. pushed' = [s \in AS!Shows |-> IF s <= sent' THEN 1 ELSE 0]
  <2>1. \A s \in AS!Shows : s \in Nat /\ (s <= sent + 1 <=> s <= sent \/ s = sent + 1)
    BY <1>2, ShowsAreBounded DEF AS!Shows
  <2>2. pushed = [s \in AS!Shows |-> IF s <= sent THEN 1 ELSE 0] /\ ~(sent + 1 <= sent)
    BY <1>2 DEF ShowInv
  <2>3. pushed' = [pushed EXCEPT ![sent + 1] = @ + 1]
    BY <1>1, <1>4
  <2> QED BY <1>1, <2>1, <2>2, <2>3
<1>6. answer' = AS!Idle \/ Answers(answer', cursor', sent', ring')
  <2> SUFFICES ASSUME answer # AS!Idle PROVE Answers(answer, cursor, sent + 1, ring')
    BY <1>1
  <2>1. Answers(answer, cursor, sent, ring)
    BY DEF ShowInv
  <2>2. Run(answer) /\ \A i \in 1..Len(answer) : cursor < answer[i] /\ answer[i] <= sent
    BY <2>1 DEF Answers
  <2>3. /\ Len(answer) \in Nat /\ \A i \in 1..Len(answer) : answer[i] \in Nat
        /\ answer \in Seq(Nat)
    BY <2>2, RunFacts
  <2>4. \A i \in 1..Len(answer) : cursor < answer[i] /\ answer[i] <= sent + 1
    BY <1>2, <2>2, <2>3
  <2>5. ASSUME answer # <<>>, NEW s \in AS!ToSet(ring'), cursor < s, s <= answer[Len(answer)]
        PROVE  s \in AS!ToSet(answer)
    <3>1. Len(answer) \in 1..Len(answer)
      BY <2>3, <2>5
    <3>2. s # sent + 1
      BY <1>2, <2>2, <2>3, <2>5, <3>1
    <3>3. s \in AS!ToSet(ring)
      BY <1>4, <2>5, <3>2
    <3> QED BY <2>1, <2>5, <3>3 DEF Answers
  <2> QED BY <2>2, <2>4, <2>5 DEF Answers
<1>7. \A s \in AS!Shows : s \in AS!ToSet(ring') /\ s <= cursor' => offered'[s] = 1
  <2>1. ~(sent + 1 <= cursor)
    BY <1>2
  <2>2. \A s \in AS!Shows : s \in AS!ToSet(ring) /\ s <= cursor => offered[s] = 1
    BY DEF ShowInv
  <2> QED BY <1>1, <1>4, <2>1, <2>2
<1>8. sent' \in Nat /\ sent' <= MaxShows /\ cursor' \in Nat /\ cursor' <= sent'
  BY <1>1, <1>2, ShowsAreBounded
<1>9. /\ known' \in Seq(Nat) /\ \A i \in 1..Len(known') : known'[i] <= cursor'
      /\ offered' \in [AS!Shows -> {0, 1}]
      /\ \A s \in AS!Shows : s > cursor' => offered'[s] = 0
  BY <1>1 DEF ShowInv
<1>10. Run(ring') /\ (ring' # <<>> => ring'[Len(ring')] = sent')
  BY <1>1, <1>4
<1> QED BY <1>5, <1>6, <1>7, <1>8, <1>9, <1>10 DEF ShowInv

\* What Tether repeats is in the ring, and is refused.
LEMMA ShowRepeated == ASSUME ShowInv, AS!DeliveredAgain PROVE ShowInv'
<1>1. /\ sent' = sent /\ ring' = ring /\ pushed' = pushed
      /\ cursor' = cursor /\ known' = known /\ answer' = answer /\ offered' = offered
  BY DEF AS!DeliveredAgain, AS!ReceiveShow, AS!Add, AS!browser
<1> QED BY <1>1 DEF ShowInv, Answers, Run

\* A restart empties the ring.
LEMMA ShowRestart == ASSUME ShowInv, AS!Restart PROVE ShowInv'
<1>1. /\ sent' = sent /\ ring' = <<>> /\ pushed' = pushed
      /\ cursor' = cursor /\ known' = known /\ answer' = answer /\ offered' = offered
  BY DEF AS!Restart, AS!browser
<1>2. AS!ToSet(ring') = {} /\ Run(ring')
  BY <1>1 DEF AS!ToSet, Run
<1>3. Answers(answer, cursor, sent, ring) => Answers(answer, cursor, sent, ring')
  BY <1>2 DEF Answers
<1>4. answer' = AS!Idle \/ Answers(answer', cursor', sent', ring')
  BY <1>1, <1>3 DEF ShowInv
<1> QED BY <1>1, <1>2, <1>4 DEF ShowInv

\* A poll is answered with what came after the cursor.
LEMMA ShowPolled == ASSUME ShowInv, AS!Poll PROVE ShowInv'
<1>1. /\ sent' = sent /\ ring' = ring /\ pushed' = pushed /\ answer' = AS!Recent(cursor)
      /\ cursor' = cursor /\ known' = known /\ offered' = offered
  BY DEF AS!Poll, AS!server
<1>2. /\ Run(ring) /\ sent \in Nat /\ (ring # <<>> => ring[Len(ring)] = sent)
      /\ cursor \in Nat /\ cursor <= sent
  BY DEF ShowInv
<1>3. Answers(AS!Recent(cursor), cursor, sent, ring)
  BY <1>2, RecentAnswers
<1>4. Answers(answer', cursor', sent', ring')
  BY <1>1, <1>3
<1>5. Run(ring') /\ (ring' # <<>> => ring'[Len(ring')] = sent')
  BY <1>1, <1>2
<1> HIDE DEF Answers
<1> QED BY <1>1, <1>4, <1>5 DEF ShowInv

\* Where an answer has shows the browser does not know.
Fresh == {i \in DOMAIN answer : answer[i] \notin AS!ToSet(known)}

\* An answer offers each of its shows, and no other, once more.
LEMMA OfferedOnce ==
  ASSUME Run(answer), \A s \in AS!ToSet(answer) : s \notin AS!ToSet(known),
         NEW s \in AS!Shows
  PROVE  AS!Cardinality({i \in Fresh : answer[i] = s})
           = IF s \in AS!ToSet(answer) THEN 1 ELSE 0
<1> DEFINE S == {i \in Fresh : answer[i] = s}
<1>1. /\ DOMAIN answer = 1..Len(answer)
      /\ \A i, j \in 1..Len(answer) : answer[i] = answer[j] => i = j
      /\ \A x \in AS!ToSet(answer) : \E i \in 1..Len(answer) : answer[i] = x
      /\ \A i \in 1..Len(answer) : answer[i] \in AS!ToSet(answer)
  BY RunFacts
<1>2. CASE s \in AS!ToSet(answer)
  <2>1. PICK i \in 1..Len(answer) : answer[i] = s
    BY <1>1, <1>2
  <2>2. S = {i}
    BY <1>1, <1>2, <2>1 DEF Fresh
  <2>3. Cardinality({i}) = 1
    BY FS_Singleton
  <2> QED BY <1>2, <2>2, <2>3, CardinalityOfShows
<1>3. CASE s \notin AS!ToSet(answer)
  <2>1. S = {}
    BY <1>1, <1>3 DEF Fresh
  <2>2. Cardinality({}) = 0
    BY FS_EmptySet
  <2> QED BY <1>3, <2>1, <2>2, CardinalityOfShows
<1> QED BY <1>2, <1>3

\* The set of what the browser saw has only what it knew and what it was answered.
LEMMA KnownNext ==
  ASSUME NEW a \in Seq(Nat), NEW b \in Seq(Nat), NEW e \in Nat,
         \A i \in 1..Len(a) : a[i] <= e, \A i \in 1..Len(b) : b[i] <= e
  PROVE  LET k == AS!Distinct(AS!Last50(a \o b))
         IN  k \in Seq(Nat) /\ \A i \in 1..Len(k) : k[i] <= e
<1> DEFINE c == a \o b
           l == AS!Last50(c)
           k == AS!Distinct(l)
<1>1. c \in Seq(Nat) /\ Len(c) = Len(a) + Len(b)
  OBVIOUS
<1>2. \A i \in 1..Len(c) : c[i] <= e
  <2> SUFFICES ASSUME NEW i \in 1..Len(c) PROVE c[i] <= e
    OBVIOUS
  <2>1. CASE i <= Len(a)
    <3>1. c[i] = a[i] /\ i \in 1..Len(a)
      BY <2>1
    <3> QED BY <3>1
  <2>2. CASE ~(i <= Len(a))
    <3>1. c[i] = b[i - Len(a)] /\ i - Len(a) \in 1..Len(b)
      BY <1>1, <2>2
    <3> QED BY <3>1
  <2> QED BY <2>1, <2>2
<1> HIDE DEF c
<1>3. l \in Seq(Nat) /\ \A i \in 1..Len(l) : \E j \in 1..Len(c) : l[i] = c[j]
  BY <1>1, LastKept
<1> HIDE DEF l
<1>4. k \in Seq(Nat) /\ \A i \in 1..Len(k) : \E j \in 1..Len(l) : k[i] = l[j]
  BY <1>3, DistinctOf
<1> HIDE DEF k
<1>5. \A i \in 1..Len(k) : k[i] <= e
  BY <1>2, <1>3, <1>4
<1> QED BY <1>4, <1>5 DEF k, l, c

\* The answer: what it has is new to the browser, and the cursor goes to its end.
LEMMA ShowAnswered == ASSUME ShowInv, AS!Answered PROVE ShowInv'
<1>1. /\ answer # AS!Idle /\ answer' = AS!Idle
      /\ cursor' = IF answer = <<>> THEN cursor ELSE AS!Last(answer)
      /\ known' = AS!Distinct(AS!Last50(known \o answer))
      /\ offered' = [s \in AS!Shows |->
           offered[s] + AS!Cardinality({i \in Fresh : answer[i] = s})]
      /\ sent' = sent /\ ring' = ring /\ pushed' = pushed
  BY DEF AS!Answered, AS!server, Fresh
<1>2. Answers(answer, cursor, sent, ring)
  BY <1>1 DEF ShowInv
<1>3. /\ sent \in Nat /\ cursor \in Nat /\ cursor <= sent
      /\ known \in Seq(Nat) /\ \A i \in 1..Len(known) : known[i] <= cursor
  BY DEF ShowInv
<1>4. Run(answer) /\ \A i \in 1..Len(answer) : cursor < answer[i] /\ answer[i] <= sent
  BY <1>2 DEF Answers
<1>5. /\ answer \in Seq(Nat) /\ Len(answer) \in Nat
      /\ \A i \in 1..Len(answer) : answer[i] \in Nat
      /\ \A s \in AS!ToSet(answer) : \E i \in 1..Len(answer) : answer[i] = s
      /\ \A i \in 1..Len(answer) : answer[i] \in AS!ToSet(answer)
      /\ \A s \in AS!ToSet(answer) : s \in Nat /\ s <= answer[Len(answer)]
  BY <1>4, RunFacts
<1>6. \A s \in AS!ToSet(answer) : s \notin AS!ToSet(known) /\ cursor < s /\ s <= cursor'
  <2> SUFFICES ASSUME NEW s \in AS!ToSet(answer)
               PROVE  s \notin AS!ToSet(known) /\ cursor < s /\ s <= cursor'
    OBVIOUS
  <2>1. PICK i \in 1..Len(answer) : answer[i] = s
    BY <1>5
  <2>2. cursor < s /\ s \in Nat
    BY <1>4, <1>5, <2>1
  <2>3. \A x \in AS!ToSet(known) : x \in Nat /\ x <= cursor
    BY <1>3 DEF AS!ToSet
  <2>4. answer # <<>>
    BY <1>5, <2>1
  <2>5. cursor' = answer[Len(answer)]
    BY <1>1, <2>4 DEF AS!Last
  <2> QED BY <1>3, <1>5, <2>2, <2>3, <2>5
<1>7. cursor' \in Nat /\ cursor <= cursor' /\ cursor' <= sent
  <2>1. CASE answer = <<>>
    BY <1>1, <1>3, <2>1
  <2>2. CASE answer # <<>>
    <3>1. cursor' = answer[Len(answer)] /\ Len(answer) \in 1..Len(answer)
      BY <1>1, <1>5, <2>2 DEF AS!Last
    <3> QED BY <1>3, <1>4, <1>5, <3>1
  <2> QED BY <2>1, <2>2
<1>8. known' \in Seq(Nat) /\ \A i \in 1..Len(known') : known'[i] <= cursor'
  <2>1. \A i \in 1..Len(known) : known[i] <= cursor'
    <3>1. \A i \in 1..Len(known) : known[i] \in Nat
      BY <1>3
    <3> QED BY <1>3, <1>7, <3>1
  <2>2. \A i \in 1..Len(answer) : answer[i] <= cursor'
    BY <1>5, <1>6
  <2>3. LET k == AS!Distinct(AS!Last50(known \o answer))
        IN  k \in Seq(Nat) /\ \A i \in 1..Len(k) : k[i] <= cursor'
    <3> DEFINE e == cursor'
    <3>1. e \in Nat /\ (\A i \in 1..Len(known) : known[i] <= e) /\ (\A i \in 1..Len(answer) : answer[i] <= e)
      BY <1>7, <2>1, <2>2
    <3> HIDE DEF e
    <3>2. LET k == AS!Distinct(AS!Last50(known \o answer))
          IN  k \in Seq(Nat) /\ \A i \in 1..Len(k) : k[i] <= e
      BY <1>3, <1>5, <3>1, KnownNext
    <3> QED BY <3>2 DEF e
  <2> QED BY <1>1, <2>3
<1>9. /\ offered \in [AS!Shows -> {0, 1}]
      /\ \A s \in AS!Shows : s > cursor => offered[s] = 0
      /\ \A s \in AS!Shows : s \in AS!ToSet(ring) /\ s <= cursor => offered[s] = 1
      /\ \A s \in AS!Shows : s \in Nat
  BY DEF ShowInv, AS!Shows
<1>10. \A s \in AS!Shows : offered'[s] = IF s \in AS!ToSet(answer) THEN 1 ELSE offered[s]
  <2> SUFFICES ASSUME NEW s \in AS!Shows
               PROVE  offered'[s] = IF s \in AS!ToSet(answer) THEN 1 ELSE offered[s]
    OBVIOUS
  <2> DEFINE n == AS!Cardinality({i \in Fresh : answer[i] = s})
  <2>1. n = IF s \in AS!ToSet(answer) THEN 1 ELSE 0
    BY <1>4, <1>6, OfferedOnce
  <2>2. offered'[s] = offered[s] + n
    BY <1>1
  <2> HIDE DEF n
  <2>3. s \in AS!ToSet(answer) => offered[s] = 0
    BY <1>3, <1>6, <1>9
  <2>4. offered[s] \in {0, 1}
    BY <1>9
  <2> QED BY <2>1, <2>2, <2>3, <2>4
<1>11. offered' \in [AS!Shows -> {0, 1}]
  <2>1. offered' = [s \in AS!Shows |-> offered'[s]]
    BY <1>1
  <2>2. \A s \in AS!Shows : offered'[s] \in {0, 1}
    BY <1>9, <1>10
  <2> QED BY <2>1, <2>2
<1>12. \A s \in AS!Shows : s > cursor' => offered'[s] = 0
  <2> SUFFICES ASSUME NEW s \in AS!Shows, s > cursor' PROVE offered'[s] = 0
    OBVIOUS
  <2>1. s \in Nat /\ s > cursor /\ ~(s <= cursor')
    BY <1>3, <1>7, <1>9
  <2>2. s \notin AS!ToSet(answer)
    BY <1>6, <2>1
  <2> QED BY <1>9, <1>10, <2>1, <2>2
<1>13. \A s \in AS!Shows : s \in AS!ToSet(ring') /\ s <= cursor' => offered'[s] = 1
  <2> SUFFICES ASSUME NEW s \in AS!Shows, s \in AS!ToSet(ring), s <= cursor'
               PROVE  offered'[s] = 1
    BY <1>1
  <2>1. CASE s <= cursor
    BY <1>9, <1>10, <2>1
  <2>2. CASE ~(s <= cursor)
    <3>1. cursor < s /\ s \in Nat
      BY <1>3, <1>9, <2>2
    <3>2. answer # <<>> /\ cursor' = answer[Len(answer)]
      BY <1>1, <1>3, <2>2 DEF AS!Last
    <3>3. s \in AS!ToSet(answer)
      BY <1>2, <3>1, <3>2 DEF Answers
    <3> QED BY <1>10, <3>3
  <2> QED BY <2>1, <2>2
<1>14. /\ sent' \in Nat /\ sent' <= MaxShows /\ cursor' <= sent' /\ Run(ring') /\ (ring' # <<>> => ring'[Len(ring')] = sent')
       /\ pushed' = [s \in AS!Shows |-> IF s <= sent' THEN 1 ELSE 0]
  BY <1>1, <1>3, <1>7 DEF ShowInv
<1> QED BY <1>1, <1>7, <1>8, <1>11, <1>12, <1>13, <1>14 DEF ShowInv

\* What the user and a failed request do leaves all of it alone, but for the answer.
LEMMA ShowSteps == ASSUME ShowInv, [AS!Next]_(AS!vars) PROVE ShowInv'
<1>1. ASSUME AS!PollFails PROVE ShowInv'
  <2>1. /\ sent' = sent /\ ring' = ring /\ pushed' = pushed /\ answer' = AS!Idle
        /\ cursor' = cursor /\ known' = known /\ offered' = offered
    BY <1>1 DEF AS!PollFails, AS!server
  <2>2. Run(ring') /\ (ring' # <<>> => ring'[Len(ring')] = sent')
    BY <2>1 DEF ShowInv
  <2> QED BY <2>1, <2>2 DEF ShowInv
<1>2. ASSUME AS!Dismiss \/ AS!HideOrShow \/ UNCHANGED AS!vars PROVE ShowInv'
  <2>1. /\ sent' = sent /\ ring' = ring /\ pushed' = pushed /\ answer' = answer
        /\ cursor' = cursor /\ known' = known /\ offered' = offered
    BY <1>2 DEF AS!Dismiss, AS!HideOrShow, AS!server, AS!vars
  <2> QED BY <2>1 DEF ShowInv, Answers, Run
<1> QED BY <1>1, <1>2, ShowSent, ShowRepeated, ShowRestart, ShowPolled, ShowAnswered DEF AS!Next

\* A step of the run is one of the shows or leaves them alone.
LEMMA ShowLift ==
  /\ ServerInit => ShowInv
  /\ [ServerNext]_ServerVars => [AS!Next]_(AS!vars)
<1>1. ServerInit => ShowInv
  BY ShowInit DEF ServerInit
<1>2. [ServerNext]_ServerVars => [AS!Next]_(AS!vars)
  BY DEF ServerNext, ServerVars, shows, AS!vars
<1> QED BY <1>1, <1>2

\* A show is put before the user and pushed to the phone at most once, through any polls,
\* repeats and restarts, and the cursor never passes one the ring has that was not offered
\* (use-agent-shows.ts, poll; api/shows.py, ShowStore; services/shows.py, receive_show).
THEOREM ShownToUserOnce == ServerSpec => []ShownOnce
<1>1. ServerInit => ShowInv
  BY ShowLift
<1>2. ShowInv /\ [ServerNext]_ServerVars => ShowInv'
  BY ShowLift, ShowSteps
<1>3. ShowInv => ShownOnce
  <2> SUFFICES ASSUME ShowInv PROVE AS!ShownOnce
    BY DEF ShownOnce
  <2>1. /\ offered \in [AS!Shows -> {0, 1}]
        /\ pushed = [s \in AS!Shows |-> IF s <= sent THEN 1 ELSE 0]
        /\ \A s \in AS!Shows : s \in AS!ToSet(ring) /\ s <= cursor => offered[s] = 1
    BY DEF ShowInv
  <2>2. \A s \in AS!Shows : offered[s] <= 1 /\ pushed[s] <= 1
    BY <2>1
  <2>3. AS!ToSet(ring) \subseteq AS!Shows
    <3>1. Run(ring) /\ sent \in Nat /\ sent <= MaxShows /\ (ring # <<>> => ring[Len(ring)] = sent)
      BY DEF ShowInv
    <3>2. \A s \in AS!ToSet(ring) : s \in Nat /\ s > 0 /\ s <= ring[Len(ring)]
      BY <3>1, RunFacts
    <3>3. ring = <<>> => AS!ToSet(ring) = {}
      BY DEF AS!ToSet
    <3> QED BY <3>1, <3>2, <3>3, ShowsAreBounded DEF AS!Shows
  <2> QED BY <2>1, <2>2, <2>3 DEF AS!ShownOnce
<1> QED BY <1>1, <1>2, <1>3, PTL DEF ServerSpec

-------------------------------------------------------------------------------
(***************************************************************************)
(* OutputBatch: no character is lost, doubled or replaced.                 *)
(***************************************************************************)

\* The recursion of Shown: one value for each start of the text.
LEMMA ShownDef ==
  ASSUME NEW C, NEW s \in Seq(C)
  PROVE  \E g \in [0..Len(s) -> Seq(C)] :
           /\ g[0] = <<>> /\ OB!Shown(s) = g[Len(s)]
           /\ \A n \in 1..Len(s) : g[n] = IF s[n] \in OB!Lead THEN g[n - 1] ELSE Append(g[n - 1], s[n])
<1> DEFINE T == Seq(C)
           step == [p \in T \X C |-> IF p[2] \in OB!Lead THEN p[1] ELSE Append(p[1], p[2])]
           Is(f) == f = [n \in 0..Len(s) |->
                          IF n = 0 THEN <<>>
                          ELSE IF s[n] \in OB!Lead THEN f[n - 1]
                          ELSE Append(f[n - 1], s[n])]
           f == CHOOSE x : Is(x)
<1>1. OB!Shown(s) = f[Len(s)]
  BY DEF OB!Shown
<1>2. <<>> \in T /\ step \in [T \X C -> T]
  OBVIOUS
<1>3. PICK g \in [0..Len(s) -> T] :
        g[0] = <<>> /\ \A n \in 1..Len(s) : g[n] = step[<<g[n - 1], s[n]>>]
  <2> HIDE DEF T, step, f
  <2>1. \E g : Computes(g, T, <<>>, step, s)
    BY <1>2, Recursion
  <2> QED BY <2>1 DEF Computes
<1>4. \A n \in 1..Len(s) : g[n] = IF s[n] \in OB!Lead THEN g[n - 1] ELSE Append(g[n - 1], s[n])
  <2> SUFFICES ASSUME NEW n \in 1..Len(s)
               PROVE  g[n] = IF s[n] \in OB!Lead THEN g[n - 1] ELSE Append(g[n - 1], s[n])
    OBVIOUS
  <2>1. n - 1 \in 0..Len(s) /\ s[n] \in C
    OBVIOUS
  <2>2. <<g[n - 1], s[n]>> \in T \X C
    BY <1>3, <2>1
  <2>3. step[<<g[n - 1], s[n]>>] = IF s[n] \in OB!Lead THEN g[n - 1] ELSE Append(g[n - 1], s[n])
    BY <2>2
  <2> QED BY <1>3, <2>3
<1>5. Is(g)
  <2> DEFINE e(n) == IF n = 0 THEN <<>>
                     ELSE IF s[n] \in OB!Lead THEN g[n - 1] ELSE Append(g[n - 1], s[n])
  <2>1. \A n \in 0..Len(s) : g[n] = e(n)
    <3> SUFFICES ASSUME NEW n \in 0..Len(s) PROVE g[n] = e(n)
      OBVIOUS
    <3>1. CASE n = 0
      BY <1>3, <3>1
    <3>2. CASE n # 0
      <4>1. n \in 1..Len(s)
        BY <3>2
      <4> QED BY <1>4, <3>2, <4>1
    <3> QED BY <3>1, <3>2
  <2>2. g = [n \in 0..Len(s) |-> g[n]]
    BY <1>3
  <2> HIDE DEF e
  <2>3. g = [n \in 0..Len(s) |-> e(n)]
    BY <2>1, <2>2
  <2> QED BY <2>3 DEF e
<1>6. Is(f)
  BY <1>5
<1>7. /\ f[0] = <<>>
      /\ \A n \in 1..Len(s) : f[n] = IF s[n] \in OB!Lead THEN f[n - 1] ELSE Append(f[n - 1], s[n])
  <2> HIDE DEF f
  <2>1. f = [n \in 0..Len(s) |->
               IF n = 0 THEN <<>>
               ELSE IF s[n] \in OB!Lead THEN f[n - 1] ELSE Append(f[n - 1], s[n])]
    BY <1>6
  <2> HIDE DEF Is
  <2>2. Len(s) \in Nat /\ \A n \in 1..Len(s) : n \in 0..Len(s) /\ n # 0
    OBVIOUS
  <2>3. f[0] = <<>>
    BY <2>1, <2>2
  <2>4. ASSUME NEW n \in 1..Len(s)
        PROVE  f[n] = IF s[n] \in OB!Lead THEN f[n - 1] ELSE Append(f[n - 1], s[n])
    <3>1. n \in 0..Len(s) /\ n # 0
      BY <2>2
    <3> QED BY <2>1, <3>1
  <2> QED BY <2>3, <2>4
<1>8. \A n \in 0..Len(s) : g[n] = f[n]
  <2> DEFINE Apart == {n \in 0..Len(s) : g[n] # f[n]}
  <2> SUFFICES ASSUME Apart # {} PROVE FALSE
    OBVIOUS
  <2>1. PICK n \in Apart : \A k \in Apart : n <= k
    <3>1. Apart \subseteq Nat
      OBVIOUS
    <3> HIDE DEF Apart
    <3> QED BY <3>1, LeastNat
  <2> HIDE DEF f, step
  <2>2. n \in 1..Len(s) /\ n - 1 \in 0..Len(s) /\ ~(n <= n - 1)
    BY <1>3, <1>7, <2>1
  <2>3. g[n - 1] = f[n - 1]
    BY <2>1, <2>2
  <2> QED BY <1>4, <1>7, <2>1, <2>2, <2>3
<1>9. OB!Shown(s) = g[Len(s)]
  <2>1. Len(s) \in 0..Len(s)
    OBVIOUS
  <2> QED BY <1>1, <1>8, <2>1
<1> QED BY <1>3, <1>4, <1>9

\* What is seen of no bytes, and of one more.
LEMMA ShownEmpty == OB!Shown(<<>>) = <<>>
<1>1. <<>> \in Seq({}) /\ Len(<<>>) = 0
  OBVIOUS
<1>2. PICK g \in [0..Len(<<>>) -> Seq({})] : g[0] = <<>> /\ OB!Shown(<<>>) = g[Len(<<>>)]
  BY <1>1, ShownDef
<1> QED BY <1>1, <1>2

\* What is seen with one byte more.
LEMMA ShownAppend ==
  ASSUME NEW C, NEW s \in Seq(C), NEW c \in C
  PROVE  /\ OB!Shown(s) \in Seq(C)
         /\ OB!Shown(Append(s, c)) = IF c \in OB!Lead THEN OB!Shown(s) ELSE Append(OB!Shown(s), c)
<1> DEFINE t == Append(s, c)
<1>1. /\ t \in Seq(C) /\ Len(s) \in Nat /\ Len(t) = Len(s) + 1 /\ t[Len(t)] = c
      /\ \A n \in 1..Len(s) : t[n] = s[n]
  OBVIOUS
<1> HIDE DEF t
<1>2. PICK g \in [0..Len(s) -> Seq(C)] :
        /\ g[0] = <<>> /\ OB!Shown(s) = g[Len(s)]
        /\ \A n \in 1..Len(s) : g[n] = IF s[n] \in OB!Lead THEN g[n - 1] ELSE Append(g[n - 1], s[n])
  BY ShownDef
<1>3. PICK h \in [0..Len(t) -> Seq(C)] :
        /\ h[0] = <<>> /\ OB!Shown(t) = h[Len(t)]
        /\ \A n \in 1..Len(t) : h[n] = IF t[n] \in OB!Lead THEN h[n - 1] ELSE Append(h[n - 1], t[n])
  BY <1>1, ShownDef
<1>4. \A n \in 0..Len(s) : g[n] = h[n]
  <2> DEFINE Apart == {n \in 0..Len(s) : g[n] # h[n]}
  <2> SUFFICES ASSUME Apart # {} PROVE FALSE
    OBVIOUS
  <2>1. PICK n \in Apart : \A k \in Apart : n <= k
    <3>1. Apart \subseteq Nat
      OBVIOUS
    <3> HIDE DEF Apart
    <3> QED BY <3>1, LeastNat
  <2>2. n \in 1..Len(s) /\ n - 1 \in 0..Len(s) /\ ~(n <= n - 1) /\ n \in 1..Len(t)
    BY <1>1, <1>2, <1>3, <2>1
  <2>3. g[n - 1] = h[n - 1] /\ t[n] = s[n]
    BY <1>1, <2>1, <2>2
  <2> QED BY <1>2, <1>3, <2>1, <2>2, <2>3
<1>5. Len(t) \in 1..Len(t) /\ Len(t) - 1 = Len(s) /\ Len(s) \in 0..Len(s)
  BY <1>1
<1>6. h[Len(t) - 1] = OB!Shown(s) /\ OB!Shown(s) \in Seq(C)
  BY <1>2, <1>4, <1>5
<1>7. OB!Shown(t) = IF c \in OB!Lead THEN OB!Shown(s) ELSE Append(OB!Shown(s), c)
  BY <1>1, <1>3, <1>5, <1>6
<1> QED BY <1>6, <1>7 DEF t

\* What is seen of a text and another after it.
LEMMA ShownConcat ==
  ASSUME NEW C, NEW s \in Seq(C), NEW t \in Seq(C)
  PROVE  /\ OB!Shown(s \o t) = OB!Shown(s) \o OB!Shown(t)
         /\ OB!Shown(s) \in Seq(C)
<1> DEFINE Begin(n) == SubSeq(t, 1, n)
           Holds2(n) == OB!Shown(s \o Begin(n)) = OB!Shown(s) \o OB!Shown(Begin(n))
           Apart == {n \in 0..Len(t) : ~Holds2(n)}
<1>0. OB!Shown(s) \in Seq(C)
  <2>1. CASE s = <<>>
    BY <2>1, ShownEmpty
  <2>2. CASE s # <<>>
    <3>1. \E c \in C : TRUE
      <4>1. s[1] \in C
        BY <2>2
      <4> QED BY <4>1
    <3> QED BY <3>1, ShownAppend
  <2> QED BY <2>1, <2>2
<1>1. Begin(0) = <<>> /\ s \o <<>> = s
  OBVIOUS
<1>2. Holds2(0)
  <2>1. OB!Shown(s) \o <<>> = OB!Shown(s)
    BY <1>0
  <2> QED BY <1>1, <2>1, ShownEmpty
<1>3. ASSUME NEW n \in 1..Len(t), Holds2(n - 1) PROVE Holds2(n)
  <2>1. /\ Begin(n - 1) \in Seq(C) /\ t[n] \in C /\ Begin(n) = Append(Begin(n - 1), t[n])
    OBVIOUS
  <2>2. s \o Begin(n) = Append(s \o Begin(n - 1), t[n]) /\ s \o Begin(n - 1) \in Seq(C)
    <3> HIDE DEF Begin
    <3> QED BY <2>1
  <2>3. OB!Shown(Begin(n - 1)) \in Seq(C)
    BY <2>1, ShownAppend
  <2>4. OB!Shown(s \o Begin(n)) = IF t[n] \in OB!Lead THEN OB!Shown(s \o Begin(n - 1))
                                  ELSE Append(OB!Shown(s \o Begin(n - 1)), t[n])
    BY <2>1, <2>2, ShownAppend
  <2>5. OB!Shown(Begin(n)) = IF t[n] \in OB!Lead THEN OB!Shown(Begin(n - 1))
                             ELSE Append(OB!Shown(Begin(n - 1)), t[n])
    BY <2>1, ShownAppend
  <2>6. Append(OB!Shown(s) \o OB!Shown(Begin(n - 1)), t[n])
          = OB!Shown(s) \o Append(OB!Shown(Begin(n - 1)), t[n])
    <3>1. LastOfBoth(OB!Shown(s), OB!Shown(Begin(n - 1)), t[n])
      <4> HIDE DEF Begin
      <4> QED BY <1>0, <2>1, <2>3, AppendLast
    <3> QED BY <3>1 DEF LastOfBoth
  <2> QED BY <1>3, <2>4, <2>5, <2>6
<1> HIDE DEF Holds2
<1>4. Apart = {}
  <2> SUFFICES ASSUME Apart # {} PROVE FALSE
    OBVIOUS
  <2>1. PICK n \in Apart : \A k \in Apart : n <= k
    <3>1. Apart \subseteq Nat
      OBVIOUS
    <3> HIDE DEF Apart
    <3> QED BY <3>1, LeastNat
  <2>2. n \in 1..Len(t) /\ n - 1 \in 0..Len(t) /\ ~(n <= n - 1)
    BY <1>2, <2>1
  <2> QED BY <1>3, <2>1, <2>2
<1>5. Holds2(Len(t)) /\ Begin(Len(t)) = t
  <2>1. Len(t) \in 0..Len(t)
    OBVIOUS
  <2> QED BY <1>4, <2>1
<1> QED BY <1>0, <1>5 DEF Holds2

\* Nothing is seen of what only begins a character.
LEMMA ShownLead ==
  ASSUME NEW s \in Seq(OB!Lead)
  PROVE  OB!Shown(s) = <<>>
<1>1. PICK g \in [0..Len(s) -> Seq(OB!Lead)] :
        /\ g[0] = <<>> /\ OB!Shown(s) = g[Len(s)]
        /\ \A n \in 1..Len(s) :
             g[n] = IF s[n] \in OB!Lead THEN g[n - 1] ELSE Append(g[n - 1], s[n])
  BY ShownDef
<1> DEFINE Apart == {n \in 0..Len(s) : g[n] # <<>>}
<1>2. Apart = {}
  <2> SUFFICES ASSUME Apart # {} PROVE FALSE
    OBVIOUS
  <2>1. PICK n \in Apart : \A k \in Apart : n <= k
    <3>1. Apart \subseteq Nat
      OBVIOUS
    <3> HIDE DEF Apart
    <3> QED BY <3>1, LeastNat
  <2>2. n \in 1..Len(s) /\ n - 1 \in 0..Len(s) /\ ~(n <= n - 1) /\ s[n] \in OB!Lead
    BY <1>1, <2>1
  <2> QED BY <1>1, <2>1, <2>2
<1>3. Len(s) \in 0..Len(s)
  OBVIOUS
<1> QED BY <1>1, <1>2, <1>3

\* A place of a text where no character is under way.
Between(w, p) == p = 0 \/ w[p] \in OB!Single \cup {"u4"}

\* The four bytes of a long character are themselves only.
LEMMA LongBytes ==
  /\ OB!Long[1] = "u1" /\ OB!Long[2] = "u2" /\ OB!Long[3] = "u3" /\ OB!Long[4] = "u4"
  /\ Len(OB!Long) = 4 /\ OB!Long \in Seq(OB!Bytes)
  /\ \A k, l \in 1..4 : OB!Long[k] = OB!Long[l] => k = l
  /\ \A k \in 1..4 : OB!Long[k] \in OB!Bytes /\ OB!Long[k] \notin OB!Single
  /\ \A k \in 1..3 : OB!Long[k] \in OB!Lead
  /\ \A b \in OB!Bytes : b \in OB!Single \/ \E k \in 1..4 : b = OB!Long[k]
<1> DEFINE L == OB!Long
<1>1. /\ L[1] = "u1" /\ L[2] = "u2" /\ L[3] = "u3" /\ L[4] = "u4"
      /\ Len(L) = 4 /\ L \in Seq(OB!Bytes)
  BY DEF OB!Long, OB!Bytes, OB!Single
<1>2. \A k \in 1..4 : k = 1 \/ k = 2 \/ k = 3 \/ k = 4
  OBVIOUS
<1>3. \A k \in 1..3 : k = 1 \/ k = 2 \/ k = 3
  OBVIOUS
<1>4. 1 \in 1..4 /\ 2 \in 1..4 /\ 3 \in 1..4 /\ 4 \in 1..4
  OBVIOUS
<1> HIDE DEF L
<1>5. \A k, l \in 1..4 : L[k] = L[l] => k = l
  BY <1>1, <1>2
<1>6. \A k \in 1..4 : L[k] \in OB!Bytes /\ L[k] \notin OB!Single
  BY <1>1, <1>2 DEF OB!Bytes, OB!Single
<1>7. \A k \in 1..3 : L[k] \in OB!Lead
  BY <1>1, <1>3 DEF OB!Lead
<1>8. \A b \in OB!Bytes : b \in OB!Single \/ \E k \in 1..4 : b = L[k]
  BY <1>1, <1>4 DEF OB!Bytes
<1> QED BY <1>1, <1>5, <1>6, <1>7, <1>8 DEF L

\* In valid text a character begins where none is under way, and goes on in order.
LEMMA ValidFacts ==
  ASSUME NEW w \in Seq(OB!Bytes), OB!Valid(w), NEW i \in 1..Len(w)
  PROVE  /\ w[i] \in OB!Single \cup {"u1"} => i = 1 \/ Between(w, i - 1)
         /\ \A k \in 1..3 : w[i] = OB!Long[k + 1] => i > 1 /\ w[i - 1] = OB!Long[k]
         /\ \A k \in 1..3 : i > 1 /\ w[i - 1] = OB!Long[k] => w[i] = OB!Long[k + 1]
         /\ (i = 1 \/ Between(w, i - 1)) => w[i] \in OB!Single \cup {"u1"}
<1>1. IF i = 1 \/ w[i - 1] \in OB!Single \cup {"u4"}
      THEN w[i] \in OB!Single \cup {"u1"}
      ELSE \E k \in 1..3 : w[i - 1] = OB!Long[k] /\ w[i] = OB!Long[k + 1]
  <2>1. OB!Follows(w, i)
    BY DEF OB!Valid
  <2> QED BY <2>1 DEF OB!Follows
<1>2. /\ OB!Long[1] = "u1" /\ OB!Long[4] = "u4"
      /\ \A k, l \in 1..4 : OB!Long[k] = OB!Long[l] => k = l
      /\ \A k \in 1..4 : OB!Long[k] \notin OB!Single
  BY LongBytes
<1>3. \A k \in 1..3 : k \in 1..4 /\ k + 1 \in 1..4 /\ k + 1 # 1 /\ k # 4
  OBVIOUS
<1>4. 1 \in 1..4 /\ 4 \in 1..4 /\ \A k, l \in 1..3 : k + 1 = l + 1 => k = l
  OBVIOUS
<1>5. i \in Nat /\ i >= 1 /\ (i # 1 => i > 1) /\ (i - 1 = 0 => i = 1)
  OBVIOUS
<1>6. CASE i = 1 \/ w[i - 1] \in OB!Single \cup {"u4"}
  <2>1. w[i] \in OB!Single \cup {"u1"} /\ (i = 1 \/ Between(w, i - 1))
    BY <1>1, <1>6 DEF Between
  <2>2. \A k \in 1..3 : w[i] # OB!Long[k + 1]
    BY <1>2, <1>3, <1>4, <2>1
  <2>3. \A k \in 1..3 : ~(i > 1 /\ w[i - 1] = OB!Long[k])
    BY <1>2, <1>3, <1>4, <1>5, <1>6
  <2> QED BY <2>1, <2>2, <2>3
<1>7. CASE ~(i = 1 \/ w[i - 1] \in OB!Single \cup {"u4"})
  <2>1. PICK k \in 1..3 : w[i - 1] = OB!Long[k] /\ w[i] = OB!Long[k + 1]
    BY <1>1, <1>7
  <2>2. w[i] \notin OB!Single \cup {"u1"}
    BY <1>2, <1>3, <1>4, <2>1
  <2>3. ~(i = 1 \/ Between(w, i - 1)) /\ i > 1
    BY <1>5, <1>7 DEF Between
  <2>4. \A l \in 1..3 : w[i] = OB!Long[l + 1] => w[i - 1] = OB!Long[l]
    BY <1>2, <1>3, <1>4, <2>1
  <2>5. \A l \in 1..3 : w[i - 1] = OB!Long[l] => w[i] = OB!Long[l + 1]
    BY <1>2, <1>3, <1>4, <2>1
  <2> QED BY <2>2, <2>3, <2>4, <2>5
<1> QED BY <1>6, <1>7

\* A part of valid text that begins where no character is under way is valid.
LEMMA ValidPart ==
  ASSUME NEW w \in Seq(OB!Bytes), OB!Valid(w), NEW p \in 0..Len(w), NEW q \in p..Len(w),
         Between(w, p)
  PROVE  /\ SubSeq(w, p + 1, q) \in Seq(OB!Bytes) /\ OB!Valid(SubSeq(w, p + 1, q))
         /\ Len(SubSeq(w, p + 1, q)) = q - p
         /\ \A i \in 1..q - p : SubSeq(w, p + 1, q)[i] = w[p + i] /\ p + i \in 1..Len(w)
<1> DEFINE v == SubSeq(w, p + 1, q)
<1>1. Len(w) \in Nat /\ p \in Nat /\ q \in Nat /\ p <= q /\ q <= Len(w)
  OBVIOUS
<1>2. /\ v \in Seq(OB!Bytes) /\ Len(v) = q - p /\ q - p \in Nat
      /\ \A i \in 1..q - p : v[i] = w[p + 1 + i - 1]
  <2>1. p + 1 \in 1..Len(w) + 1
    BY <1>1
  <2> QED BY <1>1, <2>1
<1> HIDE DEF v
<1>3. \A i \in 1..q - p : v[i] = w[p + i] /\ p + i \in 1..Len(w)
  <2> SUFFICES ASSUME NEW i \in 1..q - p PROVE v[i] = w[p + i] /\ p + i \in 1..Len(w)
    OBVIOUS
  <2>1. p + 1 + i - 1 = p + i /\ p + i \in 1..Len(w)
    BY <1>1
  <2> QED BY <1>2, <2>1
<1>4. ASSUME NEW i \in 1..q - p
      PROVE  IF i = 1 \/ v[i - 1] \in OB!Single \cup {"u4"}
             THEN v[i] \in OB!Single \cup {"u1"}
             ELSE \E k \in 1..3 : v[i - 1] = OB!Long[k] /\ v[i] = OB!Long[k + 1]
  <2>1. /\ v[i] = w[p + i] /\ p + i \in 1..Len(w) /\ p + i - 1 = p + (i - 1)
        /\ (i # 1 => i - 1 \in 1..q - p) /\ (p = 0 => p + i = i)
        /\ (i = 1 => p + i - 1 = p) /\ (p + i = 1 => i = 1)
    BY <1>1, <1>3
  <2>2. IF p + i = 1 \/ w[p + i - 1] \in OB!Single \cup {"u4"}
        THEN w[p + i] \in OB!Single \cup {"u1"}
        ELSE \E k \in 1..3 : w[p + i - 1] = OB!Long[k] /\ w[p + i] = OB!Long[k + 1]
    <3>1. OB!Follows(w, p + i)
      BY <2>1 DEF OB!Valid
    <3> QED BY <3>1 DEF OB!Follows
  <2>3. CASE i = 1
    <3>1. p + i = 1 \/ w[p + i - 1] \in OB!Single \cup {"u4"}
      BY <1>1, <2>1, <2>3 DEF Between
    <3> QED BY <2>1, <2>2, <2>3, <3>1
  <2>4. CASE i # 1
    <3>1. v[i - 1] = w[p + i - 1] /\ p + i # 1
      BY <1>3, <2>1, <2>4
    <3> QED BY <2>1, <2>2, <2>4, <3>1
  <2> QED BY <2>3, <2>4
<1>5. OB!Valid(v)
  <2>1. DOMAIN v = 1..q - p
    BY <1>2
  <2>2. \A i \in 1..q - p : OB!Follows(v, i)
    BY <1>4 DEF OB!Follows
  <2> QED BY <2>1, <2>2 DEF OB!Valid
<1> QED BY <1>2, <1>3, <1>5 DEF v

\* In valid text the k-th byte of a character has the k - 1 others before it.
LEMMA StartOfLong ==
  ASSUME NEW w \in Seq(OB!Bytes), OB!Valid(w), NEW i \in 1..Len(w), NEW k \in 1..4,
         w[i] = OB!Long[k]
  PROVE  /\ i >= k /\ w[i - k + 1] = "u1"
         /\ i - k + 4 <= Len(w) =>
              \A j \in 1..4 : w[i - k + j] = OB!Long[j]
<1>1. /\ Len(w) \in Nat /\ i \in Nat /\ i >= 1 /\ i <= Len(w)
      /\ (k = 1 \/ k = 2 \/ k = 3 \/ k = 4)
  OBVIOUS
<1>2. OB!Long[1] = "u1"
  BY LongBytes
<1>3. \A x \in 1..Len(w) : \A l \in 1..3 : w[x] = OB!Long[l + 1] => x > 1 /\ w[x - 1] = OB!Long[l]
  BY ValidFacts
<1>4. \A x \in 1..Len(w) : \A l \in 1..3 : x > 1 /\ w[x - 1] = OB!Long[l] => w[x] = OB!Long[l + 1]
  BY ValidFacts
<1>5. /\ \A x \in 1..Len(w) : w[x] = OB!Long[2] => x > 1 /\ x - 1 \in 1..Len(w) /\ w[x - 1] = OB!Long[1]
      /\ \A x \in 1..Len(w) : w[x] = OB!Long[3] => x > 1 /\ x - 1 \in 1..Len(w) /\ w[x - 1] = OB!Long[2]
      /\ \A x \in 1..Len(w) : w[x] = OB!Long[4] => x > 1 /\ x - 1 \in 1..Len(w) /\ w[x - 1] = OB!Long[3]
  <2>1. 1 \in 1..3 /\ 2 \in 1..3 /\ 3 \in 1..3 /\ 1 + 1 = 2 /\ 2 + 1 = 3 /\ 3 + 1 = 4
    OBVIOUS
  <2>2. \A x \in 1..Len(w) : x > 1 => x - 1 \in 1..Len(w)
    BY <1>1
  <2> QED BY <1>3, <2>1, <2>2
<1>6. /\ \A x \in 1..Len(w) : x > 1 /\ w[x - 1] = OB!Long[1] => w[x] = OB!Long[2]
      /\ \A x \in 1..Len(w) : x > 1 /\ w[x - 1] = OB!Long[2] => w[x] = OB!Long[3]
      /\ \A x \in 1..Len(w) : x > 1 /\ w[x - 1] = OB!Long[3] => w[x] = OB!Long[4]
  <2>1. 1 \in 1..3 /\ 2 \in 1..3 /\ 3 \in 1..3 /\ 1 + 1 = 2 /\ 2 + 1 = 3 /\ 3 + 1 = 4
    OBVIOUS
  <2> QED BY <1>4, <2>1
<1>7. i >= k /\ w[i - k + 1] = OB!Long[1]
  <2>1. CASE k = 1
    BY <1>1, <2>1
  <2>2. CASE k = 2
    <3>1. i > 1 /\ w[i - 1] = OB!Long[1] /\ i - 2 + 1 = i - 1
      BY <1>1, <1>5, <2>2
    <3> QED BY <1>1, <2>2, <3>1
  <2>3. CASE k = 3
    <3>1. i > 1 /\ w[i - 1] = OB!Long[2] /\ i - 1 \in 1..Len(w)
      BY <1>1, <1>5, <2>3
    <3>2. i - 1 > 1 /\ w[i - 1 - 1] = OB!Long[1]
      BY <1>5, <3>1
    <3>3. i - 1 - 1 = i - 3 + 1
      BY <1>1
    <3> QED BY <1>1, <2>3, <3>2, <3>3
  <2>4. CASE k = 4
    <3>1. i > 1 /\ w[i - 1] = OB!Long[3] /\ i - 1 \in 1..Len(w)
      BY <1>1, <1>5, <2>4
    <3>2. i - 1 > 1 /\ w[i - 1 - 1] = OB!Long[2] /\ i - 1 - 1 \in 1..Len(w)
      BY <1>5, <3>1
    <3>3. i - 1 - 1 > 1 /\ w[i - 1 - 1 - 1] = OB!Long[1]
      BY <1>5, <3>2
    <3>4. i - 1 - 1 - 1 = i - 4 + 1
      BY <1>1
    <3> QED BY <1>1, <2>4, <3>3, <3>4
  <2> QED BY <1>1, <2>1, <2>2, <2>3, <2>4
<1>8. ASSUME i - k + 4 <= Len(w), NEW j \in 1..4 PROVE w[i - k + j] = OB!Long[j]
  <2> DEFINE m == i - k
  <2>1. m \in Nat /\ m + 4 <= Len(w) /\ w[m + 1] = OB!Long[1]
    BY <1>1, <1>7, <1>8
  <2> HIDE DEF m
  <2>2. /\ m + 2 \in 1..Len(w) /\ m + 2 > 1 /\ m + 2 - 1 = m + 1
        /\ m + 3 \in 1..Len(w) /\ m + 3 > 1 /\ m + 3 - 1 = m + 2
        /\ m + 4 \in 1..Len(w) /\ m + 4 > 1 /\ m + 4 - 1 = m + 3
    BY <1>1, <2>1
  <2>3. w[m + 2] = OB!Long[2]
    BY <1>6, <2>1, <2>2
  <2>4. w[m + 3] = OB!Long[3]
    <3>1. w[m + 3 - 1] = OB!Long[2]
      BY <2>2, <2>3
    <3> QED BY <1>6, <2>1, <2>2, <3>1
  <2>5. w[m + 4] = OB!Long[4]
    <3>1. w[m + 4 - 1] = OB!Long[3]
      BY <2>2, <2>4
    <3> QED BY <1>6, <2>1, <2>2, <3>1
  <2>6. j = 1 \/ j = 2 \/ j = 3 \/ j = 4
    OBVIOUS
  <2>7. w[m + j] = OB!Long[j]
    BY <2>1, <2>3, <2>4, <2>5, <2>6
  <2> QED BY <2>7 DEF m
<1> QED BY <1>2, <1>7, <1>8

\* In valid text a byte is of a whole character unless the text ends before its last byte.
LEMMA WholeOf ==
  ASSUME NEW w \in Seq(OB!Bytes), OB!Valid(w)
  PROVE  OB!Whole(w) = {i \in 1..Len(w) : w[i] \in OB!Single
                          \/ \E k \in 1..4 : w[i] = OB!Long[k] /\ i - k + 4 <= Len(w)}
<1> DEFINE Cut(i, k) == SubSeq(w, i - k + 1, i - k + 4)
<1>1. Len(w) \in Nat /\ DOMAIN w = 1..Len(w)
  OBVIOUS
<1>2. ASSUME NEW i \in 1..Len(w), NEW k \in 1..4, i - k >= 0, i - k + 4 <= Len(w)
      PROVE  /\ Cut(i, k) \in Seq(OB!Bytes) /\ Len(Cut(i, k)) = 4
             /\ \A j \in 1..4 : Cut(i, k)[j] = w[i - k + j]
  <2> DEFINE m == i - k
  <2>1. m \in Nat /\ m + 4 <= Len(w)
    BY <1>1, <1>2
  <2> HIDE DEF m
  <2>2. m + 1 \in 1..Len(w) + 1 /\ m + 4 \in m..Len(w) /\ m + 4 - (m + 1) + 1 = 4
    BY <1>1, <2>1
  <2>3. /\ SubSeq(w, m + 1, m + 4) \in Seq(OB!Bytes) /\ Len(SubSeq(w, m + 1, m + 4)) = 4
        /\ \A j \in 1..4 : SubSeq(w, m + 1, m + 4)[j] = w[m + 1 + j - 1]
    BY <1>1, <2>1, <2>2
  <2>4. \A j \in 1..4 : m + 1 + j - 1 = m + j
    BY <2>1
  <2> HIDE DEF Cut
  <2>5. Cut(i, k) = SubSeq(w, m + 1, m + 4)
    BY DEF Cut, m
  <2>6. \A j \in 1..4 : Cut(i, k)[j] = w[m + j]
    BY <2>3, <2>4, <2>5
  <2> QED BY <2>3, <2>5, <2>6 DEF m
<1> HIDE DEF Cut
<1>3. OB!Whole(w) = {i \in 1..Len(w) : w[i] \in OB!Single
        \/ \E k \in 1..4 : i - k >= 0 /\ i - k + 4 <= Len(w) /\ Cut(i, k) = OB!Long}
  BY <1>1 DEF OB!Whole, Cut
<1>4. ASSUME NEW i \in 1..Len(w), NEW k \in 1..4
      PROVE  (i - k >= 0 /\ i - k + 4 <= Len(w) /\ Cut(i, k) = OB!Long)
               <=> (w[i] = OB!Long[k] /\ i - k + 4 <= Len(w))
  <2>1. ASSUME i - k >= 0, i - k + 4 <= Len(w), Cut(i, k) = OB!Long PROVE w[i] = OB!Long[k]
    <3>1. Cut(i, k)[k] = w[i - k + k] /\ i - k + k = i
      BY <1>2, <2>1
    <3> QED BY <2>1, <3>1
  <2>2. ASSUME w[i] = OB!Long[k], i - k + 4 <= Len(w) PROVE i - k >= 0 /\ Cut(i, k) = OB!Long
    <3>1. i >= k /\ \A j \in 1..4 : w[i - k + j] = OB!Long[j]
      BY <2>2, StartOfLong
    <3>2. i - k >= 0
      BY <3>1
    <3>3. /\ Cut(i, k) \in Seq(OB!Bytes) /\ Len(Cut(i, k)) = 4
          /\ \A j \in 1..4 : Cut(i, k)[j] = w[i - k + j]
      BY <1>2, <2>2, <3>2
    <3>4. OB!Long \in Seq(OB!Bytes) /\ Len(OB!Long) = 4
      BY LongBytes
    <3>5. \A j \in 1..4 : Cut(i, k)[j] = OB!Long[j]
      BY <3>1, <3>3
    <3> QED BY <3>2, <3>3, <3>4, <3>5
  <2> QED BY <2>1, <2>2
<1> QED BY <1>3, <1>4

\* Text of bytes that belong to whole characters, all of them, is what is seen of them.
LEMMA TextOfWhole ==
  ASSUME NEW w \in Seq(OB!Bytes), OB!Whole(w) = 1..Len(w)
  PROVE  OB!Text(w) = OB!Shown(w)
<1> DEFINE shown == [i \in DOMAIN w |-> IF i \in OB!Whole(w) THEN w[i] ELSE "?"]
<1>1. DOMAIN w = 1..Len(w) /\ w = [i \in 1..Len(w) |-> w[i]]
  OBVIOUS
<1>2. shown = [i \in 1..Len(w) |-> w[i]]
  BY <1>1
<1> QED BY <1>1, <1>2 DEF OB!Text

\* In valid text the first byte that belongs to no whole character begins one, which the
\* text cuts short.
LEMMA FirstOfCut ==
  ASSUME NEW w \in Seq(OB!Bytes), OB!Valid(w),
         NEW b \in 1..Len(w), b \notin OB!Whole(w), \A i \in 1..Len(w) : i < b => i \in OB!Whole(w)
  PROVE  /\ w[b] = "u1" /\ b + 2 >= Len(w) /\ Between(w, b - 1)
         /\ \A i \in b..Len(w) : w[i] \in OB!Lead
         /\ OB!Whole(SubSeq(w, 1, b - 1)) = 1..b - 1
<1>1. Len(w) \in Nat /\ b \in Nat /\ b >= 1 /\ b <= Len(w) /\ w[b] \in OB!Bytes
  OBVIOUS
<1>2. OB!Whole(w) = {i \in 1..Len(w) : w[i] \in OB!Single
                        \/ \E k \in 1..4 : w[i] = OB!Long[k] /\ i - k + 4 <= Len(w)}
  BY WholeOf
<1>3. PICK k \in 1..4 : w[b] = OB!Long[k]
  <2>1. w[b] \notin OB!Single
    BY <1>2
  <2> QED BY <1>1, <2>1, LongBytes
<1>4. b - k + 4 > Len(w)
  <2>1. ~(b - k + 4 <= Len(w))
    BY <1>2, <1>3
  <2> QED BY <1>1, <2>1
<1>5. b >= k /\ w[b - k + 1] = "u1"
  BY <1>3, StartOfLong
<1>6. OB!Long[1] = "u1" /\ OB!Long[2] = "u2" /\ OB!Long[3] = "u3" /\ "u1" \notin OB!Single
  BY LongBytes DEF OB!Single
<1>7. k = 1
  <2> SUFFICES ASSUME k # 1 PROVE FALSE
    OBVIOUS
  <2> DEFINE s == b - k + 1
  <2>1. s \in 1..Len(w) /\ s < b /\ s + 3 > Len(w)
    BY <1>1, <1>4, <1>5
  <2>2. w[s] = "u1"
    BY <1>5
  <2> HIDE DEF s
  <2>3. s \in OB!Whole(w)
    BY <2>1
  <2>4. PICK l \in 1..4 : w[s] = OB!Long[l] /\ s - l + 4 <= Len(w)
    BY <1>2, <1>6, <2>2, <2>3
  <2>5. l = 1
    <3>1. OB!Long[l] = OB!Long[1] /\ 1 \in 1..4
      BY <1>6, <2>2, <2>4
    <3> QED BY <3>1, LongBytes
  <2> QED BY <1>1, <2>1, <2>4, <2>5
<1>8. w[b] = "u1" /\ b + 2 >= Len(w)
  BY <1>1, <1>3, <1>4, <1>6, <1>7
<1>9. Between(w, b - 1)
  <2>1. b = 1 \/ Between(w, b - 1)
    BY <1>8, ValidFacts
  <2> QED BY <2>1 DEF Between
<1>10. \A i \in b..Len(w) : w[i] \in OB!Lead
  <2> SUFFICES ASSUME NEW i \in b..Len(w) PROVE w[i] \in OB!Lead
    OBVIOUS
  <2>1. i = b \/ i = b + 1 \/ i = b + 2
    BY <1>1, <1>8
  <2>2. b + 1 <= Len(w) => w[b + 1] = OB!Long[2]
    <3> SUFFICES ASSUME b + 1 <= Len(w) PROVE w[b + 1] = OB!Long[2]
      OBVIOUS
    <3> DEFINE c == b + 1
    <3>1. c \in 1..Len(w) /\ c > 1 /\ c - 1 = b /\ 1 \in 1..3 /\ 1 + 1 = 2
      BY <1>1
    <3>2. w[c - 1] = OB!Long[1]
      BY <1>6, <1>8, <3>1
    <3> HIDE DEF c
    <3>3. w[c] = OB!Long[1 + 1]
      BY <3>1, <3>2, ValidFacts
    <3> QED BY <3>1, <3>3 DEF c
  <2>3. b + 2 <= Len(w) => w[b + 2] = OB!Long[3]
    <3> SUFFICES ASSUME b + 2 <= Len(w) PROVE w[b + 2] = OB!Long[3]
      OBVIOUS
    <3> DEFINE c == b + 2
    <3>1. c \in 1..Len(w) /\ c > 1 /\ c - 1 = b + 1 /\ 2 \in 1..3 /\ 2 + 1 = 3 /\ b + 1 <= Len(w)
      BY <1>1
    <3>2. w[c - 1] = OB!Long[2]
      BY <2>2, <3>1
    <3> HIDE DEF c
    <3>3. w[c] = OB!Long[2 + 1]
      BY <3>1, <3>2, ValidFacts
    <3> QED BY <3>1, <3>3 DEF c
  <2> QED BY <1>1, <1>6, <1>8, <2>1, <2>2, <2>3 DEF OB!Lead
<1>11. OB!Whole(SubSeq(w, 1, b - 1)) = 1..b - 1
  <2> DEFINE v == SubSeq(w, 1, b - 1)
  <2>1. /\ v \in Seq(OB!Bytes) /\ OB!Valid(v) /\ Len(v) = b - 1
        /\ \A i \in 1..b - 1 : v[i] = w[i]
    <3>1. 0 \in 0..Len(w) /\ b - 1 \in 0..Len(w) /\ Between(w, 0) /\ 0 + 1 = 1 /\ b - 1 - 0 = b - 1
      BY <1>1 DEF Between
    <3>2. /\ SubSeq(w, 0 + 1, b - 1) \in Seq(OB!Bytes) /\ OB!Valid(SubSeq(w, 0 + 1, b - 1))
          /\ Len(SubSeq(w, 0 + 1, b - 1)) = b - 1 - 0
          /\ \A i \in 1..b - 1 - 0 : SubSeq(w, 0 + 1, b - 1)[i] = w[0 + i]
      BY <3>1, ValidPart
    <3>3. \A i \in 1..b - 1 : 0 + i = i
      OBVIOUS
    <3> QED BY <3>1, <3>2, <3>3
  <2> HIDE DEF v
  <2>2. OB!Whole(v) = {i \in 1..b - 1 : v[i] \in OB!Single
                          \/ \E l \in 1..4 : v[i] = OB!Long[l] /\ i - l + 4 <= b - 1}
    BY <2>1, WholeOf
  <2>3. ASSUME NEW i \in 1..b - 1
        PROVE  v[i] \in OB!Single \/ \E l \in 1..4 : v[i] = OB!Long[l] /\ i - l + 4 <= b - 1
    <3> SUFFICES ASSUME v[i] \notin OB!Single
                 PROVE  \E l \in 1..4 : v[i] = OB!Long[l] /\ i - l + 4 <= b - 1
      OBVIOUS
    <3>1. i \in 1..Len(w) /\ i < b /\ v[i] = w[i]
      BY <1>1, <2>1
    <3>2. PICK l \in 1..4 : w[i] = OB!Long[l] /\ i - l + 4 <= Len(w)
      BY <1>2, <3>1
    <3>3. i - l + 4 <= b - 1
      <4> SUFFICES ASSUME ~(i - l + 4 <= b - 1) PROVE FALSE
        OBVIOUS
      <4> DEFINE j == b - (i - l)
      <4>1. j \in 1..4 /\ j # 1 /\ i - l + j = b
        <5>1. i \in Nat /\ l \in Nat /\ l >= 1 /\ b \in Nat /\ i < b /\ i - l + 4 > b - 1
          BY <1>1, <3>1
        <5>2. \A x, y, z \in Nat : y >= 1 /\ x < z /\ x - y + 4 > z - 1
                => z - (x - y) \in 1..4 /\ z - (x - y) # 1 /\ x - y + (z - (x - y)) = z
          OBVIOUS
        <5> QED BY <5>1, <5>2
      <4>2. \A x \in 1..4 : w[i - l + x] = OB!Long[x]
        BY <3>1, <3>2, StartOfLong
      <4> HIDE DEF j
      <4>3. OB!Long[j] = OB!Long[1] /\ 1 \in 1..4
        BY <1>6, <1>8, <4>1, <4>2
      <4> QED BY <4>1, <4>3, LongBytes
    <3> QED BY <3>1, <3>2, <3>3
  <2>4. OB!Whole(v) = 1..b - 1
    BY <2>2, <2>3
  <2> QED BY <2>4 DEF v
<1> QED BY <1>8, <1>9, <1>10, <1>11

\* Decoding valid text cuts it where no character is under way, at most three bytes
\* before its end, and what it keeps begins a character.
LEMMA DecodeValid ==
  ASSUME NEW w \in Seq(OB!Bytes), OB!Valid(w)
  PROVE  \E m \in 0..Len(w) :
           /\ Between(w, m) /\ Len(w) - m <= 3
           /\ \A i \in m + 1..Len(w) : w[i] \in OB!Lead
           /\ OB!Decode(w).text = OB!Shown(SubSeq(w, 1, m))
           /\ OB!Decode(w).rest = SubSeq(w, m + 1, Len(w))
<1> DEFINE bad == DOMAIN w \ OB!Whole(w)
<1>1. Len(w) \in Nat /\ DOMAIN w = 1..Len(w) /\ SubSeq(w, 1, Len(w)) = w
  OBVIOUS
<1>2. OB!Whole(w) = {i \in 1..Len(w) : w[i] \in OB!Single
                        \/ \E k \in 1..4 : w[i] = OB!Long[k] /\ i - k + 4 <= Len(w)}
  BY WholeOf
<1>3. CASE bad = {}
  <2>1. OB!Whole(w) = 1..Len(w)
    BY <1>1, <1>2, <1>3
  <2>2. OB!Decode(w) = [text |-> OB!Text(w), rest |-> <<>>]
    BY <1>3 DEF OB!Decode
  <2>3. OB!Decode(w).text = OB!Shown(SubSeq(w, 1, Len(w)))
    <3>1. OB!Text(w) = OB!Shown(w)
      BY <2>1, TextOfWhole
    <3>2. OB!Decode(w).text = OB!Text(w)
      BY <2>2
    <3> QED BY <1>1, <3>1, <3>2
  <2>4. OB!Decode(w).rest = SubSeq(w, Len(w) + 1, Len(w))
    <3>1. SubSeq(w, Len(w) + 1, Len(w)) = <<>>
      BY <1>1
    <3> QED BY <2>2, <3>1
  <2>5. Between(w, Len(w))
    <3> SUFFICES ASSUME Len(w) # 0 PROVE w[Len(w)] \in OB!Single \cup {"u4"}
      BY DEF Between
    <3>1. Len(w) \in OB!Whole(w)
      BY <1>1, <2>1
    <3>2. w[Len(w)] \in OB!Single \/ \E k \in 1..4 : w[Len(w)] = OB!Long[k] /\ Len(w) - k + 4 <= Len(w)
      BY <1>2, <3>1
    <3>3. ASSUME NEW k \in 1..4, w[Len(w)] = OB!Long[k], Len(w) - k + 4 <= Len(w)
          PROVE  w[Len(w)] = "u4"
      <4>1. k = 4
        BY <1>1, <3>3
      <4> QED BY <3>3, <4>1, LongBytes
    <3> QED BY <3>2, <3>3
  <2>6. Len(w) \in 0..Len(w) /\ Len(w) - Len(w) <= 3 /\ \A i \in Len(w) + 1..Len(w) : w[i] \in OB!Lead
    BY <1>1
  <2> QED BY <2>3, <2>4, <2>5, <2>6
<1>4. CASE bad # {}
  <2>1. bad \subseteq Nat /\ bad \subseteq 1..Len(w)
    BY <1>1
  <2>2. \E n \in bad : \A i \in bad : n <= i
    <3> HIDE DEF bad
    <3> QED BY <1>4, <2>1, LeastNat
  <2> DEFINE b == OB!Min(bad)
  <2>3. b \in bad /\ \A i \in bad : b <= i
    <3> HIDE DEF bad
    <3> QED BY <2>2 DEF OB!Min
  <2>4. b \in 1..Len(w) /\ b \notin OB!Whole(w) /\ b \in Nat
    BY <2>1, <2>3
  <2>5. \A i \in 1..Len(w) : i < b => i \in OB!Whole(w)
    <3> SUFFICES ASSUME NEW i \in 1..Len(w), i < b, i \notin OB!Whole(w) PROVE FALSE
      OBVIOUS
    <3>1. i \in bad
      BY <1>1
    <3> HIDE DEF b
    <3> QED BY <2>3, <2>4, <3>1
  <2>6. b \in Nat /\ b - 1 \in 0..Len(w) /\ b - 1 + 1 = b /\ b >= 1 /\ b <= Len(w)
    BY <1>1, <2>4
  <2> HIDE DEF b
  <2>7. /\ w[b] = "u1" /\ b + 2 >= Len(w) /\ Between(w, b - 1)
        /\ \A i \in b..Len(w) : w[i] \in OB!Lead
        /\ OB!Whole(SubSeq(w, 1, b - 1)) = 1..b - 1
    BY <2>4, <2>5, FirstOfCut
  <2>8. SubSeq(w, 1, b - 1) \in Seq(OB!Bytes) /\ Len(SubSeq(w, 1, b - 1)) = b - 1
    BY <1>1, <2>6
  <2>9. OB!Text(SubSeq(w, 1, b - 1)) = OB!Shown(SubSeq(w, 1, b - 1))
    BY <2>7, <2>8, TextOfWhole
  <2>10. ~(Len(w) - b + 1 > 3) /\ Len(w) - (b - 1) <= 3
    BY <1>1, <2>6, <2>7
  <2>11. OB!Decode(w) = [text |-> OB!Text(SubSeq(w, 1, b - 1)), rest |-> SubSeq(w, b, Len(w))]
    BY <1>4, <2>10 DEF OB!Decode, b
  <2>12. \A i \in b - 1 + 1..Len(w) : w[i] \in OB!Lead
    BY <2>6, <2>7
  <2>13. OB!Decode(w).rest = SubSeq(w, b - 1 + 1, Len(w))
    BY <2>6, <2>11
  <2>14. OB!Decode(w).text = OB!Shown(SubSeq(w, 1, b - 1))
    BY <2>9, <2>11
  <2> QED BY <2>6, <2>7, <2>10, <2>12, <2>13, <2>14
<1> QED BY <1>3, <1>4

\* What is seen of a text that ends in the start of a character is what is seen before it.
LEMMA ShownCut ==
  ASSUME NEW w \in Seq(OB!Bytes), NEW p \in Nat, NEW q \in Nat, p <= q, q <= Len(w),
         \A i \in p + 1..q : w[i] \in OB!Lead
  PROVE  OB!Shown(SubSeq(w, 1, q)) = OB!Shown(SubSeq(w, 1, p))
<1>1. /\ SubSeq(w, 0 + 1, q) = SubSeq(w, 0 + 1, p) \o SubSeq(w, p + 1, q)
      /\ SubSeq(w, 0 + 1, p) \in Seq(OB!Bytes) /\ SubSeq(w, p + 1, q) \in Seq(OB!Bytes)
  BY CutInTwo
<1>2. SubSeq(w, p + 1, q) \in Seq(OB!Lead)
  <2>1. p + 1 \in 1..Len(w) + 1 /\ q \in p..Len(w)
    OBVIOUS
  <2>2. /\ Len(SubSeq(w, p + 1, q)) = q - p
        /\ \A i \in 1..q - p : SubSeq(w, p + 1, q)[i] = w[p + i] /\ p + i \in p + 1..q
    BY <2>1
  <2> QED BY <1>1, <2>2
<1>3. OB!Shown(SubSeq(w, p + 1, q)) = <<>>
  BY <1>2, ShownLead
<1>4. /\ OB!Shown(SubSeq(w, 0 + 1, q)) = OB!Shown(SubSeq(w, 0 + 1, p)) \o <<>>
      /\ OB!Shown(SubSeq(w, 0 + 1, p)) \in Seq(OB!Bytes)
  <2> DEFINE l == SubSeq(w, 0 + 1, p)
             r == SubSeq(w, p + 1, q)
  <2>1. l \in Seq(OB!Bytes) /\ r \in Seq(OB!Bytes)
    BY <1>1
  <2> HIDE DEF l, r
  <2>2. OB!Shown(l \o r) = OB!Shown(l) \o OB!Shown(r) /\ OB!Shown(l) \in Seq(OB!Bytes)
    BY <2>1, ShownConcat
  <2> QED BY <1>1, <1>3, <2>2 DEF l, r
<1>5. OB!Shown(SubSeq(w, 0 + 1, q)) = OB!Shown(SubSeq(w, 0 + 1, p))
  BY <1>4
<1>6. 0 + 1 = 1
  OBVIOUS
<1> QED BY <1>5, <1>6

-------------------------------------------------------------------------------
\* What the loop keeps: valid text, chunks that end one after the other, and what it holds
\* of the bytes taken is the start of a character.
BatchTypes ==
  /\ text \in Seq(OB!Bytes) /\ OB!Valid(text) /\ Len(text) <= MaxText
  /\ taken \in 0..Len(text)
  /\ batch \in Seq(OB!Bytes) /\ frames \in Seq(OB!Bytes)
  /\ holds \in 0..1
  /\ loop \in {"running", "ended", "failed", "cancelled"}

\* A chunk ends after what was taken, and not before the chunk ahead of it.
ChunksInOrder ==
  /\ chunks \in Seq(Nat \ {0}) /\ Len(chunks) <= MaxChunks
  /\ \A i \in 1..Len(chunks) :
       /\ taken <= chunks[i] /\ chunks[i] <= Len(text)
       /\ \A j \in i..Len(chunks) : chunks[i] <= chunks[j]

\* What is held of the n bytes of w begins after p, between two characters, and is
\* the start of a long one.
HeldFrom(w, n, held, p) ==
  /\ Between(w, p) /\ n - p <= 3
  /\ \A i \in p + 1..n : w[i] \in OB!Lead
  /\ held = SubSeq(w, p + 1, n)

\* The loop holds back nothing else.
StartIsHeld == \E p \in 0..taken : HeldFrom(text, taken, utf8, p)

\* The invariant of the loop.
BatchInv == BatchTypes /\ ChunksInOrder /\ StartIsHeld /\ TextIsWhole

\* It holds at the start,
LEMMA BatchInit == OB!Init => BatchInv
<1> SUFFICES ASSUME OB!Init PROVE BatchInv
  OBVIOUS
<1> USE DEF OB!Init
<1>1. SubSeq(<<>>, 1, 0) = <<>> /\ Len(<<>>) = 0 /\ 0 \in 0..0 /\ <<>> \o <<>> = <<>>
  OBVIOUS
<1>2. BatchTypes
  BY <1>1, TextIsBounded DEF BatchTypes, OB!Valid
<1>3. ChunksInOrder
  BY TextIsBounded DEF ChunksInOrder
<1>4. StartIsHeld
  <2>1. SubSeq(<<>>, 0 + 1, 0) = <<>> /\ 0 - 0 <= 3 /\ \A i \in 0 + 1..0 : FALSE
    OBVIOUS
  <2>2. HeldFrom(<<>>, 0, <<>>, 0)
    BY <2>1 DEF HeldFrom, Between
  <2> QED BY <1>1, <2>2 DEF StartIsHeld
<1>5. TextIsWhole
  BY <1>1, ShownEmpty DEF TextIsWhole, OB!TextIsWhole
<1> QED BY <1>2, <1>3, <1>4, <1>5 DEF BatchInv

\* What is held of the bytes taken does not change with the frames and the batch.
LEMMA SentLater ==
  ASSUME BatchInv, UNCHANGED <<text, chunks, taken, utf8>>, holds' \in 0..1,
         loop' \in {"running", "ended", "failed", "cancelled"},
         frames' \in Seq(OB!Bytes), batch' \in Seq(OB!Bytes),
         frames' \o batch' = frames \o batch
  PROVE  BatchInv'
<1>1. BatchTypes'
  BY DEF BatchInv, BatchTypes
<1>2. ChunksInOrder'
  BY DEF BatchInv, ChunksInOrder
<1>3. StartIsHeld'
  BY DEF BatchInv, StartIsHeld
<1>4. TextIsWhole'
  BY DEF BatchInv, TextIsWhole, OB!TextIsWhole
<1> QED BY <1>1, <1>2, <1>3, <1>4 DEF BatchInv

\* Bytes that are written change nothing of those taken.
LEMMA PutKeeps ==
  ASSUME BatchInv, OB!PutChunk
  PROVE  BatchInv'
<1>1. PICK chunk \in OB!Chunks :
        /\ Len(text \o chunk) <= MaxText /\ OB!Valid(text \o chunk) /\ text' = text \o chunk
        /\ chunks' = Append(chunks, Len(text \o chunk))
  BY DEF OB!PutChunk
<1>2. /\ UNCHANGED <<taken, utf8, batch, frames, holds, loop>> /\ Len(chunks) < MaxChunks
  BY DEF OB!PutChunk
<1>3. chunk \in Seq(OB!Bytes) /\ chunk # <<>>
  <2>1. PICK n \in 1..MaxChunk : chunk \in [1..n -> OB!Bytes]
    BY DEF OB!Chunks
  <2> QED BY <2>1
<1>4. /\ text \in Seq(OB!Bytes) /\ taken \in 0..Len(text) /\ Len(text) \in Nat
  BY DEF BatchInv, BatchTypes
<1>5. /\ text' \in Seq(OB!Bytes) /\ Len(text') = Len(text) + Len(chunk) /\ Len(chunk) \in Nat \ {0}
      /\ \A i \in 1..Len(text) : text'[i] = text[i]
  BY <1>1, <1>3, <1>4, ConcatProperties, EmptySeq
<1>6. BatchTypes'
  <2>1. taken' \in 0..Len(text') /\ Len(text') <= MaxText
    BY <1>1, <1>2, <1>4, <1>5
  <2> QED BY <1>1, <1>2, <1>5, <2>1 DEF BatchInv, BatchTypes
<1>7. ChunksInOrder'
  <2> DEFINE e == Len(text')
             m == Len(chunks)
  <2>1. /\ chunks \in Seq(Nat \ {0}) /\ m \in Nat
        /\ \A i \in 1..m : taken <= chunks[i] /\ chunks[i] <= Len(text) /\ chunks[i] \in Nat
                           /\ \A j \in i..m : chunks[i] <= chunks[j]
    BY DEF BatchInv, ChunksInOrder
  <2>2. e \in Nat \ {0} /\ e >= Len(text) /\ taken <= e
    BY <1>4, <1>5
  <2>3. chunks' = Append(chunks, e)
    BY <1>1
  <2> HIDE DEF e
  <2>4. /\ chunks' \in Seq(Nat \ {0}) /\ Len(chunks') = m + 1 /\ chunks'[m + 1] = e
        /\ \A i \in 1..m : chunks'[i] = chunks[i]
    BY <2>1, <2>2, <2>3, AppendProperties
  <2>5. Len(chunks') <= MaxChunks
    BY <1>2, <2>1, <2>4, TextIsBounded
  <2> HIDE DEF m
  <2>6. ASSUME NEW i \in 1..m + 1
        PROVE  /\ taken <= chunks'[i] /\ chunks'[i] <= e
               /\ \A j \in i..m + 1 : chunks'[i] <= chunks'[j]
    <3>1. CASE i = m + 1
      <4>1. \A j \in i..m + 1 : j = m + 1
        BY <2>1, <3>1
      <4> QED BY <2>2, <2>4, <3>1, <4>1
    <3>2. CASE i # m + 1
      <4>1. i \in 1..m /\ chunks'[i] = chunks[i] /\ chunks[i] \in Nat /\ chunks[i] <= Len(text)
        BY <2>1, <2>4, <3>2
      <4>2. \A j \in i..m + 1 : j = m + 1 \/ (j \in i..m /\ j \in 1..m)
        BY <2>1, <4>1
      <4>3. chunks'[i] <= e /\ taken <= chunks'[i]
        BY <1>4, <2>1, <2>2, <4>1
      <4> QED BY <2>1, <2>4, <4>1, <4>2, <4>3
    <3> QED BY <3>1, <3>2
  <2> QED BY <1>2, <2>4, <2>5, <2>6 DEF ChunksInOrder, e
<1>8. StartIsHeld'
  <2>1. PICK p \in 0..taken : HeldFrom(text, taken, utf8, p)
    BY DEF BatchInv, StartIsHeld
  <2>2. p \in Nat /\ p <= taken /\ taken \in Nat /\ taken <= Len(text)
    BY <1>4
  <2>3. SubSeq(text', p + 1, taken) = SubSeq(text, p + 1, taken)
    BY <1>1, <1>3, <1>4, <2>2, PartStays
  <2>4. Between(text', p)
    BY <1>5, <2>1, <2>2 DEF HeldFrom, Between
  <2>5. \A i \in p + 1..taken : text'[i] \in OB!Lead
    <3>1. \A i \in p + 1..taken : text[i] \in OB!Lead
      BY <2>1 DEF HeldFrom
    <3>2. \A i \in p + 1..taken : i \in 1..Len(text)
      BY <1>4, <2>2
    <3> QED BY <1>5, <3>1, <3>2
  <2>6. HeldFrom(text', taken, utf8, p)
    BY <2>1, <2>3, <2>4, <2>5 DEF HeldFrom
  <2> QED BY <1>2, <2>6 DEF StartIsHeld
<1>9. TextIsWhole'
  <2>1. SubSeq(text', 0 + 1, taken) = SubSeq(text, 0 + 1, taken) /\ 0 + 1 = 1
    BY <1>1, <1>3, <1>4, PartStays
  <2> QED BY <1>2, <2>1 DEF BatchInv, TextIsWhole, OB!TextIsWhole
<1> QED BY <1>6, <1>7, <1>8, <1>9 DEF BatchInv

\* The bytes of the next chunk, with what was held: decoded they are what is seen of them,
\* and what is held then is the start of a character again.
LEMMA NextDecoded ==
  ASSUME BatchInv, NEW h \in taken..Len(text)
  PROVE  LET d == OB!Decode(utf8 \o SubSeq(text, taken + 1, h))
         IN /\ d.text \in Seq(OB!Bytes)
            /\ \E p \in 0..h : HeldFrom(text, h, d.rest, p)
            /\ OB!Shown(SubSeq(text, 1, h)) = OB!Shown(SubSeq(text, 1, taken)) \o d.text
<1>1. /\ text \in Seq(OB!Bytes) /\ taken \in Nat /\ taken <= Len(text) /\ Len(text) \in Nat
      /\ h \in Nat /\ taken <= h /\ h <= Len(text) /\ OB!Valid(text)
  BY DEF BatchInv, BatchTypes
<1>2. PICK p \in 0..taken : HeldFrom(text, taken, utf8, p)
  BY DEF BatchInv, StartIsHeld
<1>3. p \in Nat /\ p <= taken /\ p <= h /\ p \in 0..Len(text) /\ h \in p..Len(text)
  BY <1>1
<1> DEFINE v == SubSeq(text, p + 1, h)
<1>4. utf8 \o SubSeq(text, taken + 1, h) = v
  <2>1. utf8 = SubSeq(text, p + 1, taken)
    BY <1>2 DEF HeldFrom
  <2>2. SubSeq(text, p + 1, h) = SubSeq(text, p + 1, taken) \o SubSeq(text, taken + 1, h)
    BY <1>1, <1>3, CutInTwo
  <2> QED BY <2>1, <2>2
<1>5. /\ v \in Seq(OB!Bytes) /\ OB!Valid(v) /\ Len(v) = h - p /\ h - p \in Nat
      /\ \A i \in 1..h - p : v[i] = text[p + i]
  <2>1. Between(text, p)
    BY <1>2 DEF HeldFrom
  <2> QED BY <1>1, <1>3, <2>1, ValidPart
<1>6. PICK m \in 0..Len(v) :
        /\ Between(v, m) /\ Len(v) - m <= 3
        /\ \A i \in m + 1..Len(v) : v[i] \in OB!Lead
        /\ OB!Decode(v).text = OB!Shown(SubSeq(v, 1, m))
        /\ OB!Decode(v).rest = SubSeq(v, m + 1, Len(v))
  <2> HIDE DEF v
  <2> QED BY <1>5, DecodeValid
<1> DEFINE q == p + m
           d == OB!Decode(v)
<1>7. /\ m \in Nat /\ m <= h - p /\ q \in Nat /\ p <= q /\ q <= h /\ q <= Len(text)
      /\ h - q <= 3 /\ p + (h - p) = h /\ p + 0 + 1 = p + 1
  BY <1>1, <1>3, <1>5, <1>6
<1>8. d.rest = SubSeq(text, q + 1, h)
  <2>1. SubSeq(v, m + 1, h - p) = SubSeq(text, p + m + 1, p + (h - p))
    BY <1>1, <1>3, <1>5, <1>7, PartOfPart
  <2> HIDE DEF v
  <2> QED BY <1>5, <1>6, <1>7, <2>1
<1>9. d.text = OB!Shown(SubSeq(text, p + 1, q))
  <2>1. SubSeq(v, 0 + 1, m) = SubSeq(text, p + 0 + 1, p + m)
    BY <1>1, <1>3, <1>5, <1>7, PartOfPart
  <2>2. 0 + 1 = 1
    OBVIOUS
  <2> HIDE DEF v
  <2> QED BY <1>6, <1>7, <2>1, <2>2
<1> HIDE DEF v, d, q
<1>10. Between(text, q)
  <2>1. CASE m = 0
    <3>1. q = p
      BY <1>3, <2>1 DEF q
    <3> QED BY <1>2, <3>1 DEF HeldFrom
  <2>2. CASE m # 0
    <3>1. v[m] \in OB!Single \cup {"u4"}
      BY <1>6, <2>2 DEF Between
    <3>2. v[m] = text[q]
      BY <1>5, <1>7, <2>2 DEF q
    <3> QED BY <3>1, <3>2 DEF Between
  <2> QED BY <2>1, <2>2
<1>11. \A i \in q + 1..h : text[i] \in OB!Lead
  <2> SUFFICES ASSUME NEW i \in q + 1..h PROVE text[i] \in OB!Lead
    OBVIOUS
  <2> DEFINE k == i - p
  <2>1. k \in m + 1..Len(v) /\ k \in 1..h - p /\ p + k = i
    BY <1>3, <1>5, <1>7 DEF q
  <2> HIDE DEF k
  <2> QED BY <1>5, <1>6, <2>1
<1>12. HeldFrom(text, h, d.rest, q) /\ q \in 0..h
  BY <1>7, <1>8, <1>10, <1>11 DEF HeldFrom
<1>13. /\ OB!Shown(SubSeq(text, 1, h)) = OB!Shown(SubSeq(text, 1, q))
       /\ OB!Shown(SubSeq(text, 1, taken)) = OB!Shown(SubSeq(text, 1, p))
  <2>1. OB!Shown(SubSeq(text, 1, h)) = OB!Shown(SubSeq(text, 1, q))
    BY <1>1, <1>7, <1>11, ShownCut
  <2>2. \A i \in p + 1..taken : text[i] \in OB!Lead
    BY <1>2 DEF HeldFrom
  <2>3. OB!Shown(SubSeq(text, 1, taken)) = OB!Shown(SubSeq(text, 1, p))
    BY <1>1, <1>3, <2>2, ShownCut
  <2> QED BY <2>1, <2>3
<1>14. /\ OB!Shown(SubSeq(text, 1, q)) = OB!Shown(SubSeq(text, 1, p)) \o d.text
       /\ d.text \in Seq(OB!Bytes)
  <2> DEFINE l == SubSeq(text, 0 + 1, p)
             r == SubSeq(text, p + 1, q)
  <2>1. SubSeq(text, 0 + 1, q) = l \o r /\ l \in Seq(OB!Bytes) /\ r \in Seq(OB!Bytes)
    BY <1>1, <1>3, <1>7, CutInTwo
  <2>2. 0 + 1 = 1
    OBVIOUS
  <2>3. d.text = OB!Shown(r)
    BY <1>9
  <2>4. SubSeq(text, 1, q) = l \o r /\ SubSeq(text, 1, p) = l
    BY <2>1, <2>2
  <2> HIDE DEF l, r
  <2>5. OB!Shown(l \o r) = OB!Shown(l) \o OB!Shown(r) /\ OB!Shown(r) \in Seq(OB!Bytes)
    BY <2>1, ShownConcat
  <2> QED BY <2>3, <2>4, <2>5
<1>15. OB!Shown(SubSeq(text, 1, h)) = OB!Shown(SubSeq(text, 1, taken)) \o d.text
  BY <1>13, <1>14
<1>16. OB!Decode(utf8 \o SubSeq(text, taken + 1, h)) = d
  BY <1>4 DEF d
<1> QED BY <1>12, <1>14, <1>15, <1>16

\* The next chunk: the text of its characters joins the batch, or goes out with it.
LEMMA TakeKeeps ==
  ASSUME BatchInv, OB!TakeChunk
  PROVE  BatchInv'
<1> DEFINE h == Head(chunks)
           d == OB!Decode(utf8 \o SubSeq(text, taken + 1, h))
           grown == batch \o d.text
<1>1. /\ chunks # <<>> /\ loop = "running"
      /\ utf8' = d.rest /\ taken' = h /\ chunks' = Tail(chunks) /\ holds' = 0 /\ text' = text
      /\ IF d.text # <<>> /\ OB!Ready(grown) THEN OB!Flush(grown)
         ELSE batch' = grown /\ UNCHANGED <<frames, loop>>
  BY DEF OB!TakeChunk
<1>2. /\ text \in Seq(OB!Bytes) /\ taken \in 0..Len(text) /\ Len(text) \in Nat
      /\ batch \in Seq(OB!Bytes) /\ frames \in Seq(OB!Bytes)
      /\ Len(text) <= MaxText /\ OB!Valid(text)
      /\ frames \o batch = OB!Shown(SubSeq(text, 1, taken))
  BY DEF BatchInv, BatchTypes, TextIsWhole, OB!TextIsWhole
<1>3. /\ chunks \in Seq(Nat \ {0}) /\ Len(chunks) \in Nat \ {0} /\ Len(chunks) <= MaxChunks
      /\ h = chunks[1]
      /\ \A i \in 1..Len(chunks) :
           /\ taken <= chunks[i] /\ chunks[i] <= Len(text)
           /\ \A j \in i..Len(chunks) : chunks[i] <= chunks[j]
  <2>1. chunks \in Seq(Nat \ {0})
    BY DEF BatchInv, ChunksInOrder
  <2>2. Len(chunks) \in Nat \ {0} /\ h = chunks[1]
    BY <1>1, <2>1
  <2> HIDE DEF h
  <2> QED BY <2>1, <2>2 DEF BatchInv, ChunksInOrder
<1> HIDE DEF h
<1>4. h \in taken..Len(text) /\ h \in Nat
  <2>1. 1 \in 1..Len(chunks) /\ chunks[1] \in Nat
    BY <1>3
  <2> QED BY <1>2, <1>3, <2>1
<1>5. /\ d.text \in Seq(OB!Bytes)
      /\ \E p \in 0..h : HeldFrom(text, h, d.rest, p)
      /\ OB!Shown(SubSeq(text, 1, h)) = OB!Shown(SubSeq(text, 1, taken)) \o d.text
  BY <1>4, NextDecoded
<1> HIDE DEF d
<1>6. grown \in Seq(OB!Bytes)
  BY <1>2, <1>5
<1>7. frames \o grown = OB!Shown(SubSeq(text, 1, h)) /\ frames \o grown \in Seq(OB!Bytes)
  <2> DEFINE c == d.text
             s == OB!Shown(SubSeq(text, 1, taken))
             z == OB!Shown(SubSeq(text, 1, h))
  <2>1. c \in Seq(OB!Bytes) /\ frames \o batch = s /\ z = s \o c
    BY <1>2, <1>5
  <2> HIDE DEF c, s, z
  <2>2. (frames \o batch) \o c = frames \o (batch \o c)
    <3>1. InAnyOrder(frames, batch, c)
      BY <1>2, <2>1, Joined
    <3> QED BY <3>1 DEF InAnyOrder
  <2>3. frames \o (batch \o c) = z
    BY <2>1, <2>2
  <2>4. frames \o (batch \o c) \in Seq(OB!Bytes)
    BY <1>2, <1>6, ConcatProperties DEF c
  <2> QED BY <2>3, <2>4 DEF c, z
<1> HIDE DEF grown
<1>8. /\ frames' \o batch' = frames \o grown
      /\ frames' \in Seq(OB!Bytes) /\ batch' \in Seq(OB!Bytes)
      /\ loop' \in {"running", "failed"}
  <2>1. CASE UNCHANGED <<frames, loop>> /\ batch' = grown
    BY <1>1, <1>2, <1>6, <2>1
  <2>2. CASE OB!Flush(grown)
    <3>1. CASE frames' = frames \o grown /\ batch' = <<>> /\ UNCHANGED loop
      <4>1. (frames \o grown) \o <<>> = frames \o grown
        BY <1>7, ConcatEmptySeq
      <4> QED BY <1>1, <1>7, <3>1, <4>1
    <3>2. CASE loop' = "failed" /\ batch' = grown /\ UNCHANGED frames
      BY <1>2, <1>6, <3>2
    <3> QED BY <2>2, <3>1, <3>2 DEF OB!Flush
  <2> QED BY <1>1, <2>1, <2>2
<1>9. BatchTypes'
  BY <1>1, <1>2, <1>4, <1>8 DEF BatchTypes
<1>10. ChunksInOrder'
  <2> DEFINE m == Len(chunks)
  <2>1. /\ chunks' \in Seq(Nat \ {0}) /\ Len(chunks') = m - 1
        /\ \A i \in 1..m - 1 : chunks'[i] = chunks[i + 1]
    BY <1>1, <1>3, HeadTailProperties
  <2>2. m \in Nat \ {0} /\ \A i \in 1..m - 1 : i + 1 \in 1..m
    BY <1>3
  <2>3. Len(chunks') <= MaxChunks
    BY <1>3, <2>1, <2>2, TextIsBounded
  <2>4. ASSUME NEW i \in 1..m - 1
        PROVE  /\ h <= chunks'[i] /\ chunks'[i] <= Len(text)
               /\ \A j \in i..m - 1 : chunks'[i] <= chunks'[j]
    <3>1. i + 1 \in 1..m /\ 1 \in 1..m /\ i + 1 \in 1..m /\ chunks'[i] = chunks[i + 1]
      BY <2>1, <2>2
    <3>2. h <= chunks'[i] /\ chunks'[i] <= Len(text)
      BY <1>3, <3>1
    <3>3. ASSUME NEW j \in i..m - 1 PROVE chunks'[i] <= chunks'[j]
      <4>1. j \in 1..m - 1 /\ j + 1 \in i + 1..m /\ chunks'[j] = chunks[j + 1]
        BY <2>1, <2>2
      <4> QED BY <1>3, <3>1, <4>1
    <3> QED BY <3>2, <3>3
  <2> HIDE DEF m
  <2> QED BY <1>1, <2>1, <2>3, <2>4 DEF ChunksInOrder
<1>11. StartIsHeld'
  BY <1>1, <1>5 DEF StartIsHeld
<1>12. TextIsWhole'
  BY <1>1, <1>7, <1>8 DEF TextIsWhole, OB!TextIsWhole
<1> QED BY <1>9, <1>10, <1>11, <1>12 DEF BatchInv

\* is kept by every step,
LEMMA BatchStep == BatchInv /\ [OB!Next]_(OB!vars) => BatchInv'
<1> SUFFICES ASSUME BatchInv, [OB!Next]_(OB!vars) PROVE BatchInv'
  OBVIOUS
<1>1. /\ batch \in Seq(OB!Bytes) /\ frames \in Seq(OB!Bytes) /\ frames \o batch \in Seq(OB!Bytes)
      /\ holds \in 0..1 /\ loop \in {"running", "ended", "failed", "cancelled"}
  BY DEF BatchInv, BatchTypes
<1>2. (frames \o batch) \o <<>> = frames \o batch /\ <<>> \in Seq(OB!Bytes)
  BY <1>1, ConcatEmptySeq
<1>3. CASE OB!PutChunk
  BY <1>3, PutKeeps
<1>4. CASE OB!TakeChunk
  BY <1>4, TakeKeeps
<1>5. CASE OB!Pause
  <2>1. UNCHANGED <<text, chunks, taken, utf8>>
    BY <1>5 DEF OB!Pause
  <2>2. CASE OB!Held
    <3>1. holds' = holds + 1 /\ UNCHANGED <<batch, frames, loop>> /\ holds + 1 < 2
      BY <1>5, <2>2 DEF OB!Pause, OB!Held, OB!Waited
    <3>2. holds' \in 0..1
      BY <1>1, <3>1
    <3> QED BY <1>1, <2>1, <3>1, <3>2, SentLater
  <2>3. CASE ~OB!Held
    <3>1. holds' = 0 /\ OB!Flush(batch)
      BY <1>5, <2>3 DEF OB!Pause
    <3>2. CASE frames' = frames \o batch /\ batch' = <<>> /\ UNCHANGED loop
      BY <1>1, <1>2, <2>1, <3>1, <3>2, SentLater
    <3>3. CASE loop' = "failed" /\ batch' = batch /\ UNCHANGED frames
      BY <1>1, <2>1, <3>1, <3>3, SentLater
    <3> QED BY <3>1, <3>2, <3>3 DEF OB!Flush
  <2> QED BY <2>2, <2>3
<1>6. CASE OB!TakeEnd
  <2>1. UNCHANGED <<text, chunks, taken, utf8, holds>>
    BY <1>6 DEF OB!TakeEnd
  <2>2. CASE frames' = frames \o batch /\ loop' = "ended" /\ batch' = <<>>
    BY <1>1, <1>2, <2>1, <2>2, SentLater
  <2>3. CASE loop' = "failed" /\ UNCHANGED <<frames, batch>>
    BY <1>1, <2>1, <2>3, SentLater
  <2> QED BY <1>6, <2>2, <2>3 DEF OB!TakeEnd
<1>7. CASE OB!Cancel
  <2>1. /\ UNCHANGED <<text, chunks, taken, utf8, holds>>
        /\ frames' = frames \o batch /\ batch' = <<>> /\ loop' = "cancelled"
    BY <1>7 DEF OB!Cancel
  <2> QED BY <1>1, <1>2, <2>1, SentLater
<1>8. CASE UNCHANGED OB!vars
  BY <1>1, <1>8, SentLater DEF OB!vars
<1> QED BY <1>3, <1>4, <1>5, <1>6, <1>7, <1>8 DEF OB!Next

\* A step of the server is a step of the batch loop or leaves it alone.
LEMMA BatchLift == [ServerNext]_ServerVars => [OB!Next]_(OB!vars)
BY DEF ServerNext, ServerVars, batching, OB!vars

\* and so holds always.
LEMMA BatchAlways == ServerSpec => []BatchInv
<1>1. ServerInit => BatchInv
  BY BatchInit DEF ServerInit
<1>2. BatchInv /\ [ServerNext]_ServerVars => BatchInv'
  BY BatchStep, BatchLift
<1> QED BY <1>1, <1>2, PTL DEF ServerSpec

\* Services/_output_batch.py: however the bytes of the program are cut into chunks, and
\* whenever the loop sends, no character is lost, doubled or replaced.
THEOREM TextStaysWhole == ServerSpec => []TextIsWhole
<1>1. BatchInv => TextIsWhole
  BY DEF BatchInv
<1> QED BY <1>1, BatchAlways, PTL

\* It has the types.
LEMMA BatchTypesOK == BatchInv => OB!TypeOK
<1> SUFFICES ASSUME BatchInv PROVE OB!TypeOK
  OBVIOUS
<1>1. PICK p \in 0..taken : HeldFrom(text, taken, utf8, p)
  BY DEF BatchInv, StartIsHeld
<1>2. /\ text \in Seq(OB!Bytes) /\ taken \in 0..Len(text) /\ Len(text) \in Nat
      /\ Len(text) <= MaxText /\ p \in Nat /\ p <= taken /\ taken \in Nat
  BY DEF BatchInv, BatchTypes
<1>3. utf8 \in Seq(OB!Bytes) /\ Len(utf8) = taken - p /\ taken - p <= 3
  BY <1>1, <1>2, PartOf DEF HeldFrom
<1>4. chunks \in Seq(1..MaxText) /\ Len(chunks) <= MaxChunks
  <2>1. /\ chunks \in Seq(Nat \ {0}) /\ Len(chunks) <= MaxChunks
        /\ \A i \in 1..Len(chunks) : chunks[i] <= Len(text)
    BY DEF BatchInv, ChunksInOrder
  <2>2. \A i \in 1..Len(chunks) : chunks[i] \in 1..MaxText
    BY <1>2, <2>1, TextIsBounded
  <2>3. chunks \in [1..Len(chunks) -> 1..MaxText] /\ Len(chunks) \in Nat
    BY <2>1, <2>2, LenProperties
  <2>4. PICK n \in Nat : chunks \in [1..n -> 1..MaxText]
    BY <2>3
  <2>5. chunks \in Seq(1..MaxText)
    <3> DEFINE T == 1..MaxText
    <3>1. chunks \in [1..n -> T]
      BY <2>4
    <3> HIDE DEF T
    <3>2. chunks \in Seq(T)
      BY <3>1, SeqOf
    <3> QED BY <3>2 DEF T
  <2> QED BY <2>1, <2>5
<1>5. taken \in 0..MaxText
  BY <1>2, TextIsBounded
<1> QED BY <1>2, <1>3, <1>4, <1>5 DEF BatchInv, BatchTypes, OB!TypeOK

-------------------------------------------------------------------------------
(***************************************************************************)
(* The types of all of them.                                               *)
(***************************************************************************)

\* What is known of the views has their types; the counts are within the views.
LEMMA ViewTypesOK == ViewInv => TypeOK
<1> SUFFICES ASSUME ViewInv PROVE TypeOK
  OBVIOUS
<1>1. Working(view) \subseteq Views /\ Holding(view) \subseteq Views
  BY DEF Working, Holding
<1>2. /\ Cardinality(Working(view)) \in Nat /\ Cardinality(Working(view)) <= Cardinality(Views)
      /\ Cardinality(Holding(view)) \in Nat /\ Cardinality(Holding(view)) <= Cardinality(Views)
      /\ Cardinality(Views) \in Nat
  BY <1>1, ViewsAreFinite, FS_Subset, FS_CardinalityType
<1>3. active = Cardinality(Working(view)) /\ refs \in Nat /\ refs <= Cardinality(Holding(view))
  BY DEF ViewInv, Counts
<1>4. active \in 0..Cardinality(Views) /\ refs \in 0..Cardinality(Views)
  BY <1>2, <1>3
<1> QED BY <1>4 DEF ViewInv, ViewTypes, View, Stages, TypeOK

\* The record of a run is kept within the limit.
LEMMA RecordKept ==
  ASSUME NEW R, history \in Seq(R), Len(history) <= HistoryLimit,
         NEW run, NEW result, [run |-> run, result |-> result] \in R
  PROVE  MA!Record(run, result) \in Seq(R) /\ Len(MA!Record(run, result)) <= HistoryLimit
<1> DEFINE one == [run |-> run, result |-> result]
           all == Append(history, one)
<1>1. all \in Seq(R) /\ Len(all) = Len(history) + 1 /\ Len(history) \in Nat
  BY AppendProperties, LenProperties
<1>2. MA!Record(run, result) = IF Len(all) > HistoryLimit THEN Tail(all) ELSE all
  BY DEF MA!Record
<1> HIDE DEF all
<1>3. all # <<>>
  BY <1>1
<1>4. Tail(all) \in Seq(R) /\ Len(Tail(all)) = Len(all) - 1
  BY <1>1, <1>3, HeadTailProperties
<1> QED BY <1>1, <1>2, <1>4, RunsAreBounded

\* Maintenance keeps its types.
LEMMA CycleTypesOK ==
  /\ MA!Init => MA!TypeOK
  /\ MA!TypeOK /\ [MA!Next]_(MA!vars) => MA!TypeOK'
<1>1. ASSUME MA!Init PROVE MA!TypeOK
  <2>1. 0 \in 0..MaxRuns /\ 0 <= HistoryLimit
    BY RunsAreBounded
  <2>2. history \in Seq([run : 1..MaxRuns + 1, result : {"skipped", "success", "failed"}])
        /\ Len(history) = 0
    BY <1>1 DEF MA!Init
  <2>3. cycle \in [MA!Runs -> [at : MA!Stages, read : SUBSET Projects,
                               reason : {"startup", "interval", "manual"}]]
    BY <1>1 DEF MA!Init, MA!Stages
  <2>4. status \in [state : {"idle", "running"}, error : BOOLEAN, runs : 0..MaxRuns]
    BY <1>1, <2>1 DEF MA!Init
  <2> QED BY <1>1, <2>1, <2>2, <2>3, <2>4 DEF MA!Init, MA!TypeOK
<1>2. ASSUME MA!TypeOK, [MA!Next]_(MA!vars) PROVE MA!TypeOK'
  <2> DEFINE R == [run : 1..MaxRuns + 1, result : {"skipped", "success", "failed"}]
             History == history \in Seq(R) /\ Len(history) <= HistoryLimit
             Threads == cycle \in [MA!Runs -> [at : MA!Stages, read : SUBSET Projects,
                                               reason : {"startup", "interval", "manual"}]]
             Status == status \in [state : {"idle", "running"}, error : BOOLEAN, runs : 0..MaxRuns]
             World == /\ catalog \subseteq Projects /\ tetherUp \in BOOLEAN
                      /\ rows \subseteq Projects
                      /\ files \in [Uploads -> {"none", "young", "old"}]
  <2>1. History /\ Threads /\ Status /\ World /\ lock \in 0..MaxRuns /\ stopped \in BOOLEAN
    BY <1>2 DEF MA!TypeOK
  <2>2. ASSUME History', Threads', Status', World', lock' \in 0..MaxRuns, stopped' \in BOOLEAN
        PROVE  MA!TypeOK'
    BY <2>2 DEF MA!TypeOK
  <2>3. ASSUME NEW n \in MA!Runs, MA!Cycle(n) PROVE MA!TypeOK'
    <3>1. n \in 1..MaxRuns + 1
      BY RunsAreBounded DEF MA!Runs
    <3>2. CASE MA!FinishCycle(n)
      <4>1. /\ lock' = 0 /\ UNCHANGED <<catalog, tetherUp, rows, files, cycle, stopped>>
            /\ history' = MA!Record(n, IF cycle[n].at = "done" THEN "success" ELSE "failed")
            /\ status' = [status EXCEPT !.state = "idle", !.error = cycle[n].at = "failed"]
        BY <3>2 DEF MA!FinishCycle, MA!world
      <4>2. [run |-> n, result |-> IF cycle[n].at = "done" THEN "success" ELSE "failed"] \in R
        BY <3>1
      <4>3. History'
        <5> HIDE DEF R
        <5> QED BY <2>1, <4>1, <4>2, RecordKept
      <4>4. Status' /\ lock' \in 0..MaxRuns
        <5> DEFINE D == 0..MaxRuns
        <5>1. 0 \in D /\ status \in [state : {"idle", "running"}, error : BOOLEAN, runs : D]
          BY <2>1, RunsAreBounded
        <5> HIDE DEF D
        <5>2. status' \in [state : {"idle", "running"}, error : BOOLEAN, runs : D]
          BY <4>1, <5>1
        <5> QED BY <4>1, <5>1, <5>2 DEF D
      <4>5. Threads' /\ World' /\ stopped' \in BOOLEAN
        BY <2>1, <4>1
      <4> HIDE DEF History, Threads, Status, World
      <4> QED BY <2>2, <4>3, <4>4, <4>5
    <3>3. CASE MA!TidyLinks(n) \/ MA!ListUploads(n) \/ MA!ListProjects(n)
                 \/ MA!DeleteUploads(n) \/ MA!PruneSettings(n)
      <4>1. UNCHANGED <<catalog, tetherUp, lock, status, history, stopped>>
        BY <3>3 DEF MA!TidyLinks, MA!ListUploads, MA!DeleteUploads, MA!ListProjects,
                    MA!PruneSettings, MA!world, MA!record
      <4>2. rows' \subseteq Projects
        BY <2>1, <3>3 DEF MA!TidyLinks, MA!ListUploads, MA!DeleteUploads, MA!ListProjects,
                    MA!PruneSettings, MA!world, MA!Pruned
      <4>3. files' \in [Uploads -> {"none", "young", "old"}]
        <5>1. CASE MA!DeleteUploads(n)
          BY <2>1, <5>1 DEF MA!DeleteUploads
        <5>2. CASE ~MA!DeleteUploads(n)
          BY <2>1, <3>3, <5>2 DEF MA!TidyLinks, MA!ListUploads, MA!ListProjects,
                    MA!PruneSettings, MA!world
        <5> QED BY <5>1, <5>2
      <4>4. Threads'
        <5>1. \E a \in MA!Stages, r \in SUBSET Projects :
                \/ cycle' = [cycle EXCEPT ![n].at = a]
                \/ cycle' = [cycle EXCEPT ![n].at = a, ![n].read = r]
          <6>1. CASE MA!ListProjects(n)
            BY <2>1, <6>1 DEF MA!ListProjects, MA!Stages
          <6>2. CASE ~MA!ListProjects(n)
            BY <3>3, <6>2 DEF MA!TidyLinks, MA!ListUploads, MA!DeleteUploads,
                              MA!PruneSettings, MA!Stages
          <6> QED BY <6>1, <6>2
        <5> QED BY <2>1, <5>1
      <4> QED BY <2>1, <2>2, <4>1, <4>2, <4>3, <4>4
    <3> QED BY <2>3, <3>2, <3>3 DEF MA!Cycle
  <2>4. ASSUME NEW reason \in {"startup", "interval", "manual"}, MA!RunCycle(reason)
        PROVE  MA!TypeOK'
    <3> DEFINE run == status.runs + 1
    <3>1. UNCHANGED <<catalog, tetherUp, rows, files, stopped>>
      BY <2>4 DEF MA!RunCycle, MA!world
    <3>2. run \in 1..MaxRuns + 1
      BY <2>1, RunsAreBounded
    <3>3. CASE lock # 0
      <4>1. history' = MA!Record(run, "skipped") /\ UNCHANGED <<lock, status, cycle>>
        BY <2>4, <3>3 DEF MA!RunCycle, MA!Locked
      <4>2. [run |-> run, result |-> "skipped"] \in R
        BY <3>2
      <4>3. History'
        <5> HIDE DEF R, run
        <5> QED BY <2>1, <4>1, <4>2, RecordKept
      <4>4. Status' /\ Threads' /\ World' /\ lock' \in 0..MaxRuns /\ stopped' \in BOOLEAN
        BY <2>1, <3>1, <4>1
      <4> HIDE DEF History, Threads, Status, World
      <4> QED BY <2>2, <4>3, <4>4
    <3>4. CASE lock = 0
      <4>1. /\ lock' = run /\ run <= MaxRuns /\ history' = history
            /\ status' = [state |-> "running", error |-> FALSE, runs |-> run]
            /\ cycle' = [cycle EXCEPT ![run] = [at |-> "links", read |-> {}, reason |-> reason]]
        BY <2>4, <3>4 DEF MA!RunCycle, MA!Locked
      <4>2. run \in 0..MaxRuns
        BY <3>2, <4>1, RunsAreBounded
      <4> HIDE DEF run
      <4>3. Status' /\ lock' \in 0..MaxRuns /\ History'
        BY <2>1, <4>1, <4>2
      <4>4. Threads'
        BY <2>1, <2>4, <4>1 DEF MA!Stages
      <4>5. World' /\ stopped' \in BOOLEAN
        BY <2>1, <3>1
      <4> HIDE DEF History, Threads, Status, World
      <4> QED BY <2>2, <4>3, <4>4, <4>5
    <3> QED BY <3>3, <3>4
  <2>5. CASE MA!Stop
    <3>1. /\ stopped' = TRUE /\ lock' \in {0, lock}
          /\ UNCHANGED <<catalog, tetherUp, rows, files, cycle, status, history>>
      BY <2>5 DEF MA!Stop, MA!world
    <3> QED BY <2>1, <2>2, <3>1, RunsAreBounded
  <2>6. ASSUME MA!Unaware, World' PROVE MA!TypeOK'
    BY <2>1, <2>2, <2>6 DEF MA!Unaware
  <2>7. ASSUME NEW p \in Projects, MA!Register(p) \/ MA!Unregister(p) \/ MA!UpsertSettings(p)
        PROVE  MA!TypeOK'
    <3>1. MA!Unaware /\ World'
      BY <2>1, <2>7 DEF MA!Register, MA!Unregister, MA!UpsertSettings
    <3> HIDE DEF World
    <3> QED BY <2>6, <3>1
  <2>8. ASSUME NEW f \in Uploads, MA!SaveUpload(f) \/ MA!Age(f) PROVE MA!TypeOK'
    <3>1. MA!Unaware /\ World'
      BY <2>1, <2>8 DEF MA!SaveUpload, MA!Age
    <3> HIDE DEF World
    <3> QED BY <2>6, <3>1
  <2>9. CASE MA!TetherComesAndGoes
    <3>1. MA!Unaware /\ World'
      BY <2>1, <2>9 DEF MA!TetherComesAndGoes
    <3> HIDE DEF World
    <3> QED BY <2>6, <3>1
  <2>10. CASE UNCHANGED MA!vars
    BY <2>1, <2>2, <2>10 DEF MA!vars
  <2> QED BY <1>2, <2>3, <2>4, <2>5, <2>7, <2>8, <2>9, <2>10 DEF MA!Next
<1> QED BY <1>1, <1>2

\* Events of one boot, and boots, within their bounds: a daemon that is down may start
\* once more.
Budgets ==
  \A i \in EW!Instances : /\ Len(tether[i].log) <= MaxEvents
                          /\ ~tether[i].up => tether[i].boot < MaxBoots

\* A daemon and a watcher within the bounds.
Boot == [up : BOOLEAN, socket : BOOLEAN, boot : 1..MaxBoots, log : Seq(Event)]
Reader == [phase : {"idle", "subscribe", "stream"}, seq : -1..MaxEvents,
           boot : {-1} \cup 1..MaxBoots, next : 0..MaxEvents + 1, gap : BOOLEAN,
           caughtUp : BOOLEAN, missed : SUBSET Sessions]
\* The types, with what is left of the budgets.
Watched == EW!TypeOK /\ Budgets

\* Where a daemon and a watcher may go.
LEMMA WatchedMoves ==
  ASSUME Watched, NEW i \in EW!Instances, NEW t \in Boot, NEW w \in Reader,
         tether' = [tether EXCEPT ![i] = t], watch' = [watch EXCEPT ![i] = w],
         Len(t.log) <= MaxEvents, ~t.up => t.boot < MaxBoots,
         linked' \subseteq linked, ended' \subseteq Sessions, seen' \subseteq EW!Instances,
         restarts' = restarts
  PROVE  Watched'
<1>1. /\ tether \in [EW!Instances -> Boot] /\ watch \in [EW!Instances -> Reader]
      /\ linked \subseteq Sessions /\ restarts \in 0..MaxRestarts
  BY DEF Watched, EW!TypeOK, Boot, Reader, Event, EW!None
<1>2. /\ tether' \in [EW!Instances -> Boot] /\ watch' \in [EW!Instances -> Reader]
      /\ tether'[i] = t /\ \A j \in EW!Instances \ {i} : tether'[j] = tether[j]
  BY <1>1
<1>3. Budgets'
  BY <1>2 DEF Watched, Budgets
<1>4. linked' \subseteq Sessions /\ restarts' \in 0..MaxRestarts
  BY <1>1
<1> HIDE DEF Boot, Reader
<1>5. EW!TypeOK'
  BY <1>2, <1>4 DEF EW!TypeOK, Boot, Reader, Event, EW!None
<1> QED BY <1>3, <1>5 DEF Watched

\* What they say of one instance.
LEMMA WatchedOne ==
  ASSUME Watched, NEW i \in EW!Instances
  PROVE  /\ tether[i] \in Boot /\ watch[i] \in Reader
         /\ Len(tether[i].log) \in Nat /\ Len(tether[i].log) <= MaxEvents
         /\ ~tether[i].up => tether[i].boot < MaxBoots
         /\ tether = [tether EXCEPT ![i] = tether[i]] /\ watch = [watch EXCEPT ![i] = watch[i]]
         /\ linked \subseteq Sessions /\ ended \subseteq Sessions /\ seen \subseteq EW!Instances
<1>1. /\ tether \in [EW!Instances -> Boot] /\ watch \in [EW!Instances -> Reader]
      /\ linked \subseteq Sessions /\ ended \subseteq Sessions /\ seen \subseteq EW!Instances
  BY DEF Watched, EW!TypeOK, Boot, Reader, Event, EW!None
<1>2. tether[i].log \in Seq(Event)
  BY <1>1 DEF Boot
<1>3. Len(tether[i].log) \in Nat
  BY <1>2, LenProperties
<1> QED BY <1>1, <1>3 DEF Watched, Budgets

\* A pass takes links away and learns who answered.
LEMMA PassWithin ==
  ASSUME Watched, EW!Reconcile
  PROVE  linked' \subseteq linked /\ seen' \subseteq EW!Instances
<1>1. seen \subseteq EW!Instances
  BY DEF Watched, EW!TypeOK
<1> QED BY <1>1 DEF EW!Reconcile, EW!Candidates

\* A session ends or is updated: one more event of its daemon, if it runs.
LEMMA LogsWithin ==
  ASSUME Watched, NEW s \in Sessions, EW!SessionEnds(s) \/ EW!SessionUpdates(s)
  PROVE  Watched'
<1> DEFINE i == Own(s)
           e(x) == [type |-> x, session |-> s]
           t(x) == IF ~tether[i].up THEN tether[i]
                   ELSE [tether[i] EXCEPT !.log = Append(@, e(x))]
<1>1. i \in EW!Instances /\ [r \in Sessions |-> IF r \in OfActive THEN "active" ELSE "agent"][s] = i
  BY DEF Own, EW!Instances
<1>2. /\ tether[i] \in Boot /\ watch[i] \in Reader
      /\ Len(tether[i].log) \in Nat /\ Len(tether[i].log) <= MaxEvents
      /\ ~tether[i].up => tether[i].boot < MaxBoots
      /\ tether = [tether EXCEPT ![i] = tether[i]] /\ watch = [watch EXCEPT ![i] = watch[i]]
      /\ linked \subseteq Sessions /\ ended \subseteq Sessions /\ seen \subseteq EW!Instances
  BY <1>1, WatchedOne
<1>3. PICK x \in {"ended", "updated"} : tether' = EW!Logged(s, e(x)) /\ EW!HasRoom(s)
  BY DEF EW!SessionEnds, EW!SessionUpdates
<1>4. Len(tether[i].log) < MaxEvents
  BY <1>1, <1>3 DEF EW!HasRoom
<1>5. tether' = [tether EXCEPT ![i] = t(x)]
  BY <1>1, <1>2, <1>3 DEF EW!Logged
<1>6. t(x) \in Boot /\ Len(t(x).log) <= MaxEvents /\ (~t(x).up => t(x).boot < MaxBoots)
  <2>1. CASE ~tether[i].up
    BY <1>2, <2>1
  <2>2. CASE tether[i].up
    <3>1. e(x) \in Event
      BY DEF Event
    <3>2. tether[i].log \in Seq(Event)
      BY <1>2 DEF Boot
    <3> HIDE DEF e
    <3>3. Append(tether[i].log, e(x)) \in Seq(Event)
          /\ Len(Append(tether[i].log, e(x))) = Len(tether[i].log) + 1
      BY <3>1, <3>2, AppendProperties
    <3>4. t(x) = [tether[i] EXCEPT !.log = Append(tether[i].log, e(x))]
      BY <2>2
    <3>5. Len(tether[i].log) + 1 <= MaxEvents
      BY <1>2, <1>4, EventsAreBounded
    <3> HIDE DEF t, i
    <3> QED BY <1>2, <2>2, <3>3, <3>4, <3>5 DEF Boot
  <2> QED BY <2>1, <2>2
<1>7. \E w \in Reader : watch' = [watch EXCEPT ![i] = w]
  <2>1. watch' = watch \/ watch' = [watch EXCEPT ![i].missed = @ \cup {s}]
    BY <1>1 DEF EW!SessionEnds, EW!SessionUpdates
  <2>2. [watch[i] EXCEPT !.missed = @ \cup {s}] \in Reader
    BY <1>2 DEF Reader
  <2> QED BY <1>2, <2>1, <2>2
<1>8. /\ linked' \subseteq linked /\ ended' \subseteq Sessions /\ seen' \subseteq EW!Instances
      /\ restarts' = restarts
  BY <1>2 DEF EW!SessionEnds, EW!SessionUpdates
<1> HIDE DEF t, i, e
<1> QED BY <1>1, <1>5, <1>6, <1>7, <1>8, WatchedMoves

\* A daemon stops only where another boot is left, and the next has an empty log.
LEMMA BootsWithin ==
  ASSUME Watched, NEW i \in EW!Instances, EW!DaemonStops(i) \/ EW!DaemonStarts(i)
  PROVE  Watched'
<1>1. /\ tether[i] \in Boot /\ watch[i] \in Reader
      /\ Len(tether[i].log) \in Nat /\ Len(tether[i].log) <= MaxEvents
      /\ ~tether[i].up => tether[i].boot < MaxBoots
      /\ tether = [tether EXCEPT ![i] = tether[i]] /\ watch = [watch EXCEPT ![i] = watch[i]]
      /\ linked \subseteq Sessions /\ ended \subseteq Sessions /\ seen \subseteq EW!Instances
  BY WatchedOne
<1>2. /\ linked' = linked /\ ended' = ended /\ seen' = seen /\ restarts' = restarts
      /\ linked' \subseteq linked /\ ended' \subseteq Sessions /\ seen' \subseteq EW!Instances
  BY <1>1 DEF EW!DaemonStops, EW!DaemonStarts
<1>3. CASE EW!DaemonStops(i)
  <2>1. PICK left \in BOOLEAN : tether' = [tether EXCEPT ![i].up = FALSE, ![i].socket = left]
    BY <1>3 DEF EW!DaemonStops
  <2> DEFINE t == [tether[i] EXCEPT !.up = FALSE, !.socket = left]
             w == [watch[i] EXCEPT !.phase = IF @ = "stream" THEN "idle" ELSE @]
  <2>2. tether' = [tether EXCEPT ![i] = t] /\ watch' = [watch EXCEPT ![i] = w]
    BY <1>1, <1>3, <2>1 DEF EW!DaemonStops
  <2>3. t \in Boot /\ t.log = tether[i].log /\ t.boot < MaxBoots
    BY <1>1, <1>3 DEF Boot, EW!DaemonStops
  <2>4. w \in Reader
    BY <1>1 DEF Reader
  <2> HIDE DEF t, w
  <2> QED BY <1>1, <1>2, <2>2, <2>3, <2>4, WatchedMoves
<1>4. CASE EW!DaemonStarts(i)
  <2> DEFINE t == [up |-> TRUE, socket |-> TRUE, boot |-> tether[i].boot + 1, log |-> <<>>]
  <2>1. tether' = [tether EXCEPT ![i] = t] /\ watch' = [watch EXCEPT ![i] = watch[i]]
    BY <1>1, <1>4 DEF EW!DaemonStarts
  <2>2. tether[i].boot + 1 \in 1..MaxBoots
    <3>1. tether[i].boot \in 1..MaxBoots /\ tether[i].boot < MaxBoots
      BY <1>1, <1>4 DEF Boot, EW!DaemonStarts
    <3> QED BY <3>1, EventsAreBounded
  <2>3. t \in Boot /\ Len(t.log) <= MaxEvents /\ t.up
    BY <2>2, EventsAreBounded DEF Boot
  <2> HIDE DEF t
  <2> QED BY <1>1, <1>2, <2>1, <2>3, WatchedMoves
<1> QED BY <1>3, <1>4

\* The watcher's own steps move its cursor within the log.
LEMMA ReadsWithin ==
  ASSUME Watched, NEW i \in EW!Instances,
         \/ EW!Connect(i) \/ EW!Subscribe(i) \/ EW!StreamBreaks(i) \/ EW!Heartbeat(i)
         \/ EW!HandleGap(i) \/ EW!HandleEvent(i)
  PROVE  Watched'
<1>1. /\ tether[i] \in Boot /\ watch[i] \in Reader
      /\ Len(tether[i].log) \in Nat /\ Len(tether[i].log) <= MaxEvents
      /\ ~tether[i].up => tether[i].boot < MaxBoots
      /\ tether = [tether EXCEPT ![i] = tether[i]] /\ watch = [watch EXCEPT ![i] = watch[i]]
      /\ linked \subseteq Sessions /\ ended \subseteq Sessions /\ seen \subseteq EW!Instances
  BY WatchedOne
<1>2. /\ tether' = [tether EXCEPT ![i] = tether[i]] /\ ended' \subseteq Sessions
      /\ restarts' = restarts
  BY <1>1 DEF EW!Connect, EW!Subscribe, EW!StreamBreaks, EW!Heartbeat, EW!HandleGap,
              EW!HandleEvent
<1>3. linked' \subseteq linked /\ seen' \subseteq EW!Instances
  <2>1. EW!Reconcile \/ (linked' = linked /\ seen' = seen)
        \/ (EW!HandleEvent(i) /\ seen' = seen)
    BY DEF EW!Connect, EW!Subscribe, EW!StreamBreaks, EW!Heartbeat, EW!HandleGap,
           EW!HandleEvent
  <2>2. EW!HandleEvent(i) => linked' \subseteq linked
    BY DEF EW!HandleEvent
  <2> QED BY <1>1, <2>1, <2>2, PassWithin
<1>4. /\ MaxEvents \in Nat /\ watch[i].seq \in -1..MaxEvents /\ watch[i].next \in 0..MaxEvents + 1
      /\ tether[i].boot \in 1..MaxBoots
      /\ watch[i].boot \in {-1} \cup 1..MaxBoots
  BY <1>1, EventsAreBounded DEF Reader, Boot
<1>5. watch[i].next - 1 \in -1..MaxEvents /\ EW!None \in -1..MaxEvents
      /\ watch[i].seq + 1 \in 0..MaxEvents + 1
      /\ Len(tether[i].log) + 1 \in 0..MaxEvents + 1
  <2> DEFINE seq == watch[i].seq
             next == watch[i].next
             len == Len(tether[i].log)
  <2>1. /\ MaxEvents \in Nat /\ seq \in Int /\ -1 <= seq /\ seq <= MaxEvents
        /\ next \in Nat /\ next <= MaxEvents + 1 /\ len \in Nat /\ len <= MaxEvents
    BY <1>1, <1>4
  <2> HIDE DEF seq, next, len
  <2>2. /\ next - 1 \in Int /\ -1 <= next - 1 /\ next - 1 <= MaxEvents
        /\ seq + 1 \in Int /\ 0 <= seq + 1 /\ seq + 1 <= MaxEvents + 1
        /\ len + 1 \in Int /\ 0 <= len + 1 /\ len + 1 <= MaxEvents + 1
        /\ -1 \in Int /\ -1 <= -1 /\ -1 <= MaxEvents
    BY <2>1
  <2>3. next - 1 \in -1..MaxEvents
    BY <2>1, <2>2
  <2>4. seq + 1 \in 0..MaxEvents + 1 /\ len + 1 \in 0..MaxEvents + 1
    BY <2>1, <2>2
  <2>5. EW!None \in -1..MaxEvents
    BY <2>1, <2>2 DEF EW!None
  <2> QED BY <2>3, <2>4, <2>5 DEF seq, next, len
<1>6. \E w \in Reader : watch' = [watch EXCEPT ![i] = w]
  <2>1. ASSUME EW!Connect(i) PROVE \E w \in Reader : watch' = [watch EXCEPT ![i] = w]
    <3>1. \E c \in BOOLEAN, m \in SUBSET Sessions :
            watch' = [watch EXCEPT ![i] = [watch[i] EXCEPT !.phase = "subscribe", !.caughtUp = c, !.missed = m]]
      <4>1. CASE EW!Resuming(watch[i])
        <5>1. watch' = [watch EXCEPT ![i] = [watch[i] EXCEPT !.phase = "subscribe"]]
          BY <1>1, <2>1, <4>1 DEF EW!Connect
        <5>2. [watch[i] EXCEPT !.phase = "subscribe"]
               = [watch[i] EXCEPT !.phase = "subscribe", !.caughtUp = watch[i].caughtUp, !.missed = watch[i].missed]
          BY <1>1 DEF Reader
        <5>3. watch[i].caughtUp \in BOOLEAN /\ watch[i].missed \in SUBSET Sessions
          BY <1>1 DEF Reader
        <5> QED BY <5>1, <5>2, <5>3
      <4>2. CASE ~EW!Resuming(watch[i])
        <5>1. watch' = [watch EXCEPT ![i].phase = "subscribe", ![i].caughtUp = EW!FanOut(seen), ![i].missed = {}]
          BY <2>1, <4>2 DEF EW!Connect
        <5>2. EW!FanOut(seen) \in BOOLEAN
          BY DEF EW!FanOut
        <5>3. watch' = [watch EXCEPT ![i] = [watch[i] EXCEPT !.phase = "subscribe", !.caughtUp = EW!FanOut(seen), !.missed = {}]]
          BY <1>1, <5>1
        <5> QED BY <5>2, <5>3
      <4> QED BY <4>1, <4>2
    <3> QED BY <1>1, <3>1 DEF Reader
  <2>2. ASSUME EW!Subscribe(i) PROVE \E w \in Reader : watch' = [watch EXCEPT ![i] = w]
    <3> DEFINE w == watch[i]
               hello == EW!Hello(w, i)
    <3>1. hello \in Reader
      <4>1. \E q \in -1..MaxEvents : hello = [w EXCEPT !.seq = q, !.boot = tether[i].boot]
        BY <1>4, <1>5 DEF EW!Hello
      <4> QED BY <1>1, <1>4, <4>1 DEF Reader
    <3>2. \E g \in BOOLEAN, n \in {w.seq + 1, Len(tether[i].log) + 1} :
            \/ watch' = [watch EXCEPT ![i] = [w EXCEPT !.phase = "idle"]]
            \/ watch' = [watch EXCEPT ![i] = [hello EXCEPT !.phase = "stream", !.gap = g, !.next = n]]
      BY <2>2 DEF EW!Subscribe, EW!Resuming
    <3>3. [w EXCEPT !.phase = "idle"] \in Reader
      BY <1>1 DEF Reader
    <3> HIDE DEF hello
    <3>4. \A g \in BOOLEAN, n \in {w.seq + 1, Len(tether[i].log) + 1} :
            [hello EXCEPT !.phase = "stream", !.gap = g, !.next = n] \in Reader
      BY <1>5, <3>1 DEF Reader
    <3> QED BY <3>2, <3>3, <3>4
  <2>3. ASSUME EW!StreamBreaks(i) PROVE \E w \in Reader : watch' = [watch EXCEPT ![i] = w]
    <3>1. watch' = [watch EXCEPT ![i] = [watch[i] EXCEPT !.phase = "idle"]]
      BY <1>1, <2>3 DEF EW!StreamBreaks
    <3>2. [watch[i] EXCEPT !.phase = "idle"] \in Reader
      BY <1>1 DEF Reader
    <3> QED BY <3>1, <3>2
  <2>4. ASSUME EW!Heartbeat(i) PROVE \E w \in Reader : watch' = [watch EXCEPT ![i] = w]
    <3>1. watch' = [watch EXCEPT ![i] = [watch[i] EXCEPT !.seq = watch[i].next - 1]]
      BY <1>1, <2>4 DEF EW!Heartbeat
    <3>2. [watch[i] EXCEPT !.seq = watch[i].next - 1] \in Reader
      BY <1>1, <1>5 DEF Reader
    <3> QED BY <3>1, <3>2
  <2>5. ASSUME EW!HandleGap(i) PROVE \E w \in Reader : watch' = [watch EXCEPT ![i] = w]
    <3> DEFINE w == [watch[i] EXCEPT !.seq = watch[i].next - 1, !.gap = FALSE,
                                     !.caughtUp = EW!FanOut(seen), !.missed = {}]
    <3>1. watch' = [watch EXCEPT ![i] = w]
      BY <1>1, <2>5 DEF EW!HandleGap
    <3>2. EW!FanOut(seen) \in BOOLEAN
      BY DEF EW!FanOut
    <3>3. w \in Reader
      BY <1>1, <1>5, <3>2 DEF Reader
    <3> HIDE DEF w
    <3> QED BY <3>1, <3>3
  <2>6. ASSUME EW!HandleEvent(i) PROVE \E w \in Reader : watch' = [watch EXCEPT ![i] = w]
    <3>1. /\ watch' = [watch EXCEPT ![i] = [watch[i] EXCEPT !.seq = watch[i].next, !.next = @ + 1]]
          /\ watch[i].next <= Len(tether[i].log)
      BY <2>6 DEF EW!HandleEvent
    <3>2. watch[i].next \in -1..MaxEvents /\ watch[i].next + 1 \in 0..MaxEvents + 1
      BY <1>1, <1>4, <3>1
    <3>3. [watch[i] EXCEPT !.seq = watch[i].next, !.next = @ + 1] \in Reader
      BY <1>1, <3>2 DEF Reader
    <3> QED BY <3>1, <3>3
  <2> QED BY <2>1, <2>2, <2>3, <2>4, <2>5, <2>6
<1> QED BY <1>1, <1>2, <1>3, <1>6, WatchedMoves

\* A-Term's restart, and the start.
LEMMA WatchedSteps ==
  /\ EW!Init => Watched
  /\ Watched /\ [EW!Next]_(EW!vars) => Watched'
<1>1. EW!Started \in Reader
  <2>1. -1 \in -1..MaxEvents /\ 0 \in 0..MaxEvents + 1
    BY EventsAreBounded
  <2> QED BY <2>1 DEF EW!Started, EW!None, Reader
<1>2. ASSUME EW!Init PROVE Watched
  <2> DEFINE t == [up |-> TRUE, socket |-> TRUE, boot |-> 1, log |-> <<>>]
  <2>1. t \in Boot /\ Len(t.log) <= MaxEvents /\ t.up
    BY EventsAreBounded DEF Boot
  <2>2. tether = [i \in EW!Instances |-> t] /\ watch = [i \in EW!Instances |-> EW!Started]
        /\ ended = {} /\ linked = Sessions /\ seen = {} /\ restarts = 0
    BY <1>2 DEF EW!Init
  <2> HIDE DEF t, EW!Started, Boot, Reader
  <2>3. tether \in [EW!Instances -> Boot] /\ watch \in [EW!Instances -> Reader] /\ Budgets
    BY <1>1, <2>1, <2>2 DEF Budgets
  <2>4. restarts \in 0..MaxRestarts
    BY <2>2, EventsAreBounded
  <2> QED BY <2>2, <2>3, <2>4 DEF Watched, EW!TypeOK, Boot, Reader, Event, EW!None
<1>3. ASSUME Watched, EW!Restart PROVE Watched'
  <2>1. /\ restarts < MaxRestarts /\ restarts' = restarts + 1 /\ seen' = {}
        /\ watch' = [i \in EW!Instances |-> EW!Started]
        /\ UNCHANGED <<tether, ended, linked>>
    BY <1>3 DEF EW!Restart
  <2>2. restarts' \in 0..MaxRestarts
    BY <1>3, <2>1, EventsAreBounded DEF Watched, EW!TypeOK
  <2> HIDE DEF EW!Started
  <2>3. watch' \in [EW!Instances -> Reader]
    BY <1>1, <2>1
  <2>4. Budgets'
    BY <1>3, <2>1 DEF Watched, Budgets
  <2>5. EW!TypeOK'
    BY <1>3, <2>1, <2>2, <2>3 DEF Watched, EW!TypeOK, Reader, EW!None
  <2> QED BY <2>4, <2>5 DEF Watched
<1>4. ASSUME Watched, UNCHANGED EW!vars PROVE Watched'
  BY <1>4 DEF EW!vars, Watched, Budgets, EW!TypeOK
<1> QED BY <1>2, <1>3, <1>4, LogsWithin, BootsWithin, ReadsWithin DEF EW!Next

\* The lengths of what is kept, and what the user has not dismissed.
Sized ==
  /\ Len(ring) <= Kept
  /\ known \in Seq(AS!Shows) /\ Len(known) <= Kept
  /\ undismissed \in Seq(AS!Shows) /\ Len(undismissed) <= Kept
  /\ visible \in BOOLEAN

\* A run of what was sent is of shows.
LEMMA RunOfShows ==
  ASSUME NEW q, Run(q), NEW last \in Nat, last <= MaxShows, \A i \in 1..Len(q) : q[i] <= last
  PROVE  q \in Seq(AS!Shows)
<1>1. q \in Seq(Nat) /\ Len(q) \in Nat /\ \A i \in 1..Len(q) : q[i] \in Nat /\ q[i] > 0
  BY RunFacts
<1>2. \A i \in 1..Len(q) : q[i] \in AS!Shows
  BY <1>1, ShowsAreBounded DEF AS!Shows
<1>3. q \in [1..Len(q) -> AS!Shows]
  BY <1>1, <1>2
<1> QED BY <1>1, <1>3, SeqOf

\* What is known of the shows has their types.
LEMMA ShowTypesOK == ShowInv /\ Sized => AS!TypeOK
<1> SUFFICES ASSUME ShowInv, Sized PROVE AS!TypeOK
  OBVIOUS
<1>1. /\ sent \in Nat /\ sent <= MaxShows /\ cursor \in Nat /\ cursor <= sent
      /\ Run(ring) /\ (ring # <<>> => ring[Len(ring)] = sent)
  BY DEF ShowInv
<1>2. sent \in 0..MaxShows /\ cursor \in AS!Shows \cup {AS!NoShow}
  BY <1>1, ShowsAreBounded DEF AS!Shows, AS!NoShow
<1>3. ring \in Seq(AS!Shows)
  <2>1. \A i \in 1..Len(ring) : ring[i] <= sent
    <3>1. /\ \A i \in 1..Len(ring) : ring[i] \in AS!ToSet(ring)
          /\ \A s \in AS!ToSet(ring) : s <= ring[Len(ring)]
          /\ ring \in Seq(Nat)
      BY <1>1, RunFacts
    <3>2. ring = <<>> => 1..Len(ring) = {}
      OBVIOUS
    <3> QED BY <1>1, <3>1, <3>2
  <2> QED BY <1>1, <2>1, RunOfShows
<1>4. answer = AS!Idle \/ answer \in Seq(AS!Shows)
  <2> SUFFICES ASSUME answer # AS!Idle PROVE answer \in Seq(AS!Shows)
    OBVIOUS
  <2>1. Answers(answer, cursor, sent, ring)
    BY DEF ShowInv
  <2>2. Run(answer) /\ \A i \in 1..Len(answer) : answer[i] <= sent
    BY <2>1 DEF Answers
  <2> QED BY <1>1, <2>2, RunOfShows
<1>5. pushed \in [AS!Shows -> Nat] /\ offered \in [AS!Shows -> Nat]
  BY DEF ShowInv
<1> QED BY <1>2, <1>3, <1>4, <1>5 DEF Sized, AS!TypeOK

\* Every step keeps the lengths.
LEMMA SizedSteps == ShowInv /\ Sized /\ [AS!Next]_(AS!vars) => Sized'
<1> DEFINE S == AS!Shows
<1> SUFFICES ASSUME ShowInv, Sized, [AS!Next]_(AS!vars) PROVE Sized'
  OBVIOUS
<1>1. /\ Len(ring) <= Kept /\ known \in Seq(S) /\ Len(known) <= Kept
      /\ undismissed \in Seq(S) /\ Len(undismissed) <= Kept /\ visible \in BOOLEAN
      /\ ring \in Seq(Nat) /\ sent \in Nat /\ Kept \in Nat /\ 0 <= Kept
      /\ (answer = AS!Idle \/ answer \in Seq(S))
  BY ShowTypesOK, ShowsAreBounded DEF Sized, ShowInv, Run, AS!TypeOK
<1>2. CASE AS!AgentSends \/ AS!DeliveredAgain
  <2>1. /\ \E s \in Nat : ring' = AS!Add(s)
        /\ UNCHANGED <<known, undismissed, visible>>
    BY <1>1, <1>2 DEF AS!AgentSends, AS!DeliveredAgain, AS!ReceiveShow, AS!browser
  <2>2. PICK s \in Nat : ring' = AS!Add(s)
    BY <2>1
  <2>3. CASE s \in AS!ToSet(ring)
    BY <1>1, <2>1, <2>2, <2>3 DEF AS!Add, Sized
  <2>4. CASE s \notin AS!ToSet(ring)
    <3>1. Append(ring, s) \in Seq(Nat)
      BY <1>1
    <3>2. ring' = AS!Last50(Append(ring, s))
      BY <2>2, <2>4 DEF AS!Add
    <3>3. Len(ring') <= Kept
      BY <3>1, <3>2, LastKept
    <3> QED BY <1>1, <2>1, <3>3 DEF Sized
  <2> QED BY <2>3, <2>4
<1>3. CASE AS!Answered
  <2> DEFINE c == known \o answer
             l == AS!Last50(c)
  <2>1. answer \in Seq(S) /\ known' = AS!Distinct(l)
    BY <1>1, <1>3 DEF AS!Answered
  <2>2. known' \in Seq(S) /\ Len(known') <= Kept
    <3>1. c \in Seq(S)
      BY <1>1, <2>1
    <3> HIDE DEF c
    <3>2. l \in Seq(S) /\ Len(l) <= Kept
      BY <3>1, LastKept
    <3> HIDE DEF l
    <3>3. AS!Distinct(l) \in Seq(S) /\ Len(AS!Distinct(l)) <= Len(l)
      BY <3>2, DistinctOf
    <3>4. Len(l) \in Nat /\ Len(AS!Distinct(l)) \in Nat
      BY <3>2, <3>3
    <3> QED BY <1>1, <2>1, <3>2, <3>3, <3>4
  <2>3. undismissed' \in Seq(S) /\ Len(undismissed') <= Kept
    <3>1. PICK r \in AS!Shows \cup {AS!NoShow} :
            undismissed' = AS!Last50(undismissed
              \o AS!At(answer, {i \in Fresh : answer[i] = r})
              \o AS!At(answer, {i \in Fresh : answer[i] # r}))
      BY <1>3 DEF AS!Answered, Fresh
    <3> DEFINE P == {i \in Fresh : answer[i] = r}
               Q == {i \in Fresh : answer[i] # r}
               d == undismissed \o AS!At(answer, P) \o AS!At(answer, Q)
    <3>2. P \subseteq 1..Len(answer) /\ Q \subseteq 1..Len(answer)
      BY <2>1 DEF Fresh
    <3>3. undismissed' = AS!Last50(d)
      BY <3>1
    <3> HIDE DEF P, Q
    <3>4. AS!At(answer, P) \in Seq(S)
      BY <2>1, <3>2, PlacedIn
    <3>5. AS!At(answer, Q) \in Seq(S)
      BY <2>1, <3>2, PlacedIn
    <3>6. d \in Seq(S)
      BY <1>1, <3>4, <3>5
    <3> HIDE DEF d, S
    <3>7. AS!Last50(d) \in Seq(S) /\ Len(AS!Last50(d)) <= Kept
      BY <3>6, LastKept
    <3> QED BY <3>3, <3>7
  <2>4. ring' = ring /\ visible' = visible
    BY <1>3 DEF AS!Answered, AS!server
  <2> QED BY <1>1, <2>2, <2>3, <2>4 DEF Sized
<1>4. CASE AS!Restart
  <2>1. ring' = <<>> /\ UNCHANGED <<known, undismissed, visible>>
    BY <1>4 DEF AS!Restart, AS!browser
  <2> QED BY <1>1, <2>1 DEF Sized
<1>5. CASE AS!Dismiss
  <2>1. undismissed # <<>> /\ undismissed' = Tail(undismissed) /\ UNCHANGED <<ring, known, visible>>
    BY <1>5 DEF AS!Dismiss, AS!server
  <2>2. undismissed' \in Seq(S) /\ Len(undismissed') = Len(undismissed) - 1
        /\ Len(undismissed) \in Nat
    BY <1>1, <2>1, HeadTailProperties, LenProperties
  <2>3. Len(undismissed') <= Kept
    BY <1>1, <2>2
  <2> QED BY <1>1, <2>1, <2>2, <2>3 DEF Sized
<1>6. CASE AS!Poll \/ AS!PollFails \/ AS!HideOrShow \/ UNCHANGED AS!vars
  <2>1. UNCHANGED <<ring, known, undismissed>> /\ visible' \in BOOLEAN
    BY <1>1, <1>6 DEF AS!Poll, AS!PollFails, AS!HideOrShow, AS!vars, AS!server
  <2> QED BY <1>1, <2>1 DEF Sized
<1> QED BY <1>2, <1>3, <1>4, <1>5, <1>6 DEF AS!Next

\* At the start there is nothing to keep.
LEMMA SizedInit == AS!Init => Sized
<1> SUFFICES ASSUME AS!Init PROVE Sized
  OBVIOUS
<1>1. ring = <<>> /\ known = <<>> /\ undismissed = <<>> /\ visible = TRUE
  BY DEF AS!Init
<1>2. <<>> \in Seq(AS!Shows) /\ Len(<<>>) = 0 /\ 0 <= Kept
  BY ShowsAreBounded
<1> QED BY <1>1, <1>2 DEF Sized

\* Every component of the server keeps its types, whatever the bounds are.
THEOREM ServerTypes == ServerSpec => []TypesOK
<1>1. ServerSpec => []TypeOK
  BY ViewTypesOK, ViewInit, ViewStep, ViewLift, PTL DEF ServerSpec
<1>2. ServerSpec => []OB!TypeOK
  BY BatchTypesOK, BatchAlways, PTL
<1>3. ServerSpec => []Watched
  BY WatchedSteps, WatchLift, PTL DEF ServerSpec
<1>4. ServerSpec => []MA!TypeOK
  BY CycleTypesOK, CycleLift, PTL DEF ServerSpec
<1>5. ServerSpec => []AS!TypeOK
  <2>1. ServerInit => ShowInv /\ Sized
    BY ShowInit, SizedInit DEF ServerInit
  <2>2. (ShowInv /\ Sized) /\ [ServerNext]_ServerVars => (ShowInv /\ Sized)'
    BY ShowLift, ShowSteps, SizedSteps
  <2> QED BY <2>1, <2>2, ShowTypesOK, PTL DEF ServerSpec
<1>6. TypeOK /\ OB!TypeOK /\ Watched /\ MA!TypeOK /\ AS!TypeOK => TypesOK
  BY DEF Watched, TypesOK
<1> QED BY <1>1, <1>2, <1>3, <1>4, <1>5, <1>6, PTL
===================================================================================
