----------------------------- MODULE PaneLinksProofs -----------------------------
(***************************************************************************)
(* What is proved of PaneLinks, for any sessions, panes and requests:      *)
(* its type invariant, that no link outlives its pane, that a request      *)
(* which says it ended sessions did, that a pass of reconcile_links spares *)
(* the sessions that were live when it read Tether, that a create which    *)
(* fails leaves no pane, and that a close spares the agents.               *)
(***************************************************************************)
EXTENDS PaneLinks, TLAPS

-------------------------------------------------------------------------------
(***************************************************************************)
(* The records of the requests.                                            *)
(***************************************************************************)

\* A request whose next call names a session has one.
Good(r) == r \in JobSet /\ (r.pc \in Naming => r.session \in Sessions)

\* The request that is over is a request.
LEMMA OverType ==
  ASSUME NEW r \in JobSet, NEW pc \in {"ok", "failed"}
  PROVE  Good(Over(r, pc))
<1>1. Over(r, pc) \in JobSet
  BY DEF Over, Idle, JobSet, Ops, PCs, Modes
<1>2. Over(r, pc).pc \in {"idle", "ok", "failed"}
  BY DEF Over, Idle
<1> QED
  BY <1>1, <1>2 DEF Good, Naming

\* A failing create is a request.
LEMMA RollbackType ==
  ASSUME NEW r \in JobSet
  PROVE  Good(Rollback(r))
<1>1. Good(Idle)
  BY DEF Idle, JobSet, Ops, PCs, Good, Naming, Modes
<1>2. ASSUME NEW pc \in {"delete", "read"}
      PROVE  Good([r EXCEPT !.op = "rollback", !.modes = {}, !.pc = pc])
  BY DEF JobSet, Ops, PCs, Good, Naming
<1> QED
  BY <1>1, <1>2 DEF Rollback

\* One step of an ending loop keeps the request a request.
LEMMA EndedType ==
  ASSUME NEW r \in JobSet, r.session \in Sessions
  PROVE  Good(Ended(r))
<1>1. Good(Over(r, "ok"))
  BY OverType
<1>2. Good([r EXCEPT !.todo = r.todo \ {r.session}, !.gen = 0,
                     !.pc = IF r.todo \ {r.session} = {}
                            THEN IF r.op = "close" THEN "remaining" ELSE "delete"
                            ELSE "read"])
  BY DEF JobSet, PCs, Good
<1> QED
  BY <1>1, <1>2 DEF Ended

\* A session taken for gone leaves the request a request.
LEMMA GoneType ==
  ASSUME NEW r \in JobSet, r.session \in Sessions
  PROVE  Good(Gone(r))
BY DEF Gone, JobSet, PCs, Good

\* So does one that raised.
LEMMA EndRaisedType ==
  ASSUME NEW r \in JobSet, r.session \in Sessions
  PROVE  Good(EndRaised(r))
BY EndedType, OverType DEF EndRaised

-------------------------------------------------------------------------------
(***************************************************************************)
(* Types.                                                                  *)
(***************************************************************************)

\* What TypeOK says of the requests.
GoodJobs == job \in [Jobs -> JobSet] /\ \A j \in Jobs : Good(job[j])

\* The initial state has the types TypeOK gives.
LEMMA InitTypeOK == Init => TypeOK
<1> SUFFICES ASSUME Init PROVE TypeOK
  OBVIOUS
<1>1. GoodJobs
  BY DEF Init, Idle, JobSet, Ops, PCs, GoodJobs, Good, Naming, Modes
<1>2. sweep \in SweepSet
  BY DEF Init, NoSweep, SweepSet
<1>3. mishaps \in 0..MaxMishaps
  BY BoundsAssumption DEF Init
<1>4. /\ news \in [Sessions -> SUBSET Modes] /\ loaded \subseteq Sessions
      /\ sock \in {"up", "gone"} /\ seen \in BOOLEAN
  BY DEF Init
<1>5. tool \in [Sessions -> Modes] /\ mode \in [Sessions -> Modes]
  BY DEF Init, Modes
<1> QED
  BY <1>1, <1>2, <1>3, <1>4, <1>5 DEF Init, TypeOK, GoodJobs, Good

\* A call that asks an instance, or all, keeps what is known of the other one.
LEMMA OtherType ==
  ASSUME TypeOK, Listed \/ UNCHANGED other \/ \E s \in Sessions : Asked(s)
  PROVE  sock' \in {"up", "gone"} /\ seen' \in BOOLEAN
<1>1. CASE Listed
  <2>1. sock' = sock /\ seen' \in BOOLEAN
    BY <1>1 DEF Listed, TypeOK
  <2> QED
    BY <2>1 DEF TypeOK
<1>2. CASE UNCHANGED other
  BY <1>2 DEF other, TypeOK
<1>3. ASSUME NEW s \in Sessions, Asked(s)
      PROVE  sock' \in {"up", "gone"} /\ seen' \in BOOLEAN
  <2>1. sock' = sock /\ seen' \in BOOLEAN
    BY <1>3 DEF Asked, TypeOK
  <2> QED
    BY <2>1 DEF TypeOK
<1> QED
  BY <1>1, <1>2, <1>3

\* The types of the database's tables, and of what Tether keeps.
StoreType  == /\ pane \in [Panes -> {"unused", "visible", "detached", "deleted"}]
              /\ link \in [Sessions -> Panes \cup {NoPane}]
              /\ mode \in [Sessions -> Modes]
TetherType == /\ status \in [Sessions -> {"unborn", "live", "ended"}]
              /\ gen \in [Sessions -> Nat]
              /\ tool \in [Sessions -> Modes]
              /\ news \in [Sessions -> SUBSET Modes]
              /\ loaded \subseteq Sessions

\* The parts of the type invariant, put together.
LEMMA AllTypes ==
  ASSUME TetherType', StoreType', GoodJobs', sweep' \in SweepSet,
         sock' \in {"up", "gone"}, seen' \in BOOLEAN, mishaps' \in 0..MaxMishaps
  PROVE  TypeOK'
BY DEF TetherType, StoreType, GoodJobs, Good, TypeOK

\* What nobody touched keeps its type.
LEMMA KeptTypes ==
  ASSUME TypeOK
  PROVE  /\ UNCHANGED tether => TetherType'
         /\ UNCHANGED store => StoreType'
         /\ UNCHANGED sweep => sweep' \in SweepSet
         /\ UNCHANGED mishaps => mishaps' \in 0..MaxMishaps
         /\ UNCHANGED job => GoodJobs'
BY DEF TypeOK, tether, store, TetherType, StoreType, GoodJobs, Good

\* A session that begins.
LEMMA BornType ==
  ASSUME TypeOK, NEW s \in Sessions, NEW m \in Modes, Born(s, m)
  PROVE  TetherType'
BY DEF Born, TetherType, TypeOK

\* A row that link_session writes.
LEMMA LinkToType ==
  ASSUME TypeOK, NEW r \in JobSet, r.pane \in Panes, LinkTo(r), UNCHANGED pane
  PROVE  StoreType'
BY DEF LinkTo, TypeOK, StoreType, JobSet

\* Another tool.
LEMMA ReloadType ==
  ASSUME TypeOK, NEW s \in Sessions, NEW t \in Modes, Reload(s, t)
  PROVE  TetherType'
<1>1. status' \in [Sessions -> {"unborn", "live", "ended"}] /\ gen' \in [Sessions -> Nat]
  BY DEF Reload, TypeOK
<1>2. tool' \in [Sessions -> Modes]
  BY DEF Reload, TypeOK
<1>3. news' \in [Sessions -> SUBSET Modes]
  <2>1. {tool[s], t} \subseteq Modes
    BY DEF TypeOK
  <2> QED
    BY <2>1 DEF Reload, TypeOK
<1>4. loaded' \subseteq Sessions
  BY DEF Reload, TypeOK
<1> QED
  BY <1>1, <1>2, <1>3, <1>4 DEF TetherType

\* A mishap stays within its budget.
LEMMA MishapType ==
  ASSUME TypeOK, Mishap
  PROVE  mishaps' \in 0..MaxMishaps
BY BoundsAssumption DEF TypeOK, Mishap

\* One request's record changes: the table keeps its type.
LEMMA BecomeType ==
  ASSUME TypeOK, NEW j \in Jobs, NEW r, Good(r), Become(j, r)
  PROVE  GoodJobs'
BY DEF TypeOK, Become, GoodJobs, Good

\* Goto only moves the request to its next call.
LEMMA GotoType ==
  ASSUME TypeOK, NEW j \in Jobs, NEW pc \in PCs, Goto(j, pc),
         job[j].session \in Sessions
  PROVE  GoodJobs'
<1>1. Good([job[j] EXCEPT !.pc = pc])
  BY DEF TypeOK, JobSet, Good
<1> QED
  BY <1>1, BecomeType DEF Goto

\* Finish leaves what Over leaves.
LEMMA FinishType ==
  ASSUME TypeOK, NEW j \in Jobs, NEW pc \in {"ok", "failed"}, Finish(j, pc)
  PROVE  GoodJobs'
<1>1. Good(Over(job[j], pc))
  BY OverType DEF TypeOK
<1> QED
  BY <1>1, BecomeType DEF Finish

\* A step of create_pane_with_sessions keeps the types.
LEMMA CreateType ==
  ASSUME TypeOK, NEW j \in Jobs, Create(j)
  PROVE  TypeOK'
<1>1. /\ job[j] \in JobSet
      /\ job[j].pc \in Naming => job[j].session \in Sessions
  BY DEF TypeOK
<1>2. ASSUME NEW modes \in {{"shell"}, Modes}, NEW place \in {"visible", "detached"},
             StartCreate(j, modes, place)
      PROVE  TypeOK'
  <2>1. PICK p \in Panes :
          /\ pane' = [pane EXCEPT ![p] = place]
          /\ Become(j, [Idle EXCEPT !.op = "create", !.pc = "create",
                                    !.pane = p, !.modes = modes])
    BY <1>2 DEF StartCreate
  <2>2. Good([Idle EXCEPT !.op = "create", !.pc = "create",
                          !.pane = p, !.modes = modes])
    BY DEF Idle, JobSet, Ops, PCs, Modes, Good, Naming
  <2>3. GoodJobs'
    BY <2>1, <2>2, BecomeType
  <2>4. StoreType'
    BY <1>2, <2>1 DEF StartCreate, StoreType, TypeOK
  <2> QED
    BY <1>2, <2>3, <2>4, AllTypes, KeptTypes, OtherType DEF StartCreate
<1>3. ASSUME CreateSession(j)
      PROVE  TypeOK'
  <2> DEFINE m == NextMode(job[j].modes)
  <2>1. m \in Modes
    BY DEF NextMode, Modes
  <2>2. Good(Rollback(job[j]))
    BY <1>1, RollbackType
  <2>3. ASSUME NEW s \in Sessions
        PROVE  /\ Good([job[j] EXCEPT !.pc = "insert", !.session = s, !.mode = m,
                                      !.modes = @ \ {m}, !.asked = @ \cup {s}])
               /\ Good(Rollback([job[j] EXCEPT !.asked = @ \cup {s}]))
    <3>1. [job[j] EXCEPT !.asked = @ \cup {s}] \in JobSet
      BY <1>1 DEF JobSet
    <3>2. Good([job[j] EXCEPT !.pc = "insert", !.session = s, !.mode = m,
                              !.modes = @ \ {m}, !.asked = @ \cup {s}])
      BY <1>1, <2>1 DEF JobSet, PCs, Good
    <3> QED
      BY <3>1, <3>2, RollbackType
  <2>4. GoodJobs'
    BY <1>3, <2>2, <2>3, BecomeType DEF CreateSession
  <2>5. ASSUME NEW s \in Sessions, Born(s, m) PROVE TetherType'
    BY <2>1, <2>5, BornType
  <2>6. TetherType'
    BY <1>3, <2>5, KeptTypes DEF CreateSession
  <2>7. mishaps' \in 0..MaxMishaps
    BY <1>3, MishapType, KeptTypes DEF CreateSession
  <2> QED
    BY <1>3, <2>4, <2>6, <2>7, AllTypes, KeptTypes, OtherType DEF CreateSession
<1>4. ASSUME InsertLink(j)
      PROVE  TypeOK'
  <2>1. Good(Rollback(job[j]))
    BY <1>1, RollbackType
  <2>2. job[j].session \in Sessions
    BY <1>1, <1>4 DEF InsertLink, Naming
  <2>3. GoodJobs'
    BY <1>4, <2>1, <2>2, BecomeType, GotoType DEF InsertLink, PCs
  <2>4. StoreType'
    <3>1. CASE Exists(job[j].pane)
      BY <1>1, <1>4, <3>1, LinkToType DEF InsertLink, Exists
    <3>2. CASE ~Exists(job[j].pane)
      BY <1>4, <3>2, KeptTypes DEF InsertLink, store
    <3> QED
      BY <3>1, <3>2
  <2> QED
    BY <1>4, <2>3, <2>4, AllTypes, KeptTypes, OtherType DEF InsertLink
<1>5. ASSUME RereadLink(j)
      PROVE  TypeOK'
  <2> DEFINE q == [job[j] EXCEPT !.todo = @ \cup {job[j].session}]
  <2>1. Good(Rollback(job[j]))
    BY <1>1, RollbackType
  <2>2. job[j].session \in Sessions
    BY <1>1, <1>5 DEF RereadLink, Naming
  <2>3. Good([q EXCEPT !.pc = "create"])
    BY <1>1, <2>2 DEF JobSet, PCs, Good, Naming
  <2>4. GoodJobs'
    BY <1>5, <2>1, <2>3, BecomeType, FinishType DEF RereadLink
  <2> QED
    BY <1>5, <2>4, AllTypes, KeptTypes, OtherType DEF RereadLink
<1>6. ASSUME NEW p \in Panes, NEW m \in Modes, StartAdd(j, p, m)
      PROVE  TypeOK'
  <2>1. Good([Idle EXCEPT !.op = "add", !.pc = "create",
                          !.pane = p, !.modes = {m}])
    BY DEF Idle, JobSet, Ops, PCs, Modes, Good, Naming
  <2>2. GoodJobs'
    BY <1>6, <2>1, BecomeType DEF StartAdd
  <2> QED
    BY <1>6, <2>2, AllTypes, KeptTypes, OtherType DEF StartAdd
<1> QED
  BY <1>2, <1>3, <1>4, <1>5, <1>6 DEF Create

\* A step of ending a session, a pane or a view's session keeps the types.
LEMMA EndType ==
  ASSUME TypeOK, NEW j \in Jobs, End(j)
  PROVE  TypeOK'
<1>1. /\ job[j] \in JobSet
      /\ job[j].pc \in Naming => job[j].session \in Sessions
  BY DEF TypeOK
<1>2. ASSUME NEW s \in Sessions, StartEnd(j, s) \/ StartClose(j, s)
      PROVE  TypeOK'
  <2> DEFINE m == IF link[s] = NoPane THEN "shell" ELSE mode[s]
  <2>1. link[s] \in Panes \cup {NoPane} /\ m \in Modes
    BY DEF TypeOK, Modes
  <2>2. /\ Good([Idle EXCEPT !.op = "end", !.pc = "read",
                             !.todo = {s}, !.asked = {s}])
        /\ Good([Idle EXCEPT !.op = "close", !.pc = "read", !.pane = link[s],
                             !.mode = m, !.todo = {s}, !.asked = {s}])
    BY <2>1 DEF Idle, JobSet, Ops, PCs, Good, Naming, Modes
  <2>3. GoodJobs'
    BY <1>2, <2>2, BecomeType DEF StartEnd, StartClose
  <2> QED
    BY <1>2, <2>3, AllTypes, KeptTypes, OtherType DEF StartEnd, StartClose
<1>3. ASSUME NEW p \in Panes, StartEndPane(j, p)
      PROVE  TypeOK'
  <2>1. Good([Idle EXCEPT !.op = "pane", !.pane = p,
                          !.pc = IF Shown(p) = {} THEN "delete" ELSE "read",
                          !.todo = Shown(p), !.asked = Shown(p)])
    BY DEF Idle, JobSet, Ops, PCs, Good, Naming, Shown, Modes
  <2>2. GoodJobs'
    BY <1>3, <2>1, BecomeType DEF StartEndPane
  <2> QED
    BY <1>3, <2>2, AllTypes, KeptTypes, OtherType DEF StartEndPane
<1>4. ASSUME NEW s \in Sessions, ReadSession(j, s)
      PROVE  TypeOK'
  <2> DEFINE r == [job[j] EXCEPT !.session = s]
  <2>1. r \in JobSet /\ r.session \in Sessions
    BY <1>1 DEF JobSet
  <2>2. Good(Gone(r))
    BY <2>1, GoneType
  <2>3. gen[s] \in Nat
    BY DEF TypeOK
  <2>4. Good([r EXCEPT !.pc = "end", !.gen = gen[s]])
    BY <2>1, <2>3 DEF JobSet, PCs, Good
  <2>5. Good(EndRaised(r))
    BY <2>1, EndRaisedType
  <2>6. GoodJobs'
    BY <1>4, <2>2, <2>4, <2>5, BecomeType DEF ReadSession
  <2>7. mishaps' \in 0..MaxMishaps
    BY <1>4, MishapType, KeptTypes DEF ReadSession
  <2> QED
    BY <1>4, <2>6, <2>7, AllTypes, KeptTypes, OtherType DEF ReadSession
<1>5. ASSUME EndSession(j)
      PROVE  TypeOK'
  <2>1. job[j].session \in Sessions
    BY <1>1, <1>5 DEF EndSession, Naming
  <2>2. Good([job[j] EXCEPT !.pc = "unlink"]) /\ Good(Gone(job[j]))
    BY <1>1, <2>1, GoneType DEF JobSet, PCs, Good
  <2>3. Good(EndRaised(job[j]))
    BY <1>1, <2>1, EndRaisedType
  <2>4. GoodJobs'
    BY <1>5, <2>2, <2>3, BecomeType DEF EndSession
  <2>5. TetherType'
    <3>1. \/ UNCHANGED tether
          \/ /\ status' = [status EXCEPT ![job[j].session] = "ended"]
             /\ UNCHANGED <<gen, tool, news, loaded>>
      BY <1>5 DEF EndSession
    <3> QED
      BY <3>1, KeptTypes DEF TetherType, TypeOK
  <2>6. mishaps' \in 0..MaxMishaps
    BY <1>5, MishapType, KeptTypes DEF EndSession
  <2>7. Asked(job[j].session)
    BY <1>5 DEF EndSession
  <2> QED
    BY <1>5, <2>1, <2>4, <2>5, <2>6, <2>7, AllTypes, KeptTypes, OtherType DEF EndSession
<1>6. ASSUME Unlink(j)
      PROVE  TypeOK'
  <2>1. job[j].session \in Sessions
    BY <1>1, <1>6 DEF Unlink, Naming
  <2>2. GoodJobs'
    BY <1>1, <1>6, <2>1, EndedType, BecomeType DEF Unlink
  <2>3. StoreType'
    BY <1>6 DEF Unlink, StoreType, TypeOK
  <2> QED
    BY <1>6, <2>2, <2>3, AllTypes, KeptTypes, OtherType DEF Unlink
<1>7. ASSUME DeletePane(j)
      PROVE  TypeOK'
  <2>1. GoodJobs'
    BY <1>7, FinishType DEF DeletePane
  <2>2. StoreType'
    BY <1>7 DEF DeletePane, Cascade, StoreType, TypeOK
  <2> QED
    BY <1>7, <2>1, <2>2, AllTypes, KeptTypes, OtherType DEF DeletePane
<1>8. ASSUME CloseRemaining(j)
      PROVE  TypeOK'
  <2> DEFINE left == Shown(job[j].pane)
  <2>1. Good([job[j] EXCEPT !.op = "companions", !.todo = left,
                            !.asked = @ \cup left,
                            !.pc = IF left = {} THEN "delete" ELSE "read"])
    BY <1>1 DEF JobSet, Ops, PCs, Good, Naming, Shown
  <2>2. GoodJobs'
    BY <1>8, <2>1, BecomeType, FinishType DEF CloseRemaining
  <2> QED
    BY <1>8, <2>2, AllTypes, KeptTypes, OtherType DEF CloseRemaining
<1> QED
  BY <1>2, <1>3, <1>4, <1>5, <1>6, <1>7, <1>8 DEF End

\* A step of showing a session keeps the types.
LEMMA ViewType ==
  ASSUME TypeOK, NEW j \in Jobs, View(j)
  PROVE  TypeOK'
<1>1. /\ job[j] \in JobSet
      /\ job[j].pc \in Naming => job[j].session \in Sessions
  BY DEF TypeOK
<1>2. ASSUME NEW s \in Sessions, NEW op \in {"view", "reuse"}, StartView(j, s, op)
      PROVE  TypeOK'
  <2>1. tool[s] \in Modes
    BY DEF TypeOK
  <2>2. /\ Good([Idle EXCEPT !.op = op, !.session = s, !.mode = tool[s], !.pc = "newpane"])
        /\ Good([Idle EXCEPT !.op = op, !.session = s, !.pc = "find"])
    BY <2>1 DEF Idle, JobSet, Ops, PCs, Good, Modes
  <2>3. GoodJobs'
    BY <1>2, <2>2, BecomeType DEF StartView
  <2>4. Asked(s) \/ UNCHANGED other
    BY <1>2 DEF StartView
  <2> QED
    BY <1>2, <2>3, <2>4, AllTypes, KeptTypes, OtherType DEF StartView
<1>3. ASSUME NEW p \in Panes, StartShow(j, p)
      PROVE  TypeOK'
  <2>1. Good([Idle EXCEPT !.op = "show", !.pc = "attach", !.pane = p])
    BY DEF Idle, JobSet, Ops, PCs, Good, Naming, Modes
  <2>2. GoodJobs'
    BY <1>3, <2>1, BecomeType DEF StartShow
  <2> QED
    BY <1>3, <2>2, AllTypes, KeptTypes, OtherType DEF StartShow
<1>4. ASSUME NewPane(j)
      PROVE  TypeOK'
  <2>1. PICK p \in Panes :
          /\ pane' = [pane EXCEPT ![p] = "detached"]
          /\ Become(j, [job[j] EXCEPT !.pc = "link", !.pane = p])
    BY <1>4 DEF NewPane
  <2>2. job[j].session \in Sessions
    BY <1>1, <1>4 DEF NewPane, Naming
  <2>3. Good([job[j] EXCEPT !.pc = "link", !.pane = p])
    BY <1>1, <2>2 DEF JobSet, PCs, Good
  <2>4. GoodJobs'
    BY <2>1, <2>3, BecomeType
  <2>5. StoreType'
    BY <1>4, <2>1 DEF NewPane, StoreType, TypeOK
  <2> QED
    BY <1>4, <2>4, <2>5, AllTypes, KeptTypes, OtherType DEF NewPane
<1>5. ASSUME LinkView(j)
      PROVE  TypeOK'
  <2>1. job[j].session \in Sessions
    BY <1>1, <1>5 DEF LinkView, Naming
  <2>2. GoodJobs'
    BY <1>5, <2>1, GotoType, FinishType DEF LinkView, PCs
  <2>3. StoreType'
    <3>1. CASE Exists(job[j].pane)
      BY <1>1, <1>5, <3>1, LinkToType DEF LinkView, Exists
    <3>2. CASE ~Exists(job[j].pane)
      BY <1>5, <3>2, KeptTypes DEF LinkView, store
    <3> QED
      BY <3>1, <3>2
  <2> QED
    BY <1>5, <2>2, <2>3, AllTypes, KeptTypes, OtherType DEF LinkView
<1>6. ASSUME FindPane(j)
      PROVE  TypeOK'
  <2>1. ASSUME NEW p \in Panes
        PROVE  Good([job[j] EXCEPT !.pc = "attach", !.pane = p])
    BY <1>1 DEF JobSet, PCs, Good, Naming
  <2>2. GoodJobs'
    BY <1>6, <2>1, BecomeType, FinishType DEF FindPane, Exists
  <2> QED
    BY <1>6, <2>2, AllTypes, KeptTypes, OtherType DEF FindPane
<1>7. ASSUME AttachPane(j)
      PROVE  TypeOK'
  <2>1. GoodJobs'
    BY <1>7, FinishType DEF AttachPane
  <2>2. StoreType'
    BY <1>7 DEF AttachPane, StoreType, TypeOK
  <2> QED
    BY <1>7, <2>1, <2>2, AllTypes, KeptTypes, OtherType DEF AttachPane
<1> QED
  BY <1>2, <1>3, <1>4, <1>5, <1>6, <1>7 DEF View

\* A step of loading another tool keeps the types.
LEMMA LoadType ==
  ASSUME TypeOK, NEW j \in Jobs, Load(j)
  PROVE  TypeOK'
<1>1. /\ job[j] \in JobSet
      /\ job[j].pc \in Naming => job[j].session \in Sessions
  BY DEF TypeOK
<1>2. ASSUME NEW s \in Sessions, StartLoad(j, s) PROVE TypeOK'
  <2>1. Good([Idle EXCEPT !.op = "load", !.pc = "load", !.session = s])
    BY DEF Idle, JobSet, Ops, PCs, Good, Modes
  <2>2. GoodJobs'
    BY <1>2, <2>1, BecomeType DEF StartLoad
  <2> QED
    BY <1>2, <2>2, AllTypes, KeptTypes, OtherType DEF StartLoad
<1>3. ASSUME NEW t \in Modes, LoadTool(j, t) PROVE TypeOK'
  <2>1. job[j].session \in Sessions
    BY <1>1, <1>3 DEF LoadTool, Naming
  <2>2. Good([job[j] EXCEPT !.pc = "remember", !.mode = t])
    BY <1>1, <2>1 DEF JobSet, PCs, Good
  <2>3. GoodJobs'
    BY <1>3, <2>2, BecomeType, FinishType DEF LoadTool
  <2>4. TetherType'
    BY <1>3, <2>1, ReloadType, KeptTypes DEF LoadTool
  <2>5. mishaps' \in 0..MaxMishaps
    BY <1>3, MishapType, KeptTypes DEF LoadTool
  <2>6. Asked(job[j].session)
    BY <1>3 DEF LoadTool
  <2> QED
    BY <1>3, <2>1, <2>3, <2>4, <2>5, <2>6, AllTypes, KeptTypes, OtherType DEF LoadTool
<1>4. ASSUME RememberTool(j) PROVE TypeOK'
  <2>1. GoodJobs'
    BY <1>4, FinishType DEF RememberTool
  <2>2. StoreType'
    BY <1>1, <1>4 DEF RememberTool, StoreType, TypeOK, JobSet
  <2> QED
    BY <1>4, <2>1, <2>2, AllTypes, KeptTypes, OtherType DEF RememberTool
<1> QED
  BY <1>2, <1>3, <1>4 DEF Load

\* A step of a pass of reconcile_links keeps the types.
LEMMA SweepType ==
  ASSUME TypeOK, Sweep
  PROVE  TypeOK'
<1>1. CASE SweepReads
  <2>1. PICK ids \in LiveIds :
          sweep' = [NoSweep EXCEPT !.pc = "list", !.alive = ids, !.was = Live,
                                   !.hidden = {s \in Sessions : Hidden(s)}]
    BY <1>1 DEF SweepReads
  <2>2. Live \subseteq Sessions /\ ids \subseteq Sessions
    BY DEF Live, LiveIds
  <2>3. sweep' \in SweepSet
    BY <2>1, <2>2 DEF NoSweep, SweepSet
  <2> QED
    BY <1>1, <2>3, AllTypes, KeptTypes, OtherType DEF SweepReads
<1>2. CASE SweepLists
  <2>1. sweep' \in SweepSet
    BY <1>2 DEF SweepLists, Linked, SweepSet, TypeOK
  <2> QED
    BY <1>2, <2>1, AllTypes, KeptTypes, OtherType DEF SweepLists
<1>3. ASSUME NEW s \in Sessions, SweepDrops(s)
      PROVE  TypeOK'
  <2>1. sweep' \in SweepSet
    BY <1>3 DEF SweepDrops, SweepSet, TypeOK
  <2>2. StoreType'
    BY <1>3 DEF SweepDrops, StoreType, TypeOK
  <2> QED
    BY <1>3, <2>1, <2>2, AllTypes, KeptTypes, OtherType DEF SweepDrops
<1>4. CASE SweepPrunes
  <2>1. sweep' \in SweepSet
    BY <1>4 DEF SweepPrunes, NoSweep, SweepSet
  <2>2. StoreType'
    BY <1>4 DEF SweepPrunes, StoreType, TypeOK
  <2> QED
    BY <1>4, <2>1, <2>2, AllTypes, KeptTypes, OtherType DEF SweepPrunes
<1> QED
  BY <1>1, <1>2, <1>3, <1>4 DEF Sweep

\* A restart keeps the types.
LEMMA RestartType ==
  ASSUME TypeOK, Restart
  PROVE  TypeOK'
<1>1. GoodJobs'
  BY DEF Restart, Idle, JobSet, Ops, PCs, GoodJobs, Good, Naming, Modes
<1>2. sweep' \in SweepSet
  BY DEF Restart, NoSweep, SweepSet
<1>3. mishaps' \in 0..MaxMishaps
  BY MishapType DEF Restart
<1>4. TetherType'
  BY DEF Restart, TetherType, TypeOK
<1>5. sock' \in {"up", "gone"} /\ seen' \in BOOLEAN
  BY DEF Restart, TypeOK
<1> QED
  BY <1>1, <1>2, <1>3, <1>4, <1>5, AllTypes, KeptTypes DEF Restart

\* What other apps, the events and a session's own end do keeps the types.
LEMMA OutsideType ==
  ASSUME TypeOK, NEW s \in Sessions, Outside(s)
  PROVE  TypeOK'
<1>1. CASE WatcherDrops(s)
  <2>1. StoreType'
    BY <1>1 DEF WatcherDrops, StoreType, TypeOK
  <2> QED
    BY <1>1, <2>1, AllTypes, KeptTypes, OtherType DEF WatcherDrops
<1>2. CASE SessionEnds(s)
  <2>1. TetherType'
    BY <1>2 DEF SessionEnds, TetherType, TypeOK
  <2> QED
    BY <1>2, <2>1, AllTypes, KeptTypes, OtherType DEF SessionEnds
<1>3. ASSUME NEW t \in Modes, BornOutside(s, t) PROVE TypeOK'
  <2>1. TetherType'
    BY <1>3, BornType DEF BornOutside
  <2> QED
    BY <1>3, <2>1, AllTypes, KeptTypes, OtherType DEF BornOutside
<1>4. ASSUME NEW t \in Modes, Respawn(s, t) PROVE TypeOK'
  <2>1. TetherType' /\ mishaps' \in 0..MaxMishaps
    BY <1>4, ReloadType, MishapType DEF Respawn
  <2> QED
    BY <1>4, <2>1, AllTypes, KeptTypes, OtherType DEF Respawn
<1>5. ASSUME NEW t \in Modes, WatcherTells(s, t) PROVE TypeOK'
  <2>1. PICK rest \in SUBSET news[s] : news' = [news EXCEPT ![s] = rest]
    BY <1>5 DEF WatcherTells
  <2>2. rest \subseteq Modes
    BY <2>1 DEF TypeOK
  <2>3. TetherType'
    BY <1>5, <2>1, <2>2 DEF WatcherTells, TetherType, TypeOK
  <2>4. StoreType'
    BY <1>5 DEF WatcherTells, StoreType, TypeOK
  <2> QED
    BY <1>5, <2>3, <2>4, AllTypes, KeptTypes, OtherType DEF WatcherTells
<1> QED
  BY <1>1, <1>2, <1>3, <1>4, <1>5 DEF Outside

\* Every step keeps the types.
LEMMA NextTypeOK == TypeOK /\ [Next]_vars => TypeOK'
<1> SUFFICES ASSUME TypeOK, [Next]_vars PROVE TypeOK'
  OBVIOUS
<1>1. ASSUME NEW p \in Panes, DetachPane(p)
      PROVE  TypeOK'
  <2>1. StoreType'
    BY <1>1 DEF DetachPane, StoreType, TypeOK
  <2> QED
    BY <1>1, <2>1, AllTypes, KeptTypes, OtherType DEF DetachPane
<1>2. CASE OtherGoes \/ OtherReturns \/ AppLists
  <2>1. sock' \in {"up", "gone"} /\ seen' \in BOOLEAN
    BY <1>2, OtherType DEF OtherGoes, OtherReturns, AppLists, TypeOK
  <2>2. UNCHANGED <<tether, store, job, sweep, mishaps>>
    BY <1>2 DEF OtherGoes, OtherReturns, AppLists
  <2> QED
    BY <2>1, <2>2, AllTypes, KeptTypes
<1>3. CASE UNCHANGED vars
  BY <1>3, AllTypes, KeptTypes, OtherType DEF vars
<1> QED
  BY <1>1, <1>2, <1>3, CreateType, EndType, ViewType, LoadType, SweepType, OutsideType,
     RestartType
     DEF Next

\* TypeOK is an invariant for any sessions, panes and number of requests.
THEOREM TypeCorrect == Spec => []TypeOK
BY InitTypeOK, NextTypeOK, PTL DEF Spec

-------------------------------------------------------------------------------
(***************************************************************************)
(* No link outlives its pane.                                              *)
(***************************************************************************)

\* A step that leaves the database alone keeps its links sound.
LEMMA StoreUnchanged ==
  ASSUME LinksNamePanes, UNCHANGED <<pane, link>>
  PROVE  LinksNamePanes'
BY DEF LinksNamePanes, Linked, Exists

\* Dropping links, and nothing else, keeps the others sound.
LEMMA LinksDropped ==
  ASSUME TypeOK, LinksNamePanes, NEW s \in Sessions,
         link' = [link EXCEPT ![s] = NoPane], UNCHANGED pane
  PROVE  LinksNamePanes'
BY DEF LinksNamePanes, Linked, Exists, TypeOK

\* So does a new link to a pane that is there.
LEMMA LinkMade ==
  ASSUME TypeOK, LinksNamePanes, NEW s \in Sessions, NEW p \in Panes, Exists(p),
         link' = [link EXCEPT ![s] = p], UNCHANGED pane
  PROVE  LinksNamePanes'
BY DEF LinksNamePanes, Linked, Exists, TypeOK

\* So does a pane that is made, shown or hidden.
LEMMA PaneKept ==
  ASSUME TypeOK, LinksNamePanes, NEW p \in Panes, NEW place \in {"visible", "detached"},
         pane' = [pane EXCEPT ![p] = place], UNCHANGED link
  PROVE  LinksNamePanes'
BY DEF LinksNamePanes, Linked, Exists, TypeOK

\* Every step keeps the links sound: the inserts look at the pane in the
\* statement that links to it, and a delete takes the links along.
LEMMA NextLinks == TypeOK /\ LinksNamePanes /\ [Next]_vars => LinksNamePanes'
<1> SUFFICES ASSUME TypeOK, LinksNamePanes, [Next]_vars PROVE LinksNamePanes'
  OBVIOUS
<1>1. ASSUME NEW j \in Jobs, Create(j) PROVE LinksNamePanes'
  <2>1. job[j].pc \in Naming => job[j].session \in Sessions
    BY DEF TypeOK
  <2>2. ASSUME NEW modes, NEW place \in {"visible", "detached"}, StartCreate(j, modes, place)
        PROVE  LinksNamePanes'
    BY <2>2, PaneKept DEF StartCreate
  <2>3. CASE CreateSession(j) \/ RereadLink(j)
    BY <2>3, StoreUnchanged DEF CreateSession, RereadLink, store
  <2>5. ASSUME NEW p \in Panes, NEW m \in Modes, StartAdd(j, p, m)
        PROVE  LinksNamePanes'
    BY <2>5, StoreUnchanged DEF StartAdd, store
  <2>4. CASE InsertLink(j)
    <3>1. job[j].session \in Sessions
      BY <2>1, <2>4 DEF InsertLink, Naming
    <3>2. CASE Exists(job[j].pane)
      BY <2>4, <3>1, <3>2, LinkMade DEF InsertLink, LinkTo, Exists
    <3>3. CASE ~Exists(job[j].pane)
      BY <2>4, <3>3, StoreUnchanged DEF InsertLink
    <3> QED
      BY <3>2, <3>3
  <2> QED
    BY <1>1, <2>2, <2>3, <2>4, <2>5 DEF Create
<1>2. ASSUME NEW j \in Jobs, End(j) PROVE LinksNamePanes'
  <2>1. job[j].pc \in Naming => job[j].session \in Sessions
    BY DEF TypeOK
  <2>2. ASSUME NEW s \in Sessions, StartEnd(j, s) \/ StartClose(j, s) \/ ReadSession(j, s)
        PROVE  LinksNamePanes'
    BY <2>2, StoreUnchanged DEF StartEnd, StartClose, ReadSession, store
  <2>3. ASSUME NEW p \in Panes, StartEndPane(j, p)
        PROVE  LinksNamePanes'
    BY <2>3, StoreUnchanged DEF StartEndPane, store
  <2>4. CASE EndSession(j) \/ CloseRemaining(j)
    BY <2>4, StoreUnchanged DEF EndSession, CloseRemaining, store
  <2>5. CASE Unlink(j)
    BY <2>1, <2>5, LinksDropped DEF Unlink, Naming
  <2>6. CASE DeletePane(j)
    BY <2>6 DEF DeletePane, Cascade, LinksNamePanes, Linked, Exists, TypeOK
  <2> QED
    BY <1>2, <2>2, <2>3, <2>4, <2>5, <2>6 DEF End
<1>3. ASSUME NEW j \in Jobs, View(j) PROVE LinksNamePanes'
  <2>1. job[j].pc \in Naming => job[j].session \in Sessions
    BY DEF TypeOK
  <2>2. ASSUME NEW s \in Sessions, NEW op, StartView(j, s, op)
        PROVE  LinksNamePanes'
    BY <2>2, StoreUnchanged DEF StartView, store
  <2>3. ASSUME NEW p \in Panes, StartShow(j, p)
        PROVE  LinksNamePanes'
    BY <2>3, StoreUnchanged DEF StartShow, store
  <2>4. CASE NewPane(j)
    BY <2>4, PaneKept DEF NewPane
  <2>5. CASE LinkView(j)
    <3>1. job[j].session \in Sessions
      BY <2>1, <2>5 DEF LinkView, Naming
    <3>2. CASE Exists(job[j].pane)
      BY <2>5, <3>1, <3>2, LinkMade DEF LinkView, LinkTo, Exists
    <3>3. CASE ~Exists(job[j].pane)
      BY <2>5, <3>3, StoreUnchanged DEF LinkView
    <3> QED
      BY <3>2, <3>3
  <2>6. CASE FindPane(j)
    BY <2>6, StoreUnchanged DEF FindPane, store
  <2>7. CASE AttachPane(j)
    <3>1. CASE Exists(job[j].pane) /\ HasRoom
      BY <2>7, <3>1, PaneKept DEF AttachPane, Exists
    <3>2. CASE ~(Exists(job[j].pane) /\ HasRoom)
      BY <2>7, <3>2, StoreUnchanged DEF AttachPane
    <3> QED
      BY <3>1, <3>2
  <2> QED
    BY <1>3, <2>2, <2>3, <2>4, <2>5, <2>6, <2>7 DEF View
<1>4. CASE Sweep
  <2>1. CASE SweepReads \/ SweepLists
    BY <2>1, StoreUnchanged DEF SweepReads, SweepLists, store
  <2>2. ASSUME NEW s \in Sessions, SweepDrops(s) PROVE LinksNamePanes'
    BY <2>2, LinksDropped DEF SweepDrops
  <2>3. CASE SweepPrunes
    BY <2>3 DEF SweepPrunes, LinksNamePanes, Linked, Exists, Shown, TypeOK
  <2> QED
    BY <1>4, <2>1, <2>2, <2>3 DEF Sweep
<1>5. ASSUME NEW s \in Sessions, Outside(s)
      PROVE  LinksNamePanes'
  <2>1. CASE WatcherDrops(s)
    BY <2>1, LinksDropped DEF WatcherDrops
  <2>2. CASE ~WatcherDrops(s)
    BY <1>5, <2>2, StoreUnchanged
       DEF Outside, SessionEnds, BornOutside, Respawn, WatcherTells, store
  <2> QED
    BY <2>1, <2>2
<1>6. ASSUME NEW p \in Panes, DetachPane(p) PROVE LinksNamePanes'
  BY <1>6, PaneKept DEF DetachPane
<1>7. CASE Restart \/ UNCHANGED vars \/ OtherGoes \/ OtherReturns \/ AppLists
  BY <1>7, StoreUnchanged DEF Restart, vars, OtherGoes, OtherReturns, AppLists, store
<1>8. ASSUME NEW j \in Jobs, Load(j) PROVE LinksNamePanes'
  BY <1>8, StoreUnchanged DEF Load, StartLoad, LoadTool, RememberTool, store
<1> QED
  BY <1>1, <1>2, <1>3, <1>4, <1>5, <1>6, <1>7, <1>8 DEF Next

\* Whatever requests race, no link outlives its pane.
THEOREM NoLinkOutlivesItsPane == Spec => []LinksNamePanes
<1>1. Init => TypeOK /\ LinksNamePanes
  BY InitTypeOK DEF Init, LinksNamePanes, Linked
<1>2. TypeOK /\ LinksNamePanes /\ [Next]_vars => (TypeOK /\ LinksNamePanes)'
  BY NextTypeOK, NextLinks
<1> QED
  BY <1>1, <1>2, PTL DEF Spec

-------------------------------------------------------------------------------
(***************************************************************************)
(* A create that fails leaves no pane; a close spares the agents.          *)
(***************************************************************************)

\* What a create and its rollback know of their pane, pn being the panes: it is the
\* request's own until the rollback has deleted it.
Rolls(r, pn) ==
  /\ r.pc = "failed" => r.pane \in Panes /\ pn[r.pane] = "deleted"
  /\ r.op \in {"create", "rollback"} => r.pane \in Panes
  /\ r.op = "rollback" => r.pc \in {"read", "end", "unlink", "delete"}
  /\ r.pc \in {"create", "insert", "reread"} => r.op \in {"create", "add"}

\* What is known of session s, which is written down to run m: it was created, and runs
\* m unless it was given another tool.  st, tl and ld are the sessions' status, their
\* tools, and those given another one.
Runs(s, m, st, tl, ld) == st[s] # "unborn" /\ (s \in ld \/ tl[s] = m)

\* What a request knows of its sessions: the one it links, or remembers the tool of, runs
\* what was read, and the companions it ends are shells.
Links == {"insert", "newpane", "link", "remember"}
Shells(r, st, tl, ld) ==
  /\ r.pc \in Links => Runs(r.session, r.mode, st, tl, ld)
  /\ r.pc = "load" => st[r.session] # "unborn"
  /\ r.op = "companions" => \A s \in r.todo : Runs(s, "shell", st, tl, ld)
  /\ r.op = "companions" /\ r.pc \in {"end", "unlink"} => r.session \in r.todo

\* Both, of one request and of all.
Fit(r, pn, st, tl, ld) == Rolls(r, pn) /\ Shells(r, st, tl, ld)
JobsFit == \A j \in Jobs : Fit(job[j], pane, status, tool, loaded)

\* A link is to a session that was created, and says what it runs; and so does what the
\* events have still to tell.
LinksBorn == \A s \in Linked : Runs(s, mode[s], status, tool, loaded)
NewsTrue  == \A s \in Sessions : \A m \in news[s] : Runs(s, m, status, tool, loaded)

\* Deleted panes are never used again, a session that ended stays ended, and one keeps
\* what it was created to run unless it is given another tool.
Lasting ==
  /\ \A p \in Panes : pane[p] = "deleted" => pane'[p] = "deleted"
  /\ \A s \in Sessions : status[s] = "ended" => status'[s] = "ended"
  /\ \A s \in Sessions :
       status[s] # "unborn" => /\ status'[s] # "unborn"
                               /\ s \in loaded \/ tool'[s] # tool[s] => s \in loaded'

\* What is known of a session stays true.
LEMMA RunsStays ==
  ASSUME Lasting, NEW s \in Sessions, NEW m, Runs(s, m, status, tool, loaded)
  PROVE  Runs(s, m, status', tool', loaded')
<1>1. status'[s] # "unborn"
  BY DEF Lasting, Runs
<1>2. CASE s \in loaded
  BY <1>1, <1>2 DEF Lasting, Runs
<1>3. CASE tool[s] = m
  BY <1>1, <1>3 DEF Lasting, Runs
<1> QED
  BY <1>2, <1>3 DEF Runs

\* A session that begins, or is given a tool, changes nothing that lasts.
LEMMA BornLasting ==
  ASSUME TypeOK, NEW t \in Sessions, NEW m \in Modes,
         Born(t, m) \/ (Reload(t, m) /\ status[t] = "live"), UNCHANGED pane
  PROVE  Lasting
<1>1. \A s \in Sessions : status[s] = "ended" => status'[s] = "ended"
  BY DEF Born, Reload, TypeOK
<1>2. ASSUME NEW s \in Sessions, status[s] # "unborn"
      PROVE  status'[s] # "unborn" /\ (s \in loaded \/ tool'[s] # tool[s] => s \in loaded')
  <2>1. CASE Born(t, m)
    <3>1. s # t
      BY <1>2, <2>1 DEF Born
    <3>2. status'[s] = status[s] /\ tool'[s] = tool[s] /\ loaded' = loaded
      BY <2>1, <3>1 DEF Born, TypeOK
    <3> QED
      BY <1>2, <3>2
  <2>2. CASE Reload(t, m)
    <3>1. status' = status /\ loaded \subseteq loaded'
      BY <2>2 DEF Reload
    <3>2. ASSUME s # t PROVE tool'[s] = tool[s]
      BY <2>2, <3>2 DEF Reload, TypeOK
    <3>3. ASSUME s = t, tool'[s] # tool[s] PROVE s \in loaded'
      BY <2>2, <3>3 DEF Reload, TypeOK
    <3> QED
      BY <1>2, <3>1, <3>2, <3>3
  <2> QED
    BY <2>1, <2>2
<1> QED
  BY <1>1, <1>2 DEF Lasting

\* So does what leaves the sessions' status, tools and loads alone.
LEMMA QuietLasting ==
  ASSUME UNCHANGED <<status, tool, loaded>>,
         \A p \in Panes : pane[p] = "deleted" => pane'[p] = "deleted"
  PROVE  Lasting
BY DEF Lasting

\* Every step leaves those alone.
LEMMA NextLasting == TypeOK /\ [Next]_vars => Lasting
<1> SUFFICES ASSUME TypeOK, [Next]_vars PROVE Lasting
  OBVIOUS
<1>1. ASSUME NEW j \in Jobs, Create(j) PROVE Lasting
  <2>1. ASSUME NEW s \in Sessions, Born(s, NextMode(job[j].modes)), UNCHANGED pane PROVE Lasting
    BY <2>1, BornLasting DEF NextMode, Modes
  <2>2. CASE CreateSession(j)
    BY <2>1, <2>2, QuietLasting DEF CreateSession, tether, store
  <2>3. CASE ~CreateSession(j)
    BY <1>1, <2>3, QuietLasting
       DEF Create, StartCreate, StartAdd, InsertLink, RereadLink, tether, store, TypeOK
  <2> QED
    BY <2>2, <2>3
<1>2. ASSUME NEW j \in Jobs, End(j) PROVE Lasting
  <2>1. CASE EndSession(j)
    BY <2>1, QuietLasting DEF EndSession, tether, store, TypeOK, Lasting
  <2>2. CASE DeletePane(j)
    BY <2>2, QuietLasting DEF DeletePane, tether, TypeOK
  <2>3. CASE ~EndSession(j) /\ ~DeletePane(j)
    BY <1>2, <2>3, QuietLasting
       DEF End, StartEnd, StartEndPane, StartClose, ReadSession, Unlink, CloseRemaining,
           tether, store
  <2> QED
    BY <2>1, <2>2, <2>3
<1>3. ASSUME NEW j \in Jobs, View(j) PROVE Lasting
  BY <1>3, QuietLasting DEF View, StartView, StartShow, NewPane, LinkView, FindPane, AttachPane,
                            Exists, tether, store, TypeOK
<1>4. ASSUME NEW j \in Jobs, Load(j) PROVE Lasting
  <2>1. ASSUME NEW t \in Modes, LoadTool(j, t) PROVE Lasting
    <3>1. job[j].session \in Sessions /\ UNCHANGED pane
      BY <2>1 DEF LoadTool, TypeOK, Naming, store
    <3>2. (Reload(job[j].session, t) /\ status[job[j].session] = "live") \/ UNCHANGED tether
      BY <2>1 DEF LoadTool, Answers
    <3> QED
      BY <3>1, <3>2, BornLasting, QuietLasting DEF tether
  <2>2. ASSUME RememberTool(j) \/ \E s \in Sessions : StartLoad(j, s) PROVE Lasting
    BY <2>2, QuietLasting DEF RememberTool, StartLoad, tether, store
  <2> QED
    BY <1>4, <2>1, <2>2 DEF Load
<1>5. CASE Sweep
  BY <1>5, QuietLasting
     DEF Sweep, SweepReads, SweepLists, SweepDrops, SweepPrunes, Exists, tether, store
<1>6. ASSUME NEW s \in Sessions, Outside(s) PROVE Lasting
  <2>1. ASSUME NEW t \in Modes, BornOutside(s, t) \/ Respawn(s, t) PROVE Lasting
    BY <2>1, BornLasting DEF BornOutside, Respawn, store
  <2>2. CASE SessionEnds(s)
    BY <2>2 DEF SessionEnds, store, TypeOK, Lasting
  <2>3. ASSUME NEW t \in Modes, WatcherDrops(s) \/ WatcherTells(s, t) PROVE Lasting
    BY <2>3, QuietLasting DEF WatcherDrops, WatcherTells, tether
  <2> QED
    BY <1>6, <2>1, <2>2, <2>3 DEF Outside, Modes
<1>7. ASSUME NEW p \in Panes, DetachPane(p) PROVE Lasting
  BY <1>7, QuietLasting DEF DetachPane, tether, TypeOK
<1>8. CASE Restart \/ UNCHANGED vars \/ OtherGoes \/ OtherReturns \/ AppLists
  BY <1>8, QuietLasting DEF Restart, vars, OtherGoes, OtherReturns, AppLists, tether, store
<1> QED
  BY <1>1, <1>2, <1>3, <1>4, <1>5, <1>6, <1>7, <1>8 DEF Next

\* So what a request knows stays true.
LEMMA FitStays ==
  ASSUME NEW r \in JobSet, r.pc \in Naming => r.session \in Sessions, Lasting,
         Fit(r, pane, status, tool, loaded)
  PROVE  Fit(r, pane', status', tool', loaded')
<1>1. r.todo \subseteq Sessions
  BY DEF JobSet
<1>2. Rolls(r, pane')
  BY DEF Fit, Rolls, Lasting
<1>3. r.pc \in Links => Runs(r.session, r.mode, status', tool', loaded')
  BY RunsStays DEF Fit, Shells, Naming, Links
<1>4. r.pc = "load" => status'[r.session] # "unborn"
  BY DEF Fit, Shells, Naming, Lasting
<1>5. r.op = "companions" => \A s \in r.todo : Runs(s, "shell", status', tool', loaded')
  BY <1>1, RunsStays DEF Fit, Shells
<1>6. QED BY <1>2, <1>3, <1>4, <1>5 DEF Fit, Shells

\* A request that is over: it failed in its rollback only once its pane is deleted.
LEMMA OverFit ==
  ASSUME NEW r \in JobSet, NEW pc \in {"ok", "failed"}, NEW pn, NEW st, NEW tl, NEW ld,
         pc = "failed" /\ r.op = "rollback" => r.pane \in Panes /\ pn[r.pane] = "deleted"
  PROVE  Fit(Over(r, pc), pn, st, tl, ld)
<1> DEFINE q == Over(r, pc)
<1>1. /\ q.op = "none" /\ q.pc \in {"idle", "ok", "failed"}
      /\ q.pc = "failed" => pc = "failed" /\ r.op = "rollback" /\ q.pane = r.pane
  BY DEF Over, Idle
<1> HIDE DEF q
<1>2. Fit(q, pn, st, tl, ld)
  BY <1>1 DEF Fit, Rolls, Shells, Links
<1>3. QED BY <1>2 DEF q

\* A create that fails takes its own pane to the rollback.
LEMMA RollbackFit ==
  ASSUME NEW r \in JobSet, r.op \in {"create", "add"}, r.op = "create" => r.pane \in Panes,
         NEW pn, NEW st, NEW tl, NEW ld
  PROVE  Fit(Rollback(r), pn, st, tl, ld)
<1> DEFINE q == Rollback(r)
<1>1. CASE r.op = "add"
  <2>1. q.op = "none" /\ q.pc = "idle"
    BY <1>1 DEF Rollback, Idle
  <2>2. QED BY <2>1 DEF Fit, Rolls, Shells, Links
<1>2. CASE r.op = "create"
  <2>1. q.op = "rollback" /\ q.pc \in {"read", "delete"} /\ q.pane = r.pane
    BY <1>2 DEF Rollback, JobSet
  <2> HIDE DEF q
  <2>2. Fit(q, pn, st, tl, ld)
    BY <1>2, <2>1 DEF Fit, Rolls, Shells, Links
  <2>3. QED BY <2>2 DEF q
<1>3. QED BY <1>1, <1>2

\* An ending request that dealt with a session, or gives it up.
LEMMA EndedFit ==
  ASSUME NEW r \in JobSet, NEW pn, NEW st, NEW tl, NEW ld, Fit(r, pn, st, tl, ld)
  PROVE  Fit(Ended(r), pn, st, tl, ld) /\ Fit(EndRaised(r), pn, st, tl, ld)
<1> DEFINE left == r.todo \ {r.session}
           next == IF left = {} THEN IF r.op = "close" THEN "remaining" ELSE "delete"
                   ELSE "read"
           q == [r EXCEPT !.todo = left, !.gen = 0, !.pc = next]
<1>1. q.op = r.op /\ q.pane = r.pane /\ q.todo = left /\ q.pc = next
  BY DEF JobSet
<1>2. next \in {"remaining", "delete", "read"} /\ (r.op = "rollback" => next # "remaining")
  OBVIOUS
<1>3. Ended(r) = q \/ (Ended(r) = Over(r, "ok") /\ r.op = "end")
  BY DEF Ended
<1> HIDE DEF q, next
<1>4. Fit(q, pn, st, tl, ld)
  BY <1>1, <1>2 DEF Fit, Rolls, Shells, Links
<1>5. Fit(Over(r, "ok"), pn, st, tl, ld)
  BY OverFit
<1>6. r.op # "rollback" => Fit(Over(r, "failed"), pn, st, tl, ld)
  BY OverFit
<1>7. QED BY <1>3, <1>4, <1>5, <1>6 DEF EndRaised

\* When one request's record changes, only that one needs looking at.
LEMMA BecomeFit ==
  ASSUME TypeOK, JobsFit, Lasting, NEW j \in Jobs, NEW r, Become(j, r),
         Fit(r, pane', status', tool', loaded')
  PROVE  JobsFit'
<1> SUFFICES ASSUME NEW i \in Jobs PROVE Fit(job'[i], pane', status', tool', loaded')
  BY DEF JobsFit
<1>1. CASE i = j
  BY <1>1 DEF Become, TypeOK
<1>2. CASE i # j
  <2>1. job'[i] = job[i]
    BY <1>2 DEF Become, TypeOK
  <2>2. job[i] \in JobSet /\ (job[i].pc \in Naming => job[i].session \in Sessions)
    BY DEF TypeOK
  <2>3. QED BY <2>1, <2>2, FitStays DEF JobsFit
<1>3. QED BY <1>1, <1>2

\* A request that begins.
LEMMA StartFit ==
  ASSUME NEW r, NEW pn, NEW st, NEW tl, NEW ld,
         r.op \notin {"rollback", "companions"}, r.pc # "failed",
         r.op = "create" => r.pane \in Panes,
         r.pc \in {"create", "insert", "reread"} => r.op \in {"create", "add"},
         r.pc \in Links => Runs(r.session, r.mode, st, tl, ld),
         r.pc = "load" => st[r.session] # "unborn"
  PROVE  Fit(r, pn, st, tl, ld)
BY DEF Fit, Rolls, Shells, Links

\* A step of a create.
LEMMA CreateFit ==
  ASSUME TypeOK, JobsFit, Lasting, NEW j \in Jobs, Create(j)
  PROVE  JobsFit'
<1> DEFINE r == job[j]
<1>1. r \in JobSet /\ Fit(r, pane', status', tool', loaded')
  BY FitStays DEF TypeOK, JobsFit
<1>2. ASSUME NEW modes, NEW place, StartCreate(j, modes, place) PROVE JobsFit'
  <2>1. PICK p \in Panes :
          Become(j, [Idle EXCEPT !.op = "create", !.pc = "create",
                                 !.pane = p, !.modes = modes])
    BY <1>2 DEF StartCreate
  <2> DEFINE q == [Idle EXCEPT !.op = "create", !.pc = "create", !.pane = p, !.modes = modes]
  <2>2. q.op = "create" /\ q.pc = "create" /\ q.pane = p
    BY DEF Idle
  <2>3. Become(j, q)
    BY <2>1
  <2> HIDE DEF q
  <2>4. Fit(q, pane', status', tool', loaded')
    BY <2>2, StartFit DEF Links
  <2>5. QED BY <2>3, <2>4, BecomeFit
<1>3. ASSUME NEW p \in Panes, NEW m \in Modes, StartAdd(j, p, m) PROVE JobsFit'
  <2> DEFINE q == [Idle EXCEPT !.op = "add", !.pc = "create", !.pane = p, !.modes = {m}]
  <2>1. q.op = "add" /\ q.pc = "create"
    BY DEF Idle
  <2>2. Become(j, q)
    BY <1>3 DEF StartAdd
  <2> HIDE DEF q
  <2>3. Fit(q, pane', status', tool', loaded')
    BY <2>1, StartFit DEF Links
  <2>4. QED BY <2>2, <2>3, BecomeFit
<1>4. ASSUME r.pc \in {"create", "insert", "reread"}
      PROVE  r.op \in {"create", "add"} /\ (r.op = "create" => r.pane \in Panes)
  BY <1>1, <1>4 DEF Fit, Rolls
<1>5. ASSUME r.pc \in {"create", "insert", "reread"}, Become(j, Rollback(r)) PROVE JobsFit'
  BY <1>1, <1>4, <1>5, RollbackFit, BecomeFit
<1>6. CASE CreateSession(j)
  <2> DEFINE m == NextMode(r.modes)
             q(s) == [r EXCEPT !.pc = "insert", !.session = s, !.mode = m,
                               !.modes = @ \ {m}, !.asked = @ \cup {s}]
             g(s) == [r EXCEPT !.asked = @ \cup {s}]
  <2>1. r.pc = "create"
    BY <1>6 DEF CreateSession
  <2>2. ASSUME NEW s \in Sessions, Runs(s, m, status', tool', loaded'), Become(j, q(s))
        PROVE  JobsFit'
    <3>1. /\ q(s).op = r.op /\ q(s).pane = r.pane /\ q(s).pc = "insert" /\ q(s).session = s
          /\ q(s).mode = m
      BY <1>1 DEF JobSet
    <3>2. Fit(q(s), pane', status', tool', loaded')
      BY <1>4, <2>1, <2>2, <3>1, StartFit
    <3>3. QED BY <2>2, <3>2, BecomeFit
  <2>3. ASSUME NEW s \in Sessions, Become(j, Rollback(g(s))) PROVE JobsFit'
    <3>1. g(s) \in JobSet /\ g(s).op = r.op /\ g(s).pane = r.pane
      BY <1>1 DEF JobSet
    <3>2. Fit(Rollback(g(s)), pane', status', tool', loaded')
      BY <1>4, <2>1, <3>1, RollbackFit
    <3>3. QED BY <2>3, <3>2, BecomeFit
  <2>6. ASSUME NEW s \in Sessions, Born(s, m) PROVE Runs(s, m, status', tool', loaded')
    BY <2>6 DEF Born, Runs, TypeOK
  <2>4. \/ \E s \in Sessions : Born(s, m) /\ Become(j, q(s))
        \/ \E s \in Sessions : Become(j, Rollback(g(s)))
        \/ Become(j, Rollback(r))
    BY <1>6 DEF CreateSession
  <2>5. QED BY <1>5, <2>1, <2>2, <2>3, <2>4, <2>6
<1>7. CASE InsertLink(j)
  <2> DEFINE q == [r EXCEPT !.pc = "reread"]
  <2>1. r.pc = "insert" /\ (Become(j, q) \/ Become(j, Rollback(r)))
    BY <1>7 DEF InsertLink, Goto
  <2>2. q.op = r.op /\ q.pane = r.pane /\ q.pc = "reread" /\ q.session = r.session
    BY <1>1 DEF JobSet
  <2>4. Fit(q, pane', status', tool', loaded')
    BY <1>4, <2>1, <2>2, StartFit DEF Links
  <2>5. QED BY <1>5, <2>1, <2>4, BecomeFit
<1>8. CASE RereadLink(j)
  <2> DEFINE q == [[r EXCEPT !.todo = @ \cup {r.session}] EXCEPT !.pc = "create"]
  <2>1. /\ r.pc = "reread"
        /\ Become(j, q) \/ Become(j, Rollback(r)) \/ Become(j, Over(r, "ok"))
    BY <1>8 DEF RereadLink, Finish
  <2>2. q.op = r.op /\ q.pane = r.pane /\ q.pc = "create"
    BY <1>1 DEF JobSet
  <2>3. Fit(q, pane', status', tool', loaded')
    BY <1>4, <2>1, <2>2, StartFit DEF Links
  <2>4. Fit(Over(r, "ok"), pane', status', tool', loaded')
    BY <1>1, OverFit
  <2>5. QED BY <1>5, <2>1, <2>3, <2>4, BecomeFit
<1>9. QED
  BY <1>2, <1>3, <1>6, <1>7, <1>8 DEF Create

\* A step of an ending request, or of a rollback.
LEMMA EndFit ==
  ASSUME TypeOK, JobsFit, LinksBorn, Lasting, NEW j \in Jobs, End(j)
  PROVE  JobsFit'
<1> DEFINE r == job[j]
<1>1. r \in JobSet /\ Fit(r, pane', status', tool', loaded')
  BY FitStays DEF TypeOK, JobsFit
<1>2. ASSUME NEW s \in Sessions, StartEnd(j, s) \/ StartClose(j, s) PROVE JobsFit'
  <2> DEFINE e == [Idle EXCEPT !.op = "end", !.pc = "read", !.todo = {s}, !.asked = {s}]
             c == [Idle EXCEPT !.op = "close", !.pc = "read", !.pane = link[s],
                               !.mode = IF link[s] = NoPane THEN "shell" ELSE mode[s],
                               !.todo = {s}, !.asked = {s}]
  <2>1. e.op = "end" /\ e.pc = "read" /\ c.op = "close" /\ c.pc = "read"
    BY DEF Idle
  <2>2. Become(j, e) \/ Become(j, c)
    BY <1>2 DEF StartEnd, StartClose
  <2> HIDE DEF e, c
  <2>3. Fit(e, pane', status', tool', loaded') /\ Fit(c, pane', status', tool', loaded')
    BY <2>1, StartFit DEF Links
  <2>4. QED BY <2>2, <2>3, BecomeFit
<1>3. ASSUME NEW p \in Panes, StartEndPane(j, p) PROVE JobsFit'
  <2> DEFINE next == IF Shown(p) = {} THEN "delete" ELSE "read"
             q == [Idle EXCEPT !.op = "pane", !.pane = p, !.pc = next,
                               !.todo = Shown(p), !.asked = Shown(p)]
  <2>1. q.op = "pane" /\ q.pc \in {"delete", "read"}
    BY DEF Idle
  <2>2. Become(j, q)
    BY <1>3 DEF StartEndPane
  <2> HIDE DEF q
  <2>3. Fit(q, pane', status', tool', loaded')
    BY <2>1, StartFit DEF Links
  <2>4. QED BY <2>2, <2>3, BecomeFit
<1>4. ASSUME NEW s \in Sessions, ReadSession(j, s) PROVE JobsFit'
  <2> DEFINE q == [r EXCEPT !.session = s]
             gone == Gone(q)
             alive == [q EXCEPT !.pc = "end", !.gen = gen[s]]
  <2>1. r.pc = "read" /\ s \in r.todo
    BY <1>4 DEF ReadSession
  <2>2. q \in JobSet /\ q.op = r.op /\ q.pc = r.pc /\ q.pane = r.pane /\ q.todo = r.todo
    BY <1>1 DEF JobSet
  <2>3. /\ gone.op = r.op /\ gone.pc = "unlink" /\ gone.pane = r.pane /\ gone.todo = r.todo
        /\ gone.session = s
        /\ alive.op = r.op /\ alive.pc = "end" /\ alive.pane = r.pane /\ alive.todo = r.todo
        /\ alive.session = s
    BY <1>1 DEF JobSet, Gone
  <2>4. Become(j, gone) \/ Become(j, alive) \/ Become(j, EndRaised(q))
    BY <1>4 DEF ReadSession
  <2> HIDE DEF q, gone, alive
  <2>5. Fit(q, pane', status', tool', loaded')
    BY <1>1, <2>1, <2>2 DEF Fit, Rolls, Shells, Links
  <2>6. Fit(gone, pane', status', tool', loaded') /\ Fit(alive, pane', status', tool', loaded')
    BY <1>1, <2>1, <2>3 DEF Fit, Rolls, Shells, Links
  <2>7. QED BY <2>2, <2>4, <2>5, <2>6, EndedFit, BecomeFit
<1>5. CASE EndSession(j)
  <2> DEFINE dead == [r EXCEPT !.pc = "unlink"]
             gone == Gone(r)
  <2>1. r.pc = "end" /\ (Become(j, dead) \/ Become(j, gone) \/ Become(j, EndRaised(r)))
    BY <1>5 DEF EndSession
  <2>2. /\ gone.op = r.op /\ gone.pc = "unlink" /\ gone.pane = r.pane /\ gone.todo = r.todo
        /\ gone.session = r.session
        /\ dead.op = r.op /\ dead.pc = "unlink" /\ dead.pane = r.pane /\ dead.todo = r.todo
        /\ dead.session = r.session
    BY <1>1 DEF JobSet, Gone
  <2> HIDE DEF gone, dead
  <2>3. Fit(gone, pane', status', tool', loaded') /\ Fit(dead, pane', status', tool', loaded')
    BY <1>1, <2>1, <2>2 DEF Fit, Rolls, Shells, Links
  <2>4. QED BY <1>1, <2>1, <2>3, EndedFit, BecomeFit
<1>6. CASE Unlink(j)
  BY <1>1, <1>6, EndedFit, BecomeFit DEF Unlink
<1>7. CASE DeletePane(j)
  <2>1. r.op = "rollback" => r.pane \in Panes /\ pane'[r.pane] = "deleted"
    BY <1>1, <1>7 DEF DeletePane, Fit, Rolls, TypeOK
  <2>2. Fit(Over(r, "ok"), pane', status', tool', loaded') /\ Fit(Over(r, "failed"), pane', status', tool', loaded')
    BY <1>1, <2>1, OverFit
  <2>3. QED BY <1>7, <2>2, BecomeFit DEF DeletePane, Finish
<1>8. CASE CloseRemaining(j)
  <2> DEFINE left == Shown(r.pane)
             next == IF left = {} THEN "delete" ELSE "read"
             q == [r EXCEPT !.op = "companions", !.todo = left,
                            !.asked = @ \cup left, !.pc = next]
  <2>1. \/ /\ Become(j, q) /\ Exists(r.pane)
           /\ ShouldCleanPane(r.mode, left)
        \/ Become(j, Over(r, "ok"))
    BY <1>8 DEF CloseRemaining, Finish
  <2>2. q.op = "companions" /\ q.pc = next /\ q.todo = left /\ q.pane = r.pane
    BY <1>1 DEF JobSet
  <2>3. next \in {"delete", "read"}
    OBVIOUS
  <2>4. ASSUME Exists(r.pane), ShouldCleanPane(r.mode, left)
        PROVE  \A s \in left : Runs(s, "shell", status', tool', loaded')
    <3>1. \A s \in left : s \in Linked /\ s \in Sessions /\ mode[s] = "shell"
      BY <2>4, NoneAssumption DEF Shown, Linked, Exists, ShouldCleanPane
    <3>2. \A s \in left : Runs(s, "shell", status, tool, loaded)
      BY <3>1 DEF LinksBorn
    <3>3. QED BY <3>1, <3>2, RunsStays
  <2> HIDE DEF q, next, left
  <2>5. Fit(Over(r, "ok"), pane', status', tool', loaded')
    BY <1>1, OverFit
  <2>6. ASSUME Exists(r.pane), ShouldCleanPane(r.mode, left)
        PROVE  Fit(q, pane', status', tool', loaded')
    BY <2>2, <2>3, <2>4, <2>6 DEF Fit, Rolls, Shells, Links
  <2>7. QED BY <2>1, <2>5, <2>6, BecomeFit
<1>9. QED
  BY <1>2, <1>3, <1>4, <1>5, <1>6, <1>7, <1>8 DEF End

\* A step of showing a session.
LEMMA ViewFit ==
  ASSUME TypeOK, JobsFit, Lasting, NEW j \in Jobs, View(j)
  PROVE  JobsFit'
<1> DEFINE r == job[j]
<1>1. r \in JobSet /\ Fit(r, pane', status', tool', loaded')
  BY FitStays DEF TypeOK, JobsFit
<1>2. ASSUME NEW s \in Sessions, NEW op \in {"view", "reuse"}, StartView(j, s, op)
      PROVE  JobsFit'
  <2> DEFINE q == [Idle EXCEPT !.op = op, !.session = s, !.mode = tool[s], !.pc = "newpane"]
             f == [Idle EXCEPT !.op = op, !.session = s, !.pc = "find"]
  <2>1. /\ q.op = op /\ q.session = s /\ q.pc = "newpane" /\ q.mode = tool[s]
        /\ f.op = op /\ f.pc = "find"
    BY DEF Idle
  <2>2. Become(j, q) \/ Become(j, f)
    BY <1>2 DEF StartView
  <2>3. Runs(s, tool[s], status', tool', loaded')
    <3>1. Runs(s, tool[s], status, tool, loaded)
      BY <1>2 DEF StartView, Runs
    <3>2. QED BY <3>1, RunsStays
  <2> HIDE DEF q, f
  <2>4. Fit(q, pane', status', tool', loaded') /\ Fit(f, pane', status', tool', loaded')
    BY <2>1, <2>3, StartFit DEF Links
  <2>5. QED BY <2>2, <2>4, BecomeFit
<1>3. ASSUME NEW p \in Panes, StartShow(j, p) PROVE JobsFit'
  <2> DEFINE q == [Idle EXCEPT !.op = "show", !.pc = "attach", !.pane = p]
  <2>1. q.op = "show" /\ q.pc = "attach"
    BY DEF Idle
  <2>2. Become(j, q)
    BY <1>3 DEF StartShow
  <2> HIDE DEF q
  <2>3. Fit(q, pane', status', tool', loaded')
    BY <2>1, StartFit DEF Links
  <2>4. QED BY <2>2, <2>3, BecomeFit
<1>4. ASSUME r.pc \in {"newpane", "link", "find", "attach"}
      PROVE  r.op # "rollback"
  BY <1>1, <1>4 DEF Fit, Rolls
<1>5. ASSUME NEW p \in Panes, Become(j, [r EXCEPT !.pc = "link", !.pane = p]), r.pc = "newpane"
      PROVE  JobsFit'
  <2> DEFINE q == [r EXCEPT !.pc = "link", !.pane = p]
  <2>1. /\ q.op = r.op /\ q.pc = "link" /\ q.pane = p /\ q.session = r.session /\ q.todo = r.todo
        /\ q.mode = r.mode
    BY <1>1 DEF JobSet
  <2>2. Become(j, q)
    BY <1>5
  <2> HIDE DEF q
  <2>3. Fit(q, pane', status', tool', loaded')
    BY <1>1, <1>4, <1>5, <2>1 DEF Fit, Rolls, Shells, Links
  <2>4. QED BY <2>2, <2>3, BecomeFit
<1>6. ASSUME Become(j, [r EXCEPT !.pc = "find"]), r.pc = "link" PROVE JobsFit'
  <2> DEFINE q == [r EXCEPT !.pc = "find"]
  <2>1. q.op = r.op /\ q.pc = "find" /\ q.pane = r.pane /\ q.todo = r.todo
    BY <1>1 DEF JobSet
  <2>2. Become(j, q)
    BY <1>6
  <2> HIDE DEF q
  <2>3. Fit(q, pane', status', tool', loaded')
    BY <1>1, <1>4, <1>6, <2>1 DEF Fit, Rolls, Shells, Links
  <2>4. QED BY <2>2, <2>3, BecomeFit
<1>7. ASSUME NEW p, Exists(p), Become(j, [r EXCEPT !.pc = "attach", !.pane = p]), r.pc = "find"
      PROVE  JobsFit'
  <2> DEFINE q == [r EXCEPT !.pc = "attach", !.pane = p]
  <2>1. q.op = r.op /\ q.pc = "attach" /\ q.pane = p /\ q.todo = r.todo /\ p \in Panes
    BY <1>1, <1>7 DEF JobSet, Exists
  <2>2. Become(j, q)
    BY <1>7
  <2> HIDE DEF q
  <2>3. Fit(q, pane', status', tool', loaded')
    BY <1>1, <1>4, <1>7, <2>1 DEF Fit, Rolls, Shells, Links
  <2>4. QED BY <2>2, <2>3, BecomeFit
<1>8. ASSUME NEW pc \in {"ok", "failed"}, Become(j, Over(r, pc)),
             r.pc \in {"newpane", "link", "find", "attach"}
      PROVE  JobsFit'
  <2>1. Fit(Over(r, pc), pane', status', tool', loaded')
    BY <1>1, <1>4, <1>8, OverFit
  <2>2. QED BY <1>8, <2>1, BecomeFit
<1>9. CASE NewPane(j)
  BY <1>5, <1>9 DEF NewPane
<1>10. CASE LinkView(j)
  BY <1>6, <1>8, <1>10 DEF LinkView, Goto, Finish
<1>11. CASE FindPane(j)
  BY <1>7, <1>8, <1>11 DEF FindPane, Finish
<1>12. CASE AttachPane(j)
  BY <1>8, <1>12 DEF AttachPane, Finish
<1>13. QED
  BY <1>2, <1>3, <1>9, <1>10, <1>11, <1>12 DEF View

\* A step of loading another tool.
LEMMA LoadFit ==
  ASSUME TypeOK, JobsFit, LinksBorn, Lasting, NEW j \in Jobs, Load(j)
  PROVE  JobsFit'
<1> DEFINE r == job[j]
<1>1. r \in JobSet /\ Fit(r, pane', status', tool', loaded')
  BY FitStays DEF TypeOK, JobsFit
<1>2. ASSUME NEW s \in Sessions, StartLoad(j, s) PROVE JobsFit'
  <2> DEFINE q == [Idle EXCEPT !.op = "load", !.pc = "load", !.session = s]
  <2>1. q.op = "load" /\ q.pc = "load" /\ q.session = s
    BY DEF Idle
  <2>2. Become(j, q) /\ status'[s] # "unborn"
    BY <1>2 DEF StartLoad, Answers, Lasting
  <2> HIDE DEF q
  <2>3. Fit(q, pane', status', tool', loaded')
    BY <2>1, <2>2, StartFit DEF Links
  <2>4. QED BY <2>2, <2>3, BecomeFit
<1>3. ASSUME r.pc \in {"load", "remember"} PROVE r.op # "rollback"
  BY <1>1, <1>3 DEF Fit, Rolls
<1>4. ASSUME NEW pc \in {"ok", "failed"}, r.pc \in {"load", "remember"}, Become(j, Over(r, pc))
      PROVE  JobsFit'
  BY <1>1, <1>3, <1>4, OverFit, BecomeFit
<1>5. ASSUME NEW t \in Modes, LoadTool(j, t) PROVE JobsFit'
  <2> DEFINE q == [r EXCEPT !.pc = "remember", !.mode = t]
  <2>1. r.pc = "load" /\ r.session \in Sessions
    BY <1>5 DEF LoadTool, TypeOK, Naming
  <2>2. \/ Become(j, q) /\ Reload(r.session, t)
        \/ Become(j, Over(r, "failed"))
    BY <1>5 DEF LoadTool, Finish
  <2>3. ASSUME Reload(r.session, t) PROVE Runs(r.session, t, status', tool', loaded')
    <3>1. status'[r.session] # "unborn"
      BY <1>1, <2>1 DEF Fit, Shells
    <3>2. tool'[r.session] = t
      BY <2>1, <2>3 DEF Reload, TypeOK
    <3>3. QED BY <3>1, <3>2 DEF Runs
  <2>4. /\ q.op = r.op /\ q.pc = "remember" /\ q.session = r.session /\ q.mode = t
        /\ q.pane = r.pane /\ q.todo = r.todo
    BY <1>1 DEF JobSet
  <2> HIDE DEF q
  <2>5. ASSUME Runs(r.session, t, status', tool', loaded') PROVE Fit(q, pane', status', tool', loaded')
    BY <1>1, <1>3, <2>1, <2>4, <2>5 DEF Fit, Rolls, Shells, Links
  <2>6. QED BY <1>4, <2>1, <2>2, <2>3, <2>5, BecomeFit
<1>6. CASE RememberTool(j)
  BY <1>4, <1>6 DEF RememberTool, Finish
<1>7. QED BY <1>2, <1>5, <1>6 DEF Load

\* Links that are left alone, or dropped, still say what their sessions run.
LEMMA LinksLast ==
  ASSUME TypeOK, LinksBorn, Lasting,
         \A s \in Sessions : \/ link'[s] = NoPane
                             \/ link'[s] = link[s] /\ mode'[s] = mode[s]
  PROVE  LinksBorn'
<1> SUFFICES ASSUME NEW s \in Linked' PROVE Runs(s, mode'[s], status', tool', loaded')
  BY DEF LinksBorn
<1>1. s \in Sessions /\ s \in Linked /\ mode'[s] = mode[s]
  BY DEF Linked
<1>2. Runs(s, mode[s], status, tool, loaded)
  BY <1>1 DEF LinksBorn
<1>3. QED BY <1>1, <1>2, RunsStays

\* So does the one whose row is written with what its session runs.
LEMMA LinkWritten ==
  ASSUME TypeOK, LinksBorn, Lasting, NEW s \in Sessions, NEW m \in Modes,
         Runs(s, m, status, tool, loaded), mode' = [mode EXCEPT ![s] = m],
         \A u \in Sessions \ {s} : link'[u] = link[u]
  PROVE  LinksBorn'
<1> SUFFICES ASSUME NEW u \in Linked' PROVE Runs(u, mode'[u], status', tool', loaded')
  BY DEF LinksBorn
<1>1. u \in Sessions
  BY DEF Linked
<1>2. CASE u = s
  BY <1>2, RunsStays DEF TypeOK
<1>3. CASE u # s
  <2>1. mode'[u] = mode[u] /\ u \in Linked
    BY <1>1, <1>3 DEF Linked, TypeOK
  <2>2. QED BY <1>1, <2>1, RunsStays DEF LinksBorn
<1>4. QED BY <1>2, <1>3

\* A link is only ever made to a session that its request created or saw alive.
LEMMA NextBorn == TypeOK /\ JobsFit /\ LinksBorn /\ NewsTrue /\ [Next]_vars => LinksBorn'
<1> SUFFICES ASSUME TypeOK, JobsFit, LinksBorn, NewsTrue, [Next]_vars PROVE LinksBorn'
  OBVIOUS
<1>1. Lasting
  BY NextLasting
<1>2. ASSUME UNCHANGED <<link, mode>> PROVE LinksBorn'
  BY <1>1, <1>2, LinksLast
<1>3. ASSUME UNCHANGED mode, \A s \in Sessions : link'[s] \in {link[s], NoPane} PROVE LinksBorn'
  BY <1>1, <1>3, LinksLast
<1>4. ASSUME NEW j \in Jobs, job[j].pc \in {"insert", "link"}, LinkTo(job[j]) PROVE LinksBorn'
  <2>1. /\ job[j].session \in Sessions /\ job[j].mode \in Modes
        /\ Runs(job[j].session, job[j].mode, status, tool, loaded)
    BY <1>4 DEF JobsFit, Fit, Shells, Links, TypeOK, Naming, JobSet
  <2>2. \A u \in Sessions \ {job[j].session} : link'[u] = link[u]
    BY <1>4, <2>1 DEF LinkTo, TypeOK
  <2>3. QED BY <1>1, <1>4, <2>1, <2>2, LinkWritten DEF LinkTo
<1>5. ASSUME NEW j \in Jobs, Create(j) PROVE LinksBorn'
  BY <1>2, <1>4, <1>5 DEF Create, StartCreate, StartAdd, CreateSession, InsertLink, RereadLink,
                          store
<1>6. ASSUME NEW j \in Jobs, End(j) PROVE LinksBorn'
  <2>1. CASE Unlink(j) \/ DeletePane(j)
    BY <1>3, <2>1 DEF Unlink, DeletePane, Cascade, TypeOK
  <2>2. CASE ~(Unlink(j) \/ DeletePane(j))
    BY <1>2, <1>6, <2>2 DEF End, StartEnd, StartEndPane, StartClose, ReadSession, EndSession,
                            CloseRemaining, store
  <2>3. QED BY <2>1, <2>2
<1>7. ASSUME NEW j \in Jobs, View(j) PROVE LinksBorn'
  BY <1>2, <1>4, <1>7 DEF View, StartView, StartShow, NewPane, LinkView, FindPane, AttachPane,
                          store
<1>8. ASSUME NEW j \in Jobs, Load(j) PROVE LinksBorn'
  <2>1. CASE RememberTool(j)
    <3>1. /\ job[j].session \in Sessions /\ job[j].mode \in Modes
          /\ Runs(job[j].session, job[j].mode, status, tool, loaded)
      BY <2>1 DEF RememberTool, JobsFit, Fit, Shells, Links, TypeOK, Naming, JobSet
    <3>2. QED BY <1>1, <2>1, <3>1, LinkWritten DEF RememberTool
  <2>2. CASE ~RememberTool(j)
    BY <1>2, <1>8, <2>2 DEF Load, StartLoad, LoadTool, store
  <2>3. QED BY <2>1, <2>2
<1>9. CASE Sweep
  BY <1>3, <1>9 DEF Sweep, SweepReads, SweepLists, SweepDrops, SweepPrunes, store, TypeOK
<1>10. ASSUME NEW s \in Sessions, Outside(s) PROVE LinksBorn'
  <2>1. ASSUME NEW t \in Modes, WatcherTells(s, t) PROVE LinksBorn'
    <3>1. Runs(s, t, status, tool, loaded)
      BY <2>1 DEF WatcherTells, NewsTrue
    <3>2. QED BY <1>1, <2>1, <3>1, LinkWritten DEF WatcherTells
  <2>2. CASE WatcherDrops(s)
    BY <1>3, <2>2 DEF WatcherDrops, TypeOK
  <2>3. ASSUME NEW t \in Modes, SessionEnds(s) \/ BornOutside(s, t) \/ Respawn(s, t)
        PROVE  LinksBorn'
    BY <1>2, <2>3 DEF SessionEnds, BornOutside, Respawn, store
  <2>4. QED BY <1>10, <2>1, <2>2, <2>3 DEF Outside, Modes
<1>11. ASSUME NEW p \in Panes, DetachPane(p) PROVE LinksBorn'
  BY <1>2, <1>11 DEF DetachPane
<1>12. CASE Restart \/ UNCHANGED vars \/ OtherGoes \/ OtherReturns \/ AppLists
  BY <1>2, <1>12 DEF Restart, vars, OtherGoes, OtherReturns, AppLists, store
<1>13. QED
  BY <1>5, <1>6, <1>7, <1>8, <1>9, <1>10, <1>11, <1>12 DEF Next

\* Events that told nothing new, or less than they had, still tell the truth.
LEMMA NewsLast ==
  ASSUME NewsTrue, Lasting, \A s \in Sessions : news'[s] \subseteq news[s]
  PROVE  NewsTrue'
BY RunsStays DEF NewsTrue

\* So do those of another tool.
LEMMA NewsOfReload ==
  ASSUME TypeOK, NewsTrue, Lasting, NEW s \in Sessions, NEW t \in Modes,
         status[s] = "live", Reload(s, t)
  PROVE  NewsTrue'
<1> SUFFICES ASSUME NEW u \in Sessions, NEW m \in news'[u]
             PROVE  Runs(u, m, status', tool', loaded')
  BY DEF NewsTrue
<1>1. CASE m \in news[u]
  BY <1>1, RunsStays DEF NewsTrue
<1>2. CASE m \notin news[u]
  <2>1. u = s /\ m \in {tool[s], t}
    BY <1>2 DEF Reload, TypeOK
  <2>2. status'[s] # "unborn" /\ tool'[s] = t /\ (t # tool[s] => s \in loaded')
    BY DEF Reload, TypeOK
  <2>3. QED BY <2>1, <2>2 DEF Runs
<1>3. QED BY <1>1, <1>2

\* The events tell of what a session ran.
LEMMA NextNews == TypeOK /\ JobsFit /\ NewsTrue /\ [Next]_vars => NewsTrue'
<1> SUFFICES ASSUME TypeOK, JobsFit, NewsTrue, [Next]_vars PROVE NewsTrue'
  OBVIOUS
<1>1. Lasting
  BY NextLasting
<1>2. ASSUME UNCHANGED news PROVE NewsTrue'
  BY <1>1, <1>2, NewsLast
<1>3. ASSUME NEW j \in Jobs, Create(j) PROVE NewsTrue'
  BY <1>2, <1>3 DEF Create, StartCreate, StartAdd, CreateSession, InsertLink, RereadLink, Born,
                    tether
<1>4. ASSUME NEW j \in Jobs, End(j) PROVE NewsTrue'
  BY <1>2, <1>4 DEF End, StartEnd, StartEndPane, StartClose, ReadSession, EndSession, Unlink,
                    DeletePane, CloseRemaining, tether
<1>5. ASSUME NEW j \in Jobs, View(j) PROVE NewsTrue'
  BY <1>2, <1>5 DEF View, StartView, StartShow, NewPane, LinkView, FindPane, AttachPane, tether
<1>6. ASSUME NEW j \in Jobs, Load(j) PROVE NewsTrue'
  <2>1. ASSUME NEW t \in Modes, LoadTool(j, t) PROVE NewsTrue'
    <3>1. job[j].session \in Sessions
      BY <2>1 DEF LoadTool, TypeOK, Naming
    <3>2. (status[job[j].session] = "live" /\ Reload(job[j].session, t)) \/ UNCHANGED tether
      BY <2>1 DEF LoadTool, Answers
    <3>3. QED BY <1>1, <1>2, <3>1, <3>2, NewsOfReload DEF tether
  <2>2. ASSUME RememberTool(j) \/ \E s \in Sessions : StartLoad(j, s) PROVE NewsTrue'
    BY <1>2, <2>2 DEF RememberTool, StartLoad, tether
  <2>3. QED BY <1>6, <2>1, <2>2 DEF Load
<1>7. CASE Sweep
  BY <1>2, <1>7 DEF Sweep, SweepReads, SweepLists, SweepDrops, SweepPrunes, tether
<1>8. ASSUME NEW s \in Sessions, Outside(s) PROVE NewsTrue'
  <2>1. ASSUME NEW t \in Modes, Respawn(s, t) PROVE NewsTrue'
    BY <1>1, <2>1, NewsOfReload DEF Respawn
  <2>2. ASSUME NEW t \in Modes, WatcherTells(s, t) PROVE NewsTrue'
    BY <1>1, <2>2, NewsLast DEF WatcherTells, TypeOK
  <2>3. ASSUME NEW t \in Modes, WatcherDrops(s) \/ SessionEnds(s) \/ BornOutside(s, t)
        PROVE  NewsTrue'
    BY <1>2, <2>3 DEF WatcherDrops, SessionEnds, BornOutside, Born, tether
  <2>4. QED BY <1>8, <2>1, <2>2, <2>3 DEF Outside, Modes
<1>9. ASSUME NEW p \in Panes, DetachPane(p) PROVE NewsTrue'
  BY <1>2, <1>9 DEF DetachPane, tether
<1>10. CASE UNCHANGED vars \/ OtherGoes \/ OtherReturns \/ AppLists
  BY <1>2, <1>10 DEF vars, OtherGoes, OtherReturns, AppLists, tether
<1>11. CASE Restart
  BY <1>1, <1>11, NewsLast DEF Restart
<1>12. QED
  BY <1>3, <1>4, <1>5, <1>6, <1>7, <1>8, <1>9, <1>10, <1>11 DEF Next

\* Every step keeps what the requests know.
LEMMA NextFit == TypeOK /\ JobsFit /\ LinksBorn /\ [Next]_vars => JobsFit'
<1> SUFFICES ASSUME TypeOK, JobsFit, LinksBorn, [Next]_vars PROVE JobsFit'
  OBVIOUS
<1>1. Lasting
  BY NextLasting
<1>2. ASSUME NEW j \in Jobs, Create(j) \/ End(j) \/ View(j) \/ Load(j) PROVE JobsFit'
  BY <1>1, <1>2, CreateFit, EndFit, ViewFit, LoadFit
<1>3. ASSUME UNCHANGED job PROVE JobsFit'
  <2> SUFFICES ASSUME NEW i \in Jobs PROVE Fit(job[i], pane', status', tool', loaded')
    BY <1>3 DEF JobsFit
  <2>1. job[i] \in JobSet /\ (job[i].pc \in Naming => job[i].session \in Sessions)
    BY DEF TypeOK
  <2>2. QED BY <1>1, <2>1, FitStays DEF JobsFit
<1>4. CASE Restart
  <2>1. \A i \in Jobs : job'[i] = Idle
    BY <1>4 DEF Restart
  <2>2. Fit(Idle, pane', status', tool', loaded')
    BY DEF Fit, Rolls, Shells, Links, Idle
  <2>3. QED BY <2>1, <2>2 DEF JobsFit
<1>5. CASE Sweep
  BY <1>3, <1>5 DEF Sweep, SweepReads, SweepLists, SweepDrops, SweepPrunes
<1>6. ASSUME NEW s \in Sessions, Outside(s) PROVE JobsFit'
  BY <1>3, <1>6 DEF Outside, WatcherDrops, SessionEnds, BornOutside, Respawn, WatcherTells
<1>7. ASSUME NEW p \in Panes, DetachPane(p) PROVE JobsFit'
  BY <1>3, <1>7 DEF DetachPane
<1>8. CASE UNCHANGED vars \/ OtherGoes \/ OtherReturns \/ AppLists
  BY <1>3, <1>8 DEF vars, OtherGoes, OtherReturns, AppLists
<1>9. QED
  BY <1>2, <1>4, <1>5, <1>6, <1>7, <1>8 DEF Next

\* Before the first request nothing is linked and nobody knows anything.
LEMMA InitFit == Init => JobsFit /\ LinksBorn /\ NewsTrue
<1> SUFFICES ASSUME Init PROVE JobsFit /\ LinksBorn /\ NewsTrue
  OBVIOUS
<1>1. \A j \in Jobs : job[j] = Idle
  BY DEF Init
<1>2. Fit(Idle, pane, status, tool, loaded)
  BY DEF Fit, Rolls, Shells, Links, Idle
<1>3. LinksBorn
  BY DEF Init, LinksBorn, Linked
<1>4. NewsTrue
  BY DEF Init, NewsTrue
<1>5. QED BY <1>1, <1>2, <1>3, <1>4 DEF JobsFit

\* What the requests, the links and the events know is an invariant.
LEMMA AllFit == Spec => [](JobsFit /\ LinksBorn /\ NewsTrue)
<1>1. TypeOK /\ (JobsFit /\ LinksBorn /\ NewsTrue) /\ [Next]_vars
        => (JobsFit /\ LinksBorn /\ NewsTrue)'
  BY NextFit, NextBorn, NextNews
<1>2. QED BY <1>1, InitFit, TypeCorrect, PTL DEF Spec

\* A create that failed at any step, with a create or an end that fails inside its
\* rollback too, has deleted the pane it made (create_pane_with_sessions).
THEOREM NoPaneLeftBehind == Spec => []FailedCreateLeavesNoPane
<1>1. JobsFit => FailedCreateLeavesNoPane
  BY DEF JobsFit, Fit, Rolls, FailedCreateLeavesNoPane, Exists
<1>2. QED BY <1>1, AllFit, PTL

\* What ends because another session of its pane was closed (close_session) is a
\* shell, if it was never given another tool: a close that was not its own ends no such
\* agent, whatever requests, moved links and late events there are.
THEOREM AgentsSpared == Spec => CloseSparesAgents
<1> DEFINE Spared == \A j \in Jobs, s \in Sessions \ loaded :
             job[j].pc = "end" /\ job'[j] # job[j] /\ status[s] = "live" /\ status'[s] = "ended"
               => \/ tool[s] = "shell" \/ job[j].op # "companions"
<1>1. TypeOK /\ JobsFit /\ [Next]_vars => [Spared]_vars
  <2> SUFFICES ASSUME TypeOK, JobsFit, [Next]_vars, NEW j \in Jobs, NEW s \in Sessions \ loaded,
                      job[j].pc = "end", job'[j] # job[j],
                      status[s] = "live", status'[s] = "ended"
               PROVE  tool[s] = "shell" \/ job[j].op # "companions"
    OBVIOUS
  <2>1. ASSUME NEW t \in Sessions, NEW m, Born(t, m) PROVE FALSE
    BY <2>1 DEF Born, TypeOK
  <2>2. ASSUME NEW i \in Jobs, Create(i) \/ View(i) \/ Load(i) PROVE FALSE
    <3>1. UNCHANGED status \/ \E t \in Sessions, m \in {NextMode(job[i].modes)} : Born(t, m)
      BY <2>2 DEF Create, StartCreate, StartAdd, CreateSession, InsertLink, RereadLink,
                  View, StartView, StartShow, NewPane, LinkView, FindPane, AttachPane,
                  Load, StartLoad, LoadTool, RememberTool, Reload, tether
    <3>2. QED BY <2>1, <3>1
  <2>3. ASSUME NEW i \in Jobs, End(i) PROVE i = j /\ s = job[i].session
    <3>1. EndSession(i)
      BY <2>3 DEF End, StartEnd, StartEndPane, StartClose, ReadSession, Unlink, DeletePane,
                  CloseRemaining, tether
    <3>2. \E r : Become(i, r)
      BY <3>1 DEF EndSession
    <3>3. i = j
      BY <3>2 DEF Become, TypeOK
    <3>4. s = job[i].session
      BY <3>1 DEF EndSession, tether, TypeOK
    <3>5. QED BY <3>3, <3>4
  <2>4. ASSUME Sweep \/ Restart \/ UNCHANGED vars \/ OtherGoes \/ OtherReturns \/ AppLists
               \/ \E p \in Panes : DetachPane(p)
        PROVE  FALSE
    BY <2>4 DEF Sweep, SweepReads, SweepLists, SweepDrops, SweepPrunes, DetachPane, Restart,
                OtherGoes, OtherReturns, AppLists, vars, tether
  <2>5. ASSUME NEW t \in Sessions, Outside(t) PROVE FALSE
    BY <2>5 DEF Outside, WatcherDrops, SessionEnds, BornOutside, Respawn, WatcherTells
  <2>6. s = job[j].session
    BY <2>2, <2>3, <2>4, <2>5 DEF Next
  <2>7. QED BY <2>6 DEF JobsFit, Fit, Shells, Runs
<1>2. QED BY <1>1, AllFit, TypeCorrect, PTL DEF Spec, CloseSparesAgents

-------------------------------------------------------------------------------
(***************************************************************************)
(* A request that says it ended sessions did.                              *)
(***************************************************************************)

\* What a request knows of the sessions it was to end, st being their status:
\* they were created, and each is over, still to do or out of its sight; so is
\* the one to unlink, and the loop is left only when nothing is to do.
Closing == {"end", "pane", "close", "companions"}
Opening == {"create", "insert", "reread", "newpane", "link", "find", "attach",
            "load", "remember"}
Past(r, s, st) == st[s] = "ended" \/ s \in r.missed
Done(r, st) ==
  r.op \in Closing =>
    /\ r.todo \subseteq r.asked
    /\ \A s \in r.asked : st[s] # "unborn" /\ (s \in r.todo \/ Past(r, s, st))
Kept(r, st) ==
  /\ Done(r, st)
  /\ r.pc = "ok" => \A s \in r.asked : Past(r, s, st)
  /\ r.op \in Closing /\ r.pc \in {"end", "unlink"} => r.session \in r.asked
  /\ r.op \in Closing /\ r.pc = "unlink" => Past(r, r.session, st)
  /\ r.pc \in {"delete", "remaining"} => r.todo = {}
  /\ r.pc \in Opening => r.op \notin Closing
  /\ r.pc = "remaining" => r.op = "close"
JobsKept == \A j \in Jobs : Kept(job[j], status)

\* Sessions never come back: what a request knows stays true.
LEMMA DoneStays ==
  ASSUME NEW r \in JobSet, Lasting, Done(r, status)
  PROVE  Done(r, status')
<1>1. r.asked \subseteq Sessions
  BY DEF JobSet
<1> QED
  BY <1>1 DEF Done, Past, Lasting

\* All of it does.
LEMMA KeptStays ==
  ASSUME NEW r \in JobSet, r.pc = "unlink" => r.session \in Sessions, Lasting,
         Kept(r, status)
  PROVE  Kept(r, status')
<1>1. r.asked \subseteq Sessions
  BY DEF JobSet
<1>2. Done(r, status')
  BY DoneStays DEF Kept
<1>3. r.pc = "ok" => \A s \in r.asked : Past(r, s, status')
  BY <1>1 DEF Kept, Past, Lasting
<1>4. r.op \in Closing /\ r.pc = "unlink" => Past(r, r.session, status')
  BY DEF Kept, Past, Lasting
<1> QED
  BY <1>2, <1>3, <1>4 DEF Kept

\* A request that is over, and either failed or had nothing left to do.
LEMMA OverKept ==
  ASSUME NEW r \in JobSet, NEW st, NEW pc \in {"ok", "failed"},
         pc = "ok" /\ r.op \in Closing => \A s \in r.asked : Past(r, s, st)
  PROVE  Kept(Over(r, pc), st)
<1>1. Over(r, pc).op = "none"
  BY DEF Over, Idle
<1>2. Over(r, pc).pc \in {"idle", "ok", "failed"}
  BY DEF Over, Idle
<1>3. Over(r, pc).pc = "ok" => \A s \in Over(r, pc).asked : Past(Over(r, pc), s, st)
  BY DEF Over, Idle, Closing, Past
<1> QED
  BY <1>1, <1>2, <1>3 DEF Kept, Done, Closing, Opening

\* A rollback ends what it created before it deletes the pane.
LEMMA RollbackKept ==
  ASSUME NEW r \in JobSet, NEW st
  PROVE  Kept(Rollback(r), st)
BY DEF Kept, Done, Closing, Opening, Rollback, Idle, JobSet

\* One session dealt with: over, unless this is a rollback that gave it up.
LEMMA EndedKept ==
  ASSUME NEW r \in JobSet, NEW st, Done(r, st),
         r.op \in Closing => Past(r, r.session, st)
  PROVE  Kept(Ended(r), st)
<1> DEFINE left == r.todo \ {r.session}
           next == IF left = {} THEN IF r.op = "close" THEN "remaining" ELSE "delete"
                   ELSE "read"
           q == [r EXCEPT !.todo = left, !.gen = 0, !.pc = next]
<1>1. CASE left = {} /\ r.op = "end"
  <2>1. \A s \in r.asked : Past(r, s, st)
    BY <1>1 DEF Done, Closing
  <2>2. Kept(Over(r, "ok"), st)
    BY <2>1, OverKept
  <2> QED
    BY <1>1, <2>2 DEF Ended
<1>2. CASE ~(left = {} /\ r.op = "end")
  <2>1. /\ q.op = r.op /\ q.asked = r.asked /\ q.todo = left /\ q.pc = next
        /\ q.missed = r.missed
    BY DEF JobSet
  <2>2. next \in {"remaining", "delete", "read"}
    OBVIOUS
  <2>3. next \in {"delete", "remaining"} => left = {}
    OBVIOUS
  <2>4. next = "remaining" => r.op = "close"
    OBVIOUS
  <2>5. Done(q, st)
    BY <2>1 DEF Done, Past
  <2>6. Ended(r) = q
    BY <1>2 DEF Ended
  <2> HIDE DEF q, next, left
  <2>7. Kept(q, st)
    BY <2>1, <2>2, <2>3, <2>4, <2>5 DEF Kept, Opening
  <2> QED
    BY <2>6, <2>7
<1> QED
  BY <1>1, <1>2

\* end_session raised: only a rollback goes on.
LEMMA EndRaisedKept ==
  ASSUME NEW r \in JobSet, NEW st, Done(r, st)
  PROVE  Kept(EndRaised(r), st)
<1>1. CASE r.op = "rollback"
  BY <1>1, EndedKept DEF EndRaised, Closing
<1>2. CASE r.op # "rollback"
  BY <1>2, OverKept DEF EndRaised
<1> QED
  BY <1>1, <1>2

\* A session taken for gone is over, or out of sight and on record as such.
LEMMA GoneKept ==
  ASSUME NEW r \in JobSet, r.session \in Sessions, Lasting, TypeOK, Done(r, status),
         NotFound(r.session), r.op \in Closing => r.session \in r.asked,
         UNCHANGED status
  PROVE  Kept(Gone(r), status')
<1> DEFINE q == Gone(r)
<1>1. /\ q.op = r.op /\ q.pc = "unlink" /\ q.session = r.session
      /\ q.asked = r.asked /\ q.todo = r.todo /\ r.missed \subseteq q.missed
      /\ Hidden(r.session) => r.session \in q.missed
  BY DEF Gone, JobSet
<1>2. Done(q, status')
  BY <1>1, DoneStays DEF Done, Past
<1>3. ASSUME r.op \in Closing PROVE Past(q, r.session, status')
  <2>1. status[r.session] # "unborn"
    BY <1>3 DEF Done
  <2>2. status[r.session] \in {"live", "ended"}
    BY <2>1 DEF TypeOK
  <2>3. CASE status[r.session] = "live"
    BY <1>1, <2>3 DEF NotFound, Answers, Away, Hidden, Past, TypeOK
  <2>4. CASE status[r.session] = "ended"
    BY <2>4 DEF Past
  <2> QED
    BY <2>2, <2>3, <2>4
<1> HIDE DEF q
<1>4. Kept(q, status')
  BY <1>1, <1>2, <1>3 DEF Kept, Opening
<1> QED
  BY <1>4 DEF q

\* When one request's record changes, only that one needs looking at.
LEMMA BecomeKept ==
  ASSUME TypeOK, JobsKept, NEW j \in Jobs, NEW r, Become(j, r), Kept(r, status'), Lasting
  PROVE  JobsKept'
<1> SUFFICES ASSUME NEW i \in Jobs PROVE Kept(job'[i], status')
  BY DEF JobsKept
<1>1. CASE i = j
  BY <1>1 DEF Become, TypeOK
<1>2. CASE i # j
  <2>1. job'[i] = job[i]
    BY <1>2 DEF Become, TypeOK
  <2>2. job[i] \in JobSet /\ (job[i].pc = "unlink" => job[i].session \in Sessions)
    BY DEF TypeOK, Naming
  <2>3. Kept(job[i], status)
    BY DEF JobsKept
  <2> QED
    BY <2>1, <2>2, <2>3, KeptStays
<1> QED
  BY <1>1, <1>2

\* When none does, what they know stays true.
LEMMA JobsUnchanged ==
  ASSUME TypeOK, JobsKept, UNCHANGED job, Lasting
  PROVE  JobsKept'
<1> SUFFICES ASSUME NEW i \in Jobs PROVE Kept(job[i], status')
  BY DEF JobsKept
<1>1. job[i] \in JobSet /\ (job[i].pc = "unlink" => job[i].session \in Sessions)
  BY DEF TypeOK, Naming
<1>2. Kept(job[i], status)
  BY DEF JobsKept
<1> QED
  BY <1>1, <1>2, KeptStays

\* A step of a create keeps the word of every request.
LEMMA CreateKept ==
  ASSUME TypeOK, JobsKept, Lasting, NEW j \in Jobs, Create(j)
  PROVE  JobsKept'
<1>1. job[j] \in JobSet /\ Kept(job[j], status)
  BY DEF TypeOK, JobsKept
<1>2. Kept(Rollback(job[j]), status')
  BY <1>1, RollbackKept
<1>3. ASSUME NEW modes \in {{"shell"}, Modes}, NEW place, StartCreate(j, modes, place)
      PROVE  JobsKept'
  <2>1. PICK p \in Panes :
          Become(j, [Idle EXCEPT !.op = "create", !.pc = "create",
                                 !.pane = p, !.modes = modes])
    BY <1>3 DEF StartCreate
  <2>2. Kept([Idle EXCEPT !.op = "create", !.pc = "create",
                          !.pane = p, !.modes = modes], status')
    BY DEF Kept, Done, Idle, Closing, Opening
  <2> QED
    BY <2>1, <2>2, BecomeKept
<1>4. CASE CreateSession(j)
  <2> DEFINE m == NextMode(job[j].modes)
             q(s) == [job[j] EXCEPT !.pc = "insert", !.session = s, !.mode = m,
                                    !.modes = @ \ {m}, !.asked = @ \cup {s}]
             g(s) == [job[j] EXCEPT !.asked = @ \cup {s}]
  <2>1. ASSUME NEW s \in Sessions, Become(j, q(s)), job[j].pc = "create"
        PROVE  JobsKept'
    <3>1. q(s).op \notin Closing /\ q(s).pc = "insert"
      BY <1>1, <2>1 DEF JobSet, Kept, Opening
    <3>2. Kept(q(s), status')
      BY <3>1 DEF Kept, Done
    <3> QED
      BY <2>1, <3>2, BecomeKept
  <2>2. ASSUME NEW s \in Sessions, Become(j, Rollback(g(s)))
        PROVE  JobsKept'
    <3>1. g(s) \in JobSet
      BY <1>1 DEF JobSet
    <3>2. Kept(Rollback(g(s)), status')
      BY <3>1, RollbackKept
    <3> QED
      BY <2>2, <3>2, BecomeKept
  <2>3. CASE Become(j, Rollback(job[j]))
    BY <1>2, <2>3, BecomeKept
  <2> QED
    BY <1>4, <2>1, <2>2, <2>3 DEF CreateSession
<1>5. CASE InsertLink(j)
  <2> DEFINE q == [job[j] EXCEPT !.pc = "reread"]
  <2>1. job[j].op \notin Closing
    BY <1>1, <1>5 DEF InsertLink, Kept, Opening
  <2>2. q.op \notin Closing /\ q.pc = "reread"
    BY <1>1, <2>1 DEF JobSet
  <2>3. Kept(q, status')
    BY <2>2 DEF Kept, Done
  <2> QED
    BY <1>2, <1>5, <2>3, BecomeKept DEF InsertLink, Goto
<1>6. CASE RereadLink(j)
  <2> DEFINE q == [[job[j] EXCEPT !.todo = @ \cup {job[j].session}] EXCEPT !.pc = "create"]
  <2>1. job[j].op \notin Closing
    BY <1>1, <1>6 DEF RereadLink, Kept, Opening
  <2>2. q.op \notin Closing /\ q.pc = "create"
    BY <1>1, <2>1 DEF JobSet
  <2>3. Kept(q, status')
    BY <2>2 DEF Kept, Done
  <2>4. Kept(Over(job[j], "ok"), status')
    BY <1>1, <2>1, OverKept
  <2> QED
    BY <1>2, <1>6, <2>3, <2>4, BecomeKept DEF RereadLink, Finish
<1>7. ASSUME NEW p \in Panes, NEW m \in Modes, StartAdd(j, p, m)
      PROVE  JobsKept'
  <2>1. Kept([Idle EXCEPT !.op = "add", !.pc = "create",
                          !.pane = p, !.modes = {m}], status')
    BY DEF Kept, Done, Idle, Closing, Opening
  <2> QED
    BY <1>7, <2>1, BecomeKept DEF StartAdd
<1> QED
  BY <1>3, <1>4, <1>5, <1>6, <1>7 DEF Create

\* A step of an ending request keeps the word of every request: it leaves a
\* session behind only when Tether said it is over.
LEMMA EndKept ==
  ASSUME TypeOK, JobsKept, LinksBorn, Lasting, NEW j \in Jobs, End(j)
  PROVE  JobsKept'
<1>1. job[j] \in JobSet /\ Kept(job[j], status)
  BY DEF TypeOK, JobsKept
<1>2. job[j].pc \in Naming => job[j].session \in Sessions
  BY DEF TypeOK
<1>3. Done(job[j], status')
  BY <1>1, DoneStays DEF Kept
<1>4. ASSUME NEW s \in Sessions, status[s] # "unborn", StartEnd(j, s) \/ StartClose(j, s)
      PROVE  JobsKept'
  <2>3. status'[s] # "unborn"
    BY <1>4 DEF Lasting
  <2>1. /\ Kept([Idle EXCEPT !.op = "end", !.pc = "read",
                             !.todo = {s}, !.asked = {s}], status')
        /\ Kept([Idle EXCEPT !.op = "close", !.pc = "read", !.pane = link[s],
                             !.mode = IF link[s] = NoPane THEN "shell" ELSE mode[s],
                             !.todo = {s}, !.asked = {s}], status')
    BY <2>3 DEF Kept, Done, Idle, Opening
  <2> QED
    BY <1>4, <2>1, BecomeKept DEF StartEnd, StartClose
<1>5. ASSUME NEW p \in Panes, StartEndPane(j, p)
      PROVE  JobsKept'
  <2> DEFINE all == Shown(p)
             next == IF all = {} THEN "delete" ELSE "read"
             q == [Idle EXCEPT !.op = "pane", !.pane = p, !.pc = next,
                               !.todo = all, !.asked = all]
  <2>1. q.op = "pane" /\ q.pc = next /\ q.todo = all /\ q.asked = all
    BY DEF Idle
  <2>3. \A s \in all : status'[s] # "unborn"
    BY <1>5, NoneAssumption DEF Shown, Linked, LinksBorn, Runs, Lasting
  <2>4. next \in {"delete", "read"} /\ (next = "delete" => all = {})
    OBVIOUS
  <2>5. Become(j, q)
    BY <1>5 DEF StartEndPane
  <2> HIDE DEF q, all, next
  <2>2. Kept(q, status')
    BY <2>1, <2>3, <2>4 DEF Kept, Done, Opening
  <2> QED
    BY <2>5, <2>2, BecomeKept
<1>6. ASSUME NEW s \in Sessions, ReadSession(j, s)
      PROVE  JobsKept'
  <2> DEFINE r == [job[j] EXCEPT !.session = s]
             alive == [r EXCEPT !.pc = "end", !.gen = gen[s]]
  <2>1. /\ r \in JobSet /\ r.session = s /\ r.op = job[j].op /\ r.asked = job[j].asked
        /\ r.todo = job[j].todo /\ r.missed = job[j].missed
    BY <1>1 DEF JobSet
  <2>2. UNCHANGED status
    BY <1>6 DEF ReadSession, tether
  <2>3. Done(r, status) /\ Done(r, status')
    BY <1>1, <1>3, <2>1 DEF Kept, Done, Past
  <2>4. r.op \in Closing => s \in r.asked
    BY <1>6, <2>1, <2>3 DEF ReadSession, Done
  <2>5. /\ alive.pc = "end" /\ alive.session = s /\ alive.op = r.op /\ alive.asked = r.asked
        /\ alive.todo = r.todo /\ alive.missed = r.missed
    BY <1>1 DEF JobSet
  <2>6. \/ Become(j, alive)
        \/ NotFound(s) /\ Become(j, Gone(r))
        \/ Become(j, EndRaised(r))
    BY <1>6 DEF ReadSession
  <2> HIDE DEF r, alive
  <2>7. Kept(EndRaised(r), status')
    BY <2>1, <2>3, EndRaisedKept
  <2>8. Done(alive, status')
    BY <2>3, <2>5 DEF Done, Past
  <2>9. Kept(alive, status')
    BY <2>4, <2>5, <2>8 DEF Kept, Opening
  <2>10. NotFound(s) => Kept(Gone(r), status')
    BY <2>1, <2>2, <2>3, <2>4, GoneKept
  <2> QED
    BY <2>6, <2>7, <2>9, <2>10, BecomeKept
<1>7. CASE EndSession(j)
  <2> DEFINE dead == [job[j] EXCEPT !.pc = "unlink"]
             Fits == Answers(job[j].session) /\ gen[job[j].session] = job[j].gen
  <2>1. Kept(EndRaised(job[j]), status')
    BY <1>1, <1>3, EndRaisedKept
  <2>7. job[j].op \in Closing => job[j].session \in job[j].asked
    BY <1>1, <1>7 DEF EndSession, Kept
  <2>2. ASSUME status'[job[j].session] = "ended" PROVE Kept(dead, status')
    <3>1. /\ dead.pc = "unlink" /\ dead.session = job[j].session /\ dead.op = job[j].op
          /\ dead.asked = job[j].asked /\ dead.todo = job[j].todo
          /\ dead.missed = job[j].missed
      BY <1>1 DEF JobSet
    <3> HIDE DEF dead
    <3>2. Done(dead, status')
      BY <1>3, <3>1 DEF Done, Past
    <3> QED
      BY <2>2, <2>7, <3>1, <3>2 DEF Kept, Opening, Past
  <2>3. job[j].session \in Sessions
    BY <1>2, <1>7 DEF EndSession, Naming
  <2>4. \/ Become(j, dead) /\ status' = [status EXCEPT ![job[j].session] = "ended"]
        \/ Become(j, Gone(job[j])) /\ NotFound(job[j].session) /\ UNCHANGED status
        \/ Become(j, EndRaised(job[j]))
    BY <1>7 DEF EndSession, tether
  <2>5. CASE Become(j, dead) /\ status' = [status EXCEPT ![job[j].session] = "ended"]
    <3>1. status'[job[j].session] = "ended"
      BY <2>3, <2>5 DEF TypeOK
    <3> QED
      BY <2>2, <2>5, <3>1, BecomeKept
  <2>6. CASE Become(j, Gone(job[j])) /\ NotFound(job[j].session) /\ UNCHANGED status
    <3>1. Kept(Gone(job[j]), status')
      BY <1>1, <2>3, <2>6, <2>7, GoneKept DEF Kept
    <3> QED
      BY <2>6, <3>1, BecomeKept
  <2> QED
    BY <2>1, <2>4, <2>5, <2>6, BecomeKept
<1>8. CASE Unlink(j)
  <2>1. job[j].op \in Closing => Past(job[j], job[j].session, status')
    BY <1>1, <1>2, <1>8 DEF Unlink, Kept, Naming, Past, Lasting
  <2>2. Kept(Ended(job[j]), status')
    BY <1>1, <1>3, <2>1, EndedKept
  <2> QED
    BY <1>8, <2>2, BecomeKept DEF Unlink
<1>9. CASE DeletePane(j)
  <2>1. job[j].op \in Closing => \A s \in job[j].asked : Past(job[j], s, status')
    BY <1>1, <1>3, <1>9 DEF DeletePane, Kept, Done
  <2>2. /\ Kept(Over(job[j], "ok"), status')
        /\ Kept(Over(job[j], "failed"), status')
    BY <1>1, <2>1, OverKept
  <2> QED
    BY <1>9, <2>2, BecomeKept DEF DeletePane, Finish
<1>10. CASE CloseRemaining(j)
  <2> DEFINE left == Shown(job[j].pane)
             next == IF left = {} THEN "delete" ELSE "read"
             q == [job[j] EXCEPT !.op = "companions", !.todo = left,
                                 !.asked = @ \cup left, !.pc = next]
  <2>1. job[j].todo = {}
    BY <1>1, <1>10 DEF CloseRemaining, Kept
  <2>2. job[j].op \in Closing => \A s \in job[j].asked : Past(job[j], s, status')
    BY <1>3, <2>1 DEF Done
  <2>3. Kept(Over(job[j], "ok"), status')
    BY <1>1, <2>2, OverKept
  <2>4. /\ q.op = "companions" /\ q.pc = next /\ q.todo = left
        /\ q.asked = job[j].asked \cup left /\ q.missed = job[j].missed
    BY <1>1 DEF JobSet
  <2>5. job[j].op \in Closing
    BY <1>1, <1>10 DEF CloseRemaining, Kept, Closing
  <2>6. \/ Become(j, q) /\ Exists(job[j].pane)
        \/ Become(j, Over(job[j], "ok"))
    BY <1>10 DEF CloseRemaining, Finish
  <2>7. next \in {"delete", "read"} /\ (next = "delete" => left = {})
    OBVIOUS
  <2>8. Exists(job[j].pane) => \A s \in left : status'[s] # "unborn"
    BY NoneAssumption DEF Shown, Linked, LinksBorn, Runs, Lasting, Exists
  <2> HIDE DEF q, next, left
  <2>9. ASSUME Exists(job[j].pane) PROVE Kept(q, status')
    <3>1. Done(q, status')
      BY <1>3, <2>2, <2>4, <2>5, <2>8, <2>9 DEF Done, Past
    <3> QED
      BY <2>4, <2>7, <3>1 DEF Kept, Opening
  <2> QED
    BY <2>3, <2>6, <2>9, BecomeKept
<1> QED
  BY <1>4, <1>5, <1>6, <1>7, <1>8, <1>9, <1>10 DEF End

\* A step of showing a session keeps the word of every request.
LEMMA ViewKept ==
  ASSUME TypeOK, JobsKept, Lasting, NEW j \in Jobs, View(j)
  PROVE  JobsKept'
<1>1. job[j] \in JobSet /\ Kept(job[j], status)
  BY DEF TypeOK, JobsKept
<1>2. ASSUME NEW s \in Sessions, NEW op \in {"view", "reuse"}, StartView(j, s, op)
      PROVE  JobsKept'
  <2>1. /\ Kept([Idle EXCEPT !.op = op, !.session = s, !.mode = tool[s],
                             !.pc = "newpane"], status')
        /\ Kept([Idle EXCEPT !.op = op, !.session = s, !.pc = "find"], status')
    BY DEF Kept, Done, Idle, Closing, Opening
  <2> QED
    BY <1>2, <2>1, BecomeKept DEF StartView
<1>3. ASSUME NEW p \in Panes, StartShow(j, p)
      PROVE  JobsKept'
  <2>1. Kept([Idle EXCEPT !.op = "show", !.pc = "attach", !.pane = p], status')
    BY DEF Kept, Done, Idle, Closing, Opening
  <2> QED
    BY <1>3, <2>1, BecomeKept DEF StartShow
<1>4. CASE NewPane(j) \/ LinkView(j) \/ FindPane(j) \/ AttachPane(j)
  <2>1. job[j].op \notin Closing
    BY <1>1, <1>4 DEF NewPane, LinkView, FindPane, AttachPane, Kept, Opening
  <2>2. /\ Kept(Over(job[j], "ok"), status')
        /\ Kept(Over(job[j], "failed"), status')
    BY <1>1, <2>1, OverKept
  <2>3. ASSUME NEW p, NEW pc \in {"link", "find", "attach"}
        PROVE  /\ Kept([job[j] EXCEPT !.pc = pc], status')
               /\ Kept([job[j] EXCEPT !.pc = pc, !.pane = p], status')
    BY <1>1, <2>1 DEF JobSet, Kept, Done
  <2>4. CASE NewPane(j)
    BY <2>3, <2>4, BecomeKept DEF NewPane
  <2>5. CASE LinkView(j)
    BY <2>2, <2>3, <2>5, BecomeKept DEF LinkView, Goto, Finish
  <2>6. CASE FindPane(j)
    BY <2>2, <2>3, <2>6, BecomeKept DEF FindPane, Finish
  <2>7. CASE AttachPane(j)
    BY <2>2, <2>7, BecomeKept DEF AttachPane, Finish
  <2> QED
    BY <1>4, <2>4, <2>5, <2>6, <2>7
<1> QED
  BY <1>2, <1>3, <1>4 DEF View

\* A step of loading another tool keeps the word of every request.
LEMMA LoadKept ==
  ASSUME TypeOK, JobsKept, Lasting, NEW j \in Jobs, Load(j)
  PROVE  JobsKept'
<1>1. job[j] \in JobSet /\ Kept(job[j], status)
  BY DEF TypeOK, JobsKept
<1>2. ASSUME NEW s \in Sessions, StartLoad(j, s) PROVE JobsKept'
  <2>1. Kept([Idle EXCEPT !.op = "load", !.pc = "load", !.session = s], status')
    BY DEF Kept, Done, Idle, Closing, Opening
  <2> QED
    BY <1>2, <2>1, BecomeKept DEF StartLoad
<1>3. ASSUME NEW t \in Modes, LoadTool(j, t) \/ RememberTool(j) PROVE JobsKept'
  <2> DEFINE q == [job[j] EXCEPT !.pc = "remember", !.mode = t]
  <2>1. job[j].op \notin Closing
    BY <1>1, <1>3 DEF LoadTool, RememberTool, Kept, Opening
  <2>2. /\ Kept(Over(job[j], "ok"), status')
        /\ Kept(Over(job[j], "failed"), status')
    BY <1>1, <2>1, OverKept
  <2>3. q.op \notin Closing /\ q.pc = "remember"
    BY <1>1, <2>1 DEF JobSet
  <2>4. Kept(q, status')
    BY <2>3 DEF Kept, Done
  <2> QED
    BY <1>3, <2>2, <2>4, BecomeKept DEF LoadTool, RememberTool, Finish
<1> QED
  BY <1>2, <1>3 DEF Load, Modes

\* Every step keeps the word of every request.
LEMMA NextKept == TypeOK /\ JobsKept /\ LinksBorn /\ [Next]_vars => JobsKept'
<1> SUFFICES ASSUME TypeOK, JobsKept, LinksBorn, [Next]_vars PROVE JobsKept'
  OBVIOUS
<1>1. Lasting
  BY NextLasting
<1>2. ASSUME NEW j \in Jobs, Create(j) \/ End(j) \/ View(j) \/ Load(j) PROVE JobsKept'
  BY <1>1, <1>2, CreateKept, EndKept, ViewKept, LoadKept
<1>3. CASE Restart
  <2>1. \A i \in Jobs : job'[i] = Idle
    BY <1>3 DEF Restart
  <2>2. Kept(Idle, status')
    BY DEF Kept, Done, Idle, Closing, Opening
  <2> QED
    BY <2>1, <2>2 DEF JobsKept
<1>4. CASE Sweep
  BY <1>1, <1>4, JobsUnchanged
     DEF Sweep, SweepReads, SweepLists, SweepDrops, SweepPrunes
<1>5. ASSUME NEW s \in Sessions, Outside(s)
      PROVE  JobsKept'
  BY <1>1, <1>5, JobsUnchanged
     DEF Outside, WatcherDrops, SessionEnds, BornOutside, Respawn, WatcherTells
<1>6. ASSUME NEW p \in Panes, DetachPane(p) PROVE JobsKept'
  BY <1>1, <1>6, JobsUnchanged DEF DetachPane
<1>7. CASE UNCHANGED vars \/ OtherGoes \/ OtherReturns \/ AppLists
  BY <1>1, <1>7, JobsUnchanged DEF vars, OtherGoes, OtherReturns, AppLists
<1> QED
  BY <1>2, <1>3, <1>4, <1>5, <1>6, <1>7 DEF Next

\* A request answers that it ended sessions only when they are over, however
\* many requests race and whatever respawns or ends sessions meanwhile, but for
\* the sessions of an instance that is gone and never answered this process.
THEOREM EndedWhenSaid == Spec => []EndMeansEnded
<1>1. Init => TypeOK /\ JobsKept
  <2>1. Kept(Idle, [s \in Sessions |-> "unborn"])
    BY DEF Kept, Done, Idle, Closing, Opening
  <2> QED
    BY <2>1, InitTypeOK DEF Init, JobsKept
<1>2. (TypeOK /\ JobsKept) /\ (JobsFit /\ LinksBorn /\ NewsTrue) /\ [Next]_vars
        => (TypeOK /\ JobsKept)'
  BY NextTypeOK, NextKept
<1>3. JobsKept => EndMeansEnded
  BY DEF JobsKept, Kept, Past, EndMeansEnded
<1> QED
  BY <1>1, <1>2, <1>3, AllFit, PTL DEF Spec

-------------------------------------------------------------------------------
(***************************************************************************)
(* A pass of reconcile_links spares the sessions it saw live.              *)
(***************************************************************************)

\* What a pass has in hand: the sessions live when it read Tether are those it
\* counts as live, but for those it could not see, and once it has listed the
\* links none but these is to go.
SweepHonest ==
  /\ sweep.pc = "list" => sweep.was \subseteq sweep.alive \cup sweep.hidden
  /\ sweep.pc = "drop" => sweep.was \subseteq sweep.hidden

\* A live session that does not answer, while nothing known is away, is hidden.
LEMMA UnseenIsHidden ==
  ASSUME TypeOK, ~Away, NEW s \in Live
  PROVE  Answers(s) \/ Hidden(s)
BY DEF TypeOK, Away, Live, Answers, Hidden

\* Every step of a pass keeps it honest, and nothing else touches it.
LEMMA NextHonest == TypeOK /\ SweepHonest /\ [Next]_vars => SweepHonest'
<1> SUFFICES ASSUME TypeOK, SweepHonest, [Next]_vars PROVE SweepHonest'
  OBVIOUS
<1>1. CASE UNCHANGED sweep
  BY <1>1 DEF SweepHonest
<1>2. CASE SweepReads
  <2> DEFINE there == {s \in Sessions : Answers(s)}
             unseen == {s \in Sessions : Hidden(s)}
  <2>1. PICK ids \in LiveIds :
          sweep' = [NoSweep EXCEPT !.pc = "list", !.alive = ids, !.was = Live,
                                   !.hidden = unseen]
    BY <1>2 DEF SweepReads
  <2>2. ~Away /\ ids = there
    BY <2>1 DEF LiveIds
  <2>3. Live \subseteq there \cup unseen
    BY <2>2, UnseenIsHidden DEF Live
  <2>4. sweep'.pc = "list" /\ sweep'.was = Live /\ sweep'.alive = ids /\ sweep'.hidden = unseen
    BY <2>1 DEF NoSweep
  <2> HIDE DEF there, unseen
  <2> QED
    BY <2>2, <2>3, <2>4 DEF SweepHonest
<1>3. CASE SweepLists
  BY <1>3 DEF SweepLists, SweepHonest
<1>4. ASSUME NEW s \in Sessions, SweepDrops(s) PROVE SweepHonest'
  BY <1>4 DEF SweepDrops, SweepHonest, TypeOK, SweepSet
<1>5. CASE SweepPrunes \/ Restart
  BY <1>5 DEF SweepPrunes, Restart, NoSweep, SweepHonest
<1>6. ASSUME NEW j \in Jobs, Create(j) \/ End(j) \/ View(j) \/ Load(j) PROVE UNCHANGED sweep
  BY <1>6 DEF Create, StartCreate, StartAdd, CreateSession, InsertLink, RereadLink,
              End, StartEnd, StartEndPane, StartClose, ReadSession, EndSession, Unlink,
              DeletePane, CloseRemaining,
              View, StartView, StartShow, NewPane, LinkView, FindPane, AttachPane,
              Load, StartLoad, LoadTool, RememberTool
<1>7. ASSUME NEW s \in Sessions, Outside(s)
      PROVE  UNCHANGED sweep
  BY <1>7 DEF Outside, WatcherDrops, SessionEnds, BornOutside, Respawn, WatcherTells
<1>8. ASSUME OtherGoes \/ OtherReturns \/ AppLists \/ \E p \in Panes : DetachPane(p)
      PROVE  UNCHANGED sweep
  BY <1>8 DEF DetachPane, OtherGoes, OtherReturns, AppLists
<1> QED
  BY <1>1, <1>2, <1>3, <1>4, <1>5, <1>6, <1>7, <1>8 DEF Next, Sweep, vars

\* No pass of reconcile_links drops the link of a session that was live when it
\* read Tether, unless the session ended since, or belongs to an instance that was
\* gone and had not answered this process.
THEOREM LiveLinksSpared == Spec => SweepSparesLive
<1> DEFINE Spares == \A s \in Linked :
             sweep.pc = "drop" /\ sweep'.todo # sweep.todo /\ link'[s] = NoPane
               => status[s] = "ended" \/ s \notin sweep.was \/ s \in sweep.hidden
<1>1. Init => TypeOK /\ SweepHonest
  BY InitTypeOK DEF Init, NoSweep, SweepHonest
<1>2. TypeOK /\ SweepHonest /\ [Next]_vars => (TypeOK /\ SweepHonest)'
  BY NextTypeOK, NextHonest
<1>3. TypeOK /\ SweepHonest /\ [Next]_vars => [Spares]_vars
  BY DEF SweepHonest
<1> QED
  BY <1>1, <1>2, <1>3, PTL DEF Spec, SweepSparesLive
===============================================================================
