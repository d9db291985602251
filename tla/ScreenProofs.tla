------------------------------- MODULE ScreenProofs -------------------------------
(***************************************************************************)
(* What the browser shows and keeps while it talks to the server: uploads, *)
(* attention, the pane caches, the write queue, size claims and the drafts *)
(* of the compose field.  Each part has an inductive invariant of its own  *)
(* and a lemma that lifts it to the browser, where the other parts leave   *)
(* its variables alone.  At the end, the types of all of the browser.      *)
(***************************************************************************)
EXTENDS WindowProofs, ViewSocketProofs

-------------------------------------------------------------------------------
(***************************************************************************)
(* Uploads: a path is pasted into the pane its file was given to.          *)
(***************************************************************************)

\* What is known of one upload.
Upload == [at : {"under way", "over"}, active : Sessions, meant : Sessions \cup {0},
           misled : BOOLEAN, target : Sessions \cup {0}, pasted : Sessions \cup {0}]

\* The dialog, open or not.
FileDialog == [isOpen : BOOLEAN, pane : Sessions \cup {0}, cleared : BOOLEAN]

\* An upload that nothing misled goes where it was meant for: its target is that pane,
\* or it has none and that pane was active.
Aimed(u) ==
  \/ u.misled
  \/ /\ u.pasted \in {0, u.meant}
     /\ u.target # 0 => u.target = u.meant
     /\ u.target = 0 => u.active = u.meant

\* The inductive invariant: the ref names the pane of an open dialog until the end of
\* an upload clears it.
UploadInv ==
  /\ chosen \in Sessions /\ handles \subseteq Sessions
  /\ target \in Sessions \cup {0}
  /\ dialog \in FileDialog
  /\ dialog.isOpen /\ ~dialog.cleared => target = dialog.pane
  /\ uploads \in Seq(Upload)
  /\ \A n \in 1..Len(uploads) : Aimed(uploads[n])

\* A file is taken for the pane it was given to, or refused.
LEMMA SelectStep ==
  ASSUME UploadInv, NEW given \in Sessions \cup {0}, NEW meant \in Sessions \cup {0},
         NEW misled \in BOOLEAN, UP!Select(given, meant, misled),
         ~misled => \/ given # 0 /\ given = meant
                    \/ given = 0 /\ (target # 0 => target = meant)
                                 /\ (target = 0 => chosen = meant)
  PROVE  /\ uploads' \in Seq(Upload)
         /\ \A n \in 1..Len(uploads') : Aimed(uploads'[n])
         /\ target' \in {target, 0}
<1> DEFINE aim == IF given # 0 THEN given ELSE target
           u == [at |-> "under way", active |-> chosen, meant |-> meant, misled |-> misled,
                 pasted |-> 0, target |-> aim]
<1>1. u \in Upload /\ Aimed(u)
  BY DEF UploadInv, Upload, Aimed
<1>2. \/ uploads' = Append(uploads, u) /\ target' = target
      \/ uploads' = uploads /\ target' = 0
  BY DEF UP!Select
<1> HIDE DEF u
<1>3. CASE uploads' = uploads /\ target' = 0
  BY <1>3 DEF UploadInv
<1>4. CASE uploads' = Append(uploads, u) /\ target' = target
  <2>1. /\ uploads' \in Seq(Upload) /\ Len(uploads') = Len(uploads) + 1
        /\ \A n \in 1..Len(uploads) : uploads'[n] = uploads[n]
        /\ uploads'[Len(uploads) + 1] = u
    BY <1>1, <1>4 DEF UploadInv
  <2>2. Len(uploads) \in Nat /\ \A n \in 1..Len(uploads) : Aimed(uploads[n])
    BY DEF UploadInv
  <2> QED BY <1>1, <1>4, <2>1, <2>2
<1> QED BY <1>2, <1>3, <1>4

\* The end of an upload: its path goes to its pane, to the pane that was active if it
\* has none, or nowhere; a pane that is gone misleads it.
LEMMA EndsStep ==
  ASSUME UploadInv, NEW n \in DOMAIN uploads, UP!Ends(n)
  PROVE  UploadInv'
<1> DEFINE u == uploads[n]
           paneGone == UP!PaneIsGone(u)
<1>0. n \in 1..Len(uploads) /\ u \in Upload /\ Aimed(u)
  BY DEF UploadInv
<1>1. PICK into \in UP!PastesInto(u) \cup {0} :
        uploads' = [uploads EXCEPT ![n].at = "over", ![n].pasted = into,
                                   ![n].misled = @ \/ UP!PaneIsGone(uploads[n])]
  BY DEF UP!Ends
<1>2. into \in Sessions \cup {0}
  BY <1>0 DEF UP!PastesInto, UP!ActiveRef, UploadInv, Upload
<1>3. ~u.misled /\ ~paneGone => into \in {0, u.meant}
  BY <1>0 DEF UP!PastesInto, UP!ActiveRef, UP!PaneIsGone, Aimed
<1> DEFINE x == [u EXCEPT !.at = "over", !.pasted = into, !.misled = @ \/ paneGone]
<1>4. uploads' = [uploads EXCEPT ![n] = x]
  BY <1>0, <1>1
<1>5. paneGone \in BOOLEAN
  BY DEF UP!PaneIsGone
<1> HIDE DEF paneGone
<1>6. /\ x \in Upload /\ x.pasted = into /\ (x.misled <=> u.misled \/ paneGone)
      /\ x.target = u.target /\ x.active = u.active /\ x.meant = u.meant
  BY <1>0, <1>2, <1>5 DEF Upload
<1> HIDE DEF x
<1>7. Aimed(x)
  BY <1>0, <1>3, <1>6 DEF Aimed
<1>8. uploads' \in Seq(Upload) /\ Len(uploads') = Len(uploads)
      /\ \A m \in 1..Len(uploads) : uploads'[m] = IF m = n THEN x ELSE uploads[m]
  BY <1>0, <1>4, <1>6 DEF UploadInv
<1>9. \A m \in 1..Len(uploads') : Aimed(uploads'[m])
  BY <1>7, <1>8 DEF UploadInv
<1>10. /\ target' = 0 /\ UNCHANGED <<chosen, handles>>
       /\ dialog' = [dialog EXCEPT !.cleared = dialog.isOpen]
  BY DEF UP!Ends
<1>11. dialog' \in FileDialog /\ (dialog'.isOpen => dialog'.cleared)
  BY <1>10 DEF UploadInv, FileDialog
<1> QED BY <1>8, <1>9, <1>10, <1>11 DEF UploadInv

\* Every step keeps the invariant.
LEMMA UploadStep == UploadInv /\ [UP!Next]_(UP!vars) => UploadInv'
<1> SUFFICES ASSUME UploadInv, [UP!Next]_(UP!vars) PROVE UploadInv'
  OBVIOUS
<1>0. 0 \notin Sessions /\ UP!Closed \in FileDialog /\ ~UP!Closed.isOpen
  BY SessionsNumbered DEF UP!Closed, UP!Dialog, FileDialog
<1>1. CASE UNCHANGED UP!vars
  BY <1>1 DEF UP!vars, UploadInv
<1>2. ASSUME NEW s \in Sessions \cup {0}, UP!UploadClick(s) PROVE UploadInv'
  <2>1. dialog' \in FileDialog /\ dialog'.pane = s /\ target' = s
    BY <1>2 DEF UP!UploadClick, UP!Dialog, FileDialog
  <2> QED BY <1>2, <2>1 DEF UP!UploadClick, UploadInv
<1>3. ASSUME NEW s \in Sessions, UP!PasteFile(s) PROVE UploadInv'
  <2>1. UP!Select(s, s, FALSE) /\ UNCHANGED <<chosen, handles, dialog>> /\ dialog = UP!Closed
    BY <1>3 DEF UP!PasteFile
  <2>2. /\ uploads' \in Seq(Upload) /\ \A n \in 1..Len(uploads') : Aimed(uploads'[n])
        /\ target' \in {target, 0}
    BY <1>0, <2>1, SelectStep
  <2> QED BY <1>0, <2>1, <2>2 DEF UploadInv
<1>4. ASSUME NEW s \in Sessions, UP!Activate(s) \/ UP!MountOrUnmount(s) PROVE UploadInv'
  BY <1>4 DEF UP!Activate, UP!MountOrUnmount, UploadInv
<1>5. CASE UP!Choose
  <2> DEFINE misled == dialog.cleared \/ dialog.pane = 0
  <2>1. UP!Select(0, dialog.pane, misled) /\ UNCHANGED <<chosen, handles>>
        /\ dialog' = UP!Closed /\ dialog.isOpen
    BY <1>5 DEF UP!Choose
  <2>2. dialog.pane \in Sessions \cup {0} /\ misled \in BOOLEAN
        /\ (~misled => target = dialog.pane /\ target # 0)
    BY <2>1 DEF UploadInv, FileDialog
  <2> HIDE DEF misled
  <2>3. /\ uploads' \in Seq(Upload) /\ \A n \in 1..Len(uploads') : Aimed(uploads'[n])
        /\ target' \in {target, 0}
    BY <1>0, <2>1, <2>2, SelectStep
  <2> QED BY <1>0, <2>1, <2>3 DEF UploadInv
<1>6. CASE UP!CancelDialog
  BY <1>0, <1>6 DEF UP!CancelDialog, UploadInv
<1>7. CASE UP!DropFile
  <2>1. UP!Select(0, chosen, target # 0) /\ UNCHANGED <<chosen, handles, dialog>>
        /\ dialog = UP!Closed
    BY <1>7 DEF UP!DropFile
  <2>2. /\ uploads' \in Seq(Upload) /\ \A n \in 1..Len(uploads') : Aimed(uploads'[n])
        /\ target' \in {target, 0}
    BY <2>1, SelectStep DEF UploadInv
  <2> QED BY <1>0, <2>1, <2>2 DEF UploadInv
<1> QED BY <1>1, <1>2, <1>3, <1>4, <1>5, <1>6, <1>7, EndsStep DEF UP!Next

\* A step of the browser is one of the uploads' or leaves them.
LEMMA UploadLift ==
  /\ BrowserInit => UploadInv
  /\ [BrowserNext]_BrowserVars => [UP!Next]_(UP!vars)
<1>1. BrowserInit => UploadInv
  <2> SUFFICES ASSUME UP!Init PROVE UploadInv
    BY DEF BrowserInit
  <2>1. dialog \in FileDialog /\ ~dialog.isOpen
    BY DEF UP!Init, UP!Closed, UP!Dialog, FileDialog
  <2> QED BY <2>1 DEF UP!Init, UploadInv
<1>2. [BrowserNext]_BrowserVars => [UP!Next]_(UP!vars)
  BY DEF BrowserNext, BrowserVars, files, UP!vars
<1> QED BY <1>1, <1>2

\* Whatever becomes active, is mounted or is uploaded meanwhile, a path is pasted into
\* the pane its file was given to, or nowhere, but for the four cases that mislead it.
THEOREM PathsGoHome == BrowserSpec => []PathsGoWhereGiven
<1>1. UploadInv => PathsGoWhereGiven
  BY DEF UploadInv, Aimed, PathsGoWhereGiven, UP!PathsGoWhereGiven
<1> QED BY <1>1, UploadStep, UploadLift, PTL DEF BrowserSpec

-------------------------------------------------------------------------------
(***************************************************************************)
(* Attention: what waits for the owner is shown until the owner has had it *)
(* open, and no longer.                                                    *)
(***************************************************************************)

\* What is known of what an agent does.
Info == [activity : AT!Activities, previous : AT!Activities, at : Nat]

\* The types, with the times: nothing is later than now.
AttentionTypes ==
  /\ time \in Nat
  /\ agent \in [Sessions -> Info] /\ \A s \in Sessions : agent[s].at <= time
  /\ fetched \in [Windows -> [Sessions -> Info]]
  /\ \A w \in Windows, s \in Sessions : fetched[w][s].at <= time
  /\ opened \in [Windows -> Sessions \cup {0}] /\ seenWindows \subseteq Windows
  /\ watched \in [Sessions -> Nat] /\ \A s \in Sessions : watched[s] <= time
  /\ store \in [Sessions -> Nat] /\ copies \in [Windows -> [Sessions -> Nat]]
  /\ notice \subseteq Windows /\ lost \subseteq Sessions

\* No mark is later than what the owner saw.
MarksAreTrue ==
  /\ \A s \in Sessions : store[s] <= watched[s]
  /\ \A w \in Windows, s \in Sessions : copies[w][s] <= watched[s]

\* A window that has no storage event to come has the record as it is.
CopiesAreFresh == \A w \in Windows \ notice : copies[w] = store

\* A visible window has marked what it has open as late as its list says something
\* happened to it, or another window's write undid that.
OpenIsMarked ==
  \A v \in seenWindows :
    opened[v] # 0 /\ opened[v] \notin lost => fetched[v][opened[v]].at <= store[opened[v]]

\* The inductive invariant.
AttentionInv == AttentionTypes /\ MarksAreTrue /\ CopiesAreFresh /\ OpenIsMarked

\* What the owner sees now is watched now; what was watched stays so.
LEMMA Watched ==
  ASSUME AttentionTypes, AT!Watch, time' \in Nat, time <= time'
  PROVE  /\ watched' \in [Sessions -> Nat]
         /\ \A s \in Sessions : watched[s] <= watched'[s] /\ watched'[s] <= time'
         /\ \A w \in seenWindows' : opened'[w] \in Sessions => watched'[opened'[w]] = time'
BY DEF AT!Watch, AttentionTypes

\* A window marks what it has open, if it is visible, after it opened something, was
\* shown or hidden, or fetched the list.
LEMMA MarkStep ==
  ASSUME AttentionInv, NEW w \in Windows, AT!MarkSeen(w), AT!Watch,
         UNCHANGED <<time, agent>>,
         opened' \in [Windows -> Sessions \cup {0}], seenWindows' \subseteq Windows,
         fetched' \in [Windows -> [Sessions -> Info]],
         \A v \in Windows, s \in Sessions : fetched'[v][s].at <= time,
         \A v \in Windows \ {w} : /\ opened'[v] = opened[v] /\ fetched'[v] = fetched[v]
                                  /\ v \in seenWindows' => v \in seenWindows
  PROVE  AttentionInv'
<1>1. /\ watched' \in [Sessions -> Nat]
      /\ \A s \in Sessions : watched[s] <= watched'[s] /\ watched'[s] <= time
      /\ \A v \in seenWindows' : opened'[v] \in Sessions => watched'[opened'[v]] = time
  BY Watched DEF AttentionInv, AttentionTypes
<1>2. CASE ~AT!Marks(w)
  <2>1. UNCHANGED <<copies, store, notice, lost>>
    BY <1>2 DEF AT!MarkSeen
  <2>2. AttentionTypes'
    BY <1>1, <2>1 DEF AttentionInv, AttentionTypes
  <2>3. MarksAreTrue'
    BY <1>1, <2>1 DEF AttentionInv, AttentionTypes, MarksAreTrue
  <2>4. OpenIsMarked'
    <3> SUFFICES ASSUME NEW v \in seenWindows', opened'[v] # 0, opened'[v] \notin lost'
                 PROVE  fetched'[v][opened'[v]].at <= store'[opened'[v]]
      BY DEF OpenIsMarked
    <3>1. v # w
      BY <1>2 DEF AT!Marks
    <3> QED BY <2>1, <3>1 DEF AttentionInv, OpenIsMarked
  <2> QED BY <2>1, <2>2, <2>3, <2>4 DEF AttentionInv, CopiesAreFresh
<1>3. CASE AT!Marks(w)
  <2> DEFINE s == opened'[w]
             marked == [copies[w] EXCEPT ![s] = time]
             undone == {r \in Sessions : marked[r] < store[r]}
  <2>1. s \in Sessions /\ w \in seenWindows'
    BY <1>3 DEF AT!Marks
  <2>2. /\ copies' = [copies EXCEPT ![w] = marked] /\ store' = marked
        /\ notice' = notice \cup (Windows \ {w})
        /\ lost' = (lost \ {s}) \cup undone
    BY <1>3 DEF AT!MarkSeen
  <2>3. /\ marked \in [Sessions -> Nat] /\ marked[s] = time
        /\ \A r \in Sessions \ {s} : marked[r] = copies[w][r]
    BY <2>1 DEF AttentionInv, AttentionTypes
  <2> HIDE DEF marked
  <2>4. /\ copies' \in [Windows -> [Sessions -> Nat]] /\ copies'[w] = marked
        /\ \A v \in Windows \ {w} : copies'[v] = copies[v]
    BY <2>2, <2>3 DEF AttentionInv, AttentionTypes
  <2>5. \A r \in Sessions : marked[r] <= watched'[r]
    BY <1>1, <2>1, <2>3 DEF AttentionInv, AttentionTypes, MarksAreTrue
  <2>6. AttentionTypes'
    BY <1>1, <2>2, <2>3, <2>4 DEF AttentionInv, AttentionTypes
  <2>7. MarksAreTrue'
    <3>1. \A v \in Windows, r \in Sessions : copies[v][r] <= watched[r]
      BY DEF AttentionInv, MarksAreTrue
    <3>2. \A v \in Windows, r \in Sessions : copies'[v][r] <= watched'[r]
      <4> SUFFICES ASSUME NEW v \in Windows, NEW r \in Sessions
                   PROVE  copies'[v][r] <= watched'[r]
        OBVIOUS
      <4>1. CASE v = w
        BY <2>4, <2>5, <4>1
      <4>2. CASE v # w
        <5>1. copies'[v][r] = copies[v][r] /\ copies[v][r] \in Nat /\ watched[r] \in Nat
              /\ watched'[r] \in Nat
          BY <1>1, <2>4, <4>2 DEF AttentionInv, AttentionTypes
        <5> QED BY <1>1, <3>1, <5>1
      <4> QED BY <4>1, <4>2
    <3> QED BY <2>2, <2>5, <3>2 DEF MarksAreTrue
  <2>8. CopiesAreFresh'
    BY <2>2, <2>4 DEF CopiesAreFresh
  <2>9. OpenIsMarked'
    <3> SUFFICES ASSUME NEW v \in seenWindows', opened'[v] # 0, opened'[v] \notin lost'
                 PROVE  fetched'[v][opened'[v]].at <= store'[opened'[v]]
      BY DEF OpenIsMarked
    <3>1. v \in Windows /\ opened'[v] \in Sessions
      OBVIOUS
    <3>2. CASE opened'[v] = s
      BY <2>2, <2>3, <3>1, <3>2
    <3>3. CASE opened'[v] # s
      <4> DEFINE r == opened'[v]
      <4>1. r \notin lost /\ marked[r] >= store[r]
        <5>1. marked[r] \in Nat /\ store[r] \in Nat /\ r \notin undone
          BY <2>2, <2>3, <3>1 DEF AttentionInv, AttentionTypes
        <5> QED BY <2>2, <3>1, <3>3, <5>1
      <4>2. v \in seenWindows /\ opened[v] = r /\ fetched'[v] = fetched[v]
        BY <3>1, <3>3
      <4>3. fetched[v][r].at <= store[r]
        BY <4>1, <4>2 DEF AttentionInv, OpenIsMarked
      <4>4. fetched[v][r].at \in Nat /\ store[r] \in Nat /\ marked[r] \in Nat
        BY <2>3, <3>1 DEF AttentionInv, AttentionTypes, Info
      <4> QED BY <2>2, <4>1, <4>2, <4>3, <4>4
    <3> QED BY <3>2, <3>3
  <2> QED BY <2>6, <2>7, <2>8, <2>9 DEF AttentionInv
<1> QED BY <1>2, <1>3

\* Every step keeps the invariant.
LEMMA AttentionStep == AttentionInv /\ [AT!Next]_(AT!vars) => AttentionInv'
<1> SUFFICES ASSUME AttentionInv, [AT!Next]_(AT!vars) PROVE AttentionInv'
  OBVIOUS
<1>0. 0 \notin Sessions
  BY SessionsNumbered
<1>1. CASE UNCHANGED AT!vars
  BY <1>1 DEF AT!vars, AttentionInv, AttentionTypes, MarksAreTrue, CopiesAreFresh, OpenIsMarked
<1>2. ASSUME NEW w \in Windows, AT!Opens(w) \/ AT!Hides(w) \/ AT!Appears(w)
      PROVE  AttentionInv'
  <2>1. AT!MarkSeen(w) /\ AT!Watch /\ UNCHANGED <<time, agent, fetched>>
    BY <1>2 DEF AT!Opens, AT!Hides, AT!Appears
  <2>2. /\ opened' \in [Windows -> Sessions \cup {0}] /\ seenWindows' \subseteq Windows
        /\ \A v \in Windows \ {w} : /\ opened'[v] = opened[v]
                                    /\ v \in seenWindows' => v \in seenWindows
    BY <1>2 DEF AT!Opens, AT!Hides, AT!Appears, AttentionInv, AttentionTypes
  <2>3. fetched \in [Windows -> [Sessions -> Info]]
        /\ \A v \in Windows, s \in Sessions : fetched[v][s].at <= time
    BY DEF AttentionInv, AttentionTypes
  <2> QED BY <2>1, <2>2, <2>3, MarkStep
<1>3. ASSUME NEW w \in Windows, AT!Fetches(w) PROVE AttentionInv'
  <2>1. /\ fetched' = [fetched EXCEPT ![w] = agent] /\ AT!Watch
        /\ UNCHANGED <<time, agent, opened, seenWindows>>
    BY <1>3 DEF AT!Fetches
  <2>2. /\ fetched' \in [Windows -> [Sessions -> Info]]
        /\ fetched'[w] = agent /\ \A v \in Windows \ {w} : fetched'[v] = fetched[v]
    BY <2>1 DEF AttentionInv, AttentionTypes
  <2>3. \A v \in Windows, s \in Sessions : fetched'[v][s].at <= time
    BY <2>2 DEF AttentionInv, AttentionTypes
  <2>4. CASE AT!MarkSeen(w)
    <3>1. opened \in [Windows -> Sessions \cup {0}] /\ seenWindows \subseteq Windows
      BY DEF AttentionInv, AttentionTypes
    <3> QED BY <2>1, <2>2, <2>3, <2>4, <3>1, MarkStep
  <2>5. CASE /\ UNCHANGED <<copies, store, notice, lost>>
             /\ opened[w] # 0 => fetched[w][opened[w]].at = agent[opened[w]].at
    <3>1. /\ watched' \in [Sessions -> Nat]
          /\ \A s \in Sessions : watched[s] <= watched'[s] /\ watched'[s] <= time
      BY <2>1, Watched DEF AttentionInv, AttentionTypes
    <3>2. AttentionTypes'
      BY <2>1, <2>2, <2>3, <2>5, <3>1 DEF AttentionInv, AttentionTypes
    <3>3. MarksAreTrue'
      BY <2>5, <3>1 DEF AttentionInv, AttentionTypes, MarksAreTrue
    <3>4. OpenIsMarked'
      <4> SUFFICES ASSUME NEW v \in seenWindows, opened[v] # 0, opened[v] \notin lost
                   PROVE  fetched'[v][opened[v]].at <= store[opened[v]]
        BY <2>1, <2>5 DEF OpenIsMarked
      <4>1. fetched[v][opened[v]].at <= store[opened[v]] /\ v \in Windows
        BY DEF AttentionInv, OpenIsMarked, AttentionTypes
      <4>2. fetched'[v][opened[v]].at = fetched[v][opened[v]].at
        BY <2>2, <2>5, <4>1
      <4> QED BY <4>1, <4>2
    <3> QED BY <2>5, <3>2, <3>3, <3>4 DEF AttentionInv, CopiesAreFresh
  <2> QED BY <1>3, <2>4, <2>5 DEF AT!Fetches
<1>4. ASSUME NEW w \in Windows, AT!Storage(w) PROVE AttentionInv'
  <2>1. /\ copies' = [copies EXCEPT ![w] = store] /\ notice' = notice \ {w}
        /\ UNCHANGED <<time, agent, fetched, opened, seenWindows, store, watched, lost>>
    BY <1>4 DEF AT!Storage
  <2>2. /\ copies' \in [Windows -> [Sessions -> Nat]] /\ copies'[w] = store
        /\ \A v \in Windows \ {w} : copies'[v] = copies[v]
    BY <2>1 DEF AttentionInv, AttentionTypes
  <2>3. AttentionTypes'
    BY <2>1, <2>2 DEF AttentionInv, AttentionTypes
  <2>4. MarksAreTrue'
    BY <2>1, <2>2 DEF AttentionInv, MarksAreTrue
  <2>5. CopiesAreFresh'
    BY <2>1, <2>2 DEF AttentionInv, CopiesAreFresh
  <2> QED BY <2>1, <2>3, <2>4, <2>5 DEF AttentionInv, OpenIsMarked
<1>5. ASSUME NEW s \in Sessions, AT!AgentChanges(s) PROVE AttentionInv'
  <2>1. /\ time' = time + 1 /\ AT!Watch
        /\ UNCHANGED <<fetched, opened, seenWindows, store, copies, notice, lost>>
    BY <1>5 DEF AT!AgentChanges
  <2>2. PICK activity \in AT!Activities :
          agent' = [agent EXCEPT ![s] = [activity |-> activity, previous |-> @.activity,
                                         at |-> time']]
    BY <1>5 DEF AT!AgentChanges
  <2>3. /\ watched' \in [Sessions -> Nat]
        /\ \A r \in Sessions : watched[r] <= watched'[r] /\ watched'[r] <= time'
    BY <2>1, Watched DEF AttentionInv, AttentionTypes
  <2> DEFINE x == [activity |-> activity, previous |-> agent[s].activity, at |-> time + 1]
  <2>4. agent' = [agent EXCEPT ![s] = x] /\ x \in Info /\ x.at = time + 1
    BY <2>1, <2>2 DEF AttentionInv, AttentionTypes, Info
  <2> HIDE DEF x
  <2>5. agent' \in [Sessions -> Info] /\ \A r \in Sessions : agent'[r].at <= time + 1
    BY <2>4 DEF AttentionInv, AttentionTypes, Info
  <2>6. \A w \in Windows, r \in Sessions : fetched[w][r].at <= time + 1
    BY DEF AttentionInv, AttentionTypes, Info
  <2>7. AttentionTypes'
    BY <2>1, <2>3, <2>5, <2>6 DEF AttentionInv, AttentionTypes
  <2>8. MarksAreTrue'
    BY <2>1, <2>3 DEF AttentionInv, AttentionTypes, MarksAreTrue
  <2> QED BY <2>1, <2>7, <2>8 DEF AttentionInv, CopiesAreFresh, OpenIsMarked
<1> QED BY <1>1, <1>2, <1>3, <1>4, <1>5 DEF AT!Next

\* A step of the browser is one of the windows' or leaves them.
LEMMA AttentionLift ==
  /\ BrowserInit => AttentionInv
  /\ [BrowserNext]_BrowserVars => [AT!Next]_(AT!vars)
<1>1. BrowserInit => AttentionInv
  <2> SUFFICES ASSUME AT!Init PROVE AttentionInv
    BY DEF BrowserInit
  <2>1. AT!Quiet \in Info /\ AT!Quiet.at = 0
    BY DEF AT!Quiet, Info, AT!Activities
  <2>2. /\ time = 0 /\ agent = [s \in Sessions |-> AT!Quiet]
        /\ fetched = [w \in Windows |-> agent] /\ opened \in [Windows -> Sessions \cup {0}]
        /\ seenWindows = Windows /\ store = [s \in Sessions |-> 0]
        /\ copies = [w \in Windows |-> store] /\ notice = {} /\ watched = store /\ lost = {}
    BY DEF AT!Init
  <2>3. AttentionTypes
    BY <2>1, <2>2 DEF AttentionTypes
  <2>4. MarksAreTrue
    BY <2>2 DEF MarksAreTrue
  <2>5. CopiesAreFresh
    BY <2>2 DEF CopiesAreFresh
  <2>6. OpenIsMarked
    <3> SUFFICES ASSUME NEW v \in Windows, opened[v] # 0
                 PROVE  fetched[v][opened[v]].at <= store[opened[v]]
      BY <2>2 DEF OpenIsMarked
    <3>1. opened[v] \in Sessions
      BY <2>2
    <3> QED BY <2>1, <2>2, <3>1
  <2> QED BY <2>3, <2>4, <2>5, <2>6 DEF AttentionInv
<1>2. [BrowserNext]_BrowserVars => [AT!Next]_(AT!vars)
  BY DEF BrowserNext, BrowserVars, attention, AT!vars
<1> QED BY <1>1, <1>2

\* For any number of windows and sessions: no window hides that a session waits unless
\* the owner had it open since, and what the owner has open asks for nothing in a window
\* that is up to date, unless another window's write undid its mark.
THEOREM AttentionIsHonest == BrowserSpec => []AttentionUntilOpened
<1>1. AttentionInv => AttentionUntilOpened
  <2> SUFFICES ASSUME AttentionInv PROVE AT!NeedsAreShown /\ AT!OpenAsksNothing
    BY DEF AttentionUntilOpened, AT!AttentionUntilOpened
  <2>1. AT!NeedsAreShown
    BY DEF AttentionInv, MarksAreTrue, AT!NeedsAreShown
  <2>2. AT!OpenAsksNothing
    <3> SUFFICES ASSUME NEW w \in Windows, NEW v \in seenWindows, opened[v] # 0,
                        opened[v] \notin lost, notice = {}, fetched[w] = agent,
                        fetched[v] = agent
                 PROVE  AT!Shown(w, opened[v]) \notin {"needs-you", "finished"}
      BY DEF AT!OpenAsksNothing
    <3> DEFINE s == opened[v]
    <3>1. fetched[v][s].at <= store[s]
      BY DEF AttentionInv, OpenIsMarked
    <3>2. copies[w] = store
      BY DEF AttentionInv, CopiesAreFresh
    <3>3. s \in Sessions /\ fetched[v][s].at \in Nat /\ store[s] \in Nat
      BY DEF AttentionInv, AttentionTypes, Info
    <3>4. ~(fetched[w][s].at > copies[w][s])
      BY <3>1, <3>2, <3>3
    <3> HIDE DEF s
    <3> QED BY <3>4 DEF AT!Shown, AT!Group, s
  <2> QED BY <2>1, <2>2
<1> QED BY <1>1, AttentionStep, AttentionLift, PTL DEF BrowserSpec

-------------------------------------------------------------------------------
(***************************************************************************)
(* PaneCache: the lists settle.                                            *)
(***************************************************************************)

\* The lists, what a fetch of one may be, and the mutations.
Places == {"none", "visible", "detached"}
\* What the caches, their fetches and the mutations hold.
PaneList == [panes : SUBSET CachedPanes, swapped : BOOLEAN]
FetchOf(Lists) == {<<>>, PC!Asked} \cup {<<"answer", l>> : l \in Lists}
Placing == [at : {"sent", "answered"}, kind : {"place"}, pane : CachedPanes,
            to : Places \cup {"create", "same"}, ok : BOOLEAN]
Swapping == [at : {"sent", "answered"}, kind : {"swap"}, previous : PaneList, ok : BOOLEAN]

\* The parts of the state that mutations and fetches move.
CacheTypes ==
  /\ place \in [CachedPanes -> Places] /\ swapped \in BOOLEAN /\ excused \in BOOLEAN
  /\ active \in PaneList /\ detached \in SUBSET CachedPanes
  /\ fetch \in [{"active", "detached"} -> FetchOf(PaneList \cup SUBSET CachedPanes)]
  /\ fetch["active"] \in FetchOf(PaneList)
  /\ fetch["detached"] \in FetchOf(SUBSET CachedPanes)
  /\ request \in [Requests -> {PC!Idle} \cup Placing \cup Swapping]

\* The mutations whose answer, when it comes, has the list of the visible panes fetched
\* again, and that of the detached ones.
RenewsActive(req) ==
  \/ req \in Swapping
  \/ req \in Placing /\ req.at = "answered" /\ req.ok
\* A mutation that was answered and placed a pane.
RenewsDetached(req) == req \in Placing /\ req.at = "answered" /\ req.ok

\* A cached list is what the server has, or such an answer is on its way, or a fetch is asked for, or a
\* mutation will ask for one.
Settling(f, cached, now) ==
  \/ f = PC!Asked
  \/ f = <<"answer", now>>
  \/ f = <<>> /\ cached = now

\* The inductive invariant.
CacheInv ==
  /\ CacheTypes
  /\ \/ excused \/ \E r \in Requests : RenewsActive(request[r])
     \/ Settling(fetch["active"], active, PC!ServerActive)
  /\ \/ excused \/ \E r \in Requests : RenewsDetached(request[r])
     \/ Settling(fetch["detached"], detached, PC!At("detached"))

\* A fetch is asked for, answered or over.
LEMMA FetchSteps ==
  ASSUME CacheInv, NEW q \in {"active", "detached"},
         PC!Refetch(q) \/ PC!ServerLists(q) \/ PC!Fetched(q)
  PROVE  CacheInv'
<1>0. /\ UNCHANGED <<place, swapped, request, excused>>
      /\ PC!ServerActive' = PC!ServerActive /\ PC!At("detached")' = PC!At("detached")
  BY DEF PC!Refetch, PC!ServerLists, PC!Fetched, PC!ServerActive, PC!At
<1>1. PC!ServerActive \in PaneList /\ PC!At("detached") \in SUBSET CachedPanes
  BY DEF CacheInv, CacheTypes, PC!ServerActive, PC!At, PaneList
<1>2. CASE PC!Refetch(q)
  <2>1. /\ fetch' = [fetch EXCEPT ![q] = PC!Asked] /\ UNCHANGED <<active, detached>>
    BY <1>2 DEF PC!Refetch
  <2>2. CacheTypes'
    BY <1>0, <2>1 DEF CacheInv, CacheTypes, FetchOf
  <2> QED BY <1>0, <2>1, <2>2 DEF CacheInv, CacheTypes, Settling
<1>3. CASE PC!ServerLists(q)
  <2> DEFINE l == IF q = "active" THEN PC!ServerActive ELSE PC!At("detached")
  <2>1. fetch' = [fetch EXCEPT ![q] = <<"answer", l>>] /\ UNCHANGED <<active, detached>>
    BY <1>3 DEF PC!ServerLists
  <2>2. /\ fetch'[q] = <<"answer", l>>
        /\ \A p \in {"active", "detached"} \ {q} : fetch'[p] = fetch[p]
        /\ DOMAIN fetch' = DOMAIN fetch
    BY <2>1 DEF CacheInv, CacheTypes
  <2>3. CacheTypes'
    <3>1. l \in PaneList \cup SUBSET CachedPanes
          /\ (q = "active" => l \in PaneList) /\ (q = "detached" => l \in SUBSET CachedPanes)
      BY <1>1
    <3>2. <<"answer", l>> \in FetchOf(PaneList \cup SUBSET CachedPanes)
          /\ (q = "active" => <<"answer", l>> \in FetchOf(PaneList))
          /\ (q = "detached" => <<"answer", l>> \in FetchOf(SUBSET CachedPanes))
      BY <3>1 DEF FetchOf
    <3> HIDE DEF l
    <3> QED BY <1>0, <2>1, <2>2, <3>2 DEF CacheInv, CacheTypes
  <2>4. Settling(fetch'[q], IF q = "active" THEN active ELSE detached, l)
    BY <2>2 DEF Settling
  <2> QED BY <1>0, <2>1, <2>2, <2>3, <2>4 DEF CacheInv
<1>4. CASE PC!Fetched(q)
  <2>1. /\ fetch' = [fetch EXCEPT ![q] = <<>>] /\ fetch[q] # <<>> /\ fetch[q] # PC!Asked
        /\ q = "active" => active' = fetch[q][2] /\ UNCHANGED detached
        /\ q = "detached" => detached' = fetch[q][2] /\ UNCHANGED active
    BY <1>4 DEF PC!Fetched
  <2>2. /\ fetch'[q] = <<>>
        /\ \A p \in {"active", "detached"} \ {q} : fetch'[p] = fetch[p]
        /\ fetch' \in [{"active", "detached"} -> FetchOf(PaneList \cup SUBSET CachedPanes)]
    BY <2>1 DEF CacheInv, CacheTypes, FetchOf
  <2>3. /\ q = "active" => active' \in PaneList
        /\ q = "detached" => detached' \in SUBSET CachedPanes
    BY <2>1 DEF CacheInv, CacheTypes, FetchOf
  <2>4. <<>> \in FetchOf(PaneList) /\ <<>> \in FetchOf(SUBSET CachedPanes)
    BY DEF FetchOf
  <2>5. CacheTypes'
    BY <1>0, <2>1, <2>2, <2>3, <2>4 DEF CacheInv, CacheTypes
  <2>6. /\ q = "active" => \A now : Settling(fetch[q], active, now) => Settling(fetch'[q], active', now)
        /\ q = "detached" => \A now : Settling(fetch[q], detached, now) => Settling(fetch'[q], detached', now)
    BY <2>1, <2>2 DEF Settling
  <2> QED BY <1>0, <2>1, <2>2, <2>5, <2>6 DEF CacheInv
<1> QED BY <1>2, <1>3, <1>4

\* A mutation is called: one that is shown at once is among those that will have the
\* list fetched.
LEMMA CallSteps ==
  ASSUME CacheInv, NEW r \in Requests,
         \/ PC!Swap(r)
         \/ \E p \in CachedPanes, to \in Places \cup {"create", "same"} : PC!Mutate(r, p, to)
  PROVE  CacheInv'
<1>0. request[r] = PC!Idle /\ UNCHANGED <<place, swapped, detached, excused>>
  BY DEF PC!Swap, PC!Mutate, PC!Calls
<1>1. PC!ServerActive' = PC!ServerActive /\ PC!At("detached")' = PC!At("detached")
  BY <1>0 DEF PC!ServerActive, PC!At
<1>2. ~RenewsActive(request[r]) /\ ~RenewsDetached(request[r])
  BY <1>0 DEF RenewsActive, RenewsDetached, Placing, Swapping, PC!Idle
<1>3. CASE PC!Swap(r)
  <2> DEFINE x == [at |-> "sent", kind |-> "swap", previous |-> active, ok |-> FALSE]
  <2>1. /\ request' = [request EXCEPT ![r] = x]
        /\ active' = [active EXCEPT !.swapped = ~@]
        /\ fetch' = [fetch EXCEPT !["active"] = <<>>]
    BY <1>3 DEF PC!Swap, PC!Calls
  <2>2. x \in Swapping
    BY DEF CacheInv, CacheTypes, Swapping
  <2> HIDE DEF x
  <2>3. /\ request'[r] = x /\ request' \in [Requests -> {PC!Idle} \cup Placing \cup Swapping]
        /\ \A q \in Requests \ {r} : request'[q] = request[q]
    BY <2>1, <2>2 DEF CacheInv, CacheTypes
  <2>4. active' \in PaneList
    BY <2>1 DEF CacheInv, CacheTypes, PaneList
  <2>5. CacheTypes' /\ fetch'["detached"] = fetch["detached"]
    BY <1>0, <2>1, <2>3, <2>4 DEF CacheInv, CacheTypes, FetchOf
  <2>6. RenewsActive(request'[r])
    BY <2>2, <2>3 DEF RenewsActive
  <2> QED BY <1>0, <1>1, <1>2, <2>3, <2>5, <2>6 DEF CacheInv
<1>4. ASSUME NEW p \in CachedPanes, NEW to \in Places \cup {"create", "same"}, PC!Mutate(r, p, to)
      PROVE  CacheInv'
  <2> DEFINE x == [at |-> "sent", kind |-> "place", pane |-> p, to |-> to, ok |-> FALSE]
  <2>1. request' = [request EXCEPT ![r] = x] /\ UNCHANGED <<active, fetch>>
    BY <1>4 DEF PC!Mutate, PC!Calls
  <2>2. x \in Placing
    BY DEF Placing
  <2> HIDE DEF x
  <2>3. /\ request'[r] = x /\ request' \in [Requests -> {PC!Idle} \cup Placing \cup Swapping]
        /\ \A q \in Requests \ {r} : request'[q] = request[q]
    BY <2>1, <2>2 DEF CacheInv, CacheTypes
  <2>4. CacheTypes'
    BY <1>0, <2>1, <2>3 DEF CacheInv, CacheTypes
  <2> QED BY <1>0, <1>1, <1>2, <2>1, <2>3, <2>4 DEF CacheInv
<1> QED BY <1>3, <1>4

\* The server does what a mutation asks: what it changes, that mutation will have
\* fetched, unless its answer is lost.
LEMMA ActsStep ==
  ASSUME CacheInv, NEW r \in Requests, PC!ServerActs(r)
  PROVE  CacheInv'
<1> DEFINE req == request[r]
<1>0. /\ req \in Placing \cup Swapping /\ req.at = "sent" /\ UNCHANGED <<active, detached, fetch>>
      /\ (req \in Placing <=> req.kind = "place") /\ (req \in Swapping <=> req.kind = "swap")
  <2>1. req.at = "sent" /\ UNCHANGED <<active, detached, fetch>>
    BY DEF PC!ServerActs, PC!caches
  <2>2. req \in {PC!Idle} \cup Placing \cup Swapping
    BY DEF CacheInv, CacheTypes
  <2> HIDE DEF req
  <2>3. req \in Placing \cup Swapping
    BY <2>1, <2>2 DEF PC!Idle
  <2> QED BY <2>1, <2>3 DEF Placing, Swapping
<1>1. ~RenewsDetached(req) /\ (RenewsActive(req) => req \in Swapping)
  BY <1>0 DEF RenewsActive, RenewsDetached
<1>2. ASSUME NEW x \in Placing \cup Swapping, request' = [request EXCEPT ![r] = x],
             req \in Swapping => x \in Swapping
      PROVE  /\ request' \in [Requests -> {PC!Idle} \cup Placing \cup Swapping]
             /\ request'[r] = x
             /\ \A q \in Requests : RenewsActive(request[q]) => RenewsActive(request'[q])
             /\ \A q \in Requests : RenewsDetached(request[q]) => RenewsDetached(request'[q])
  <2>1. /\ request' \in [Requests -> {PC!Idle} \cup Placing \cup Swapping] /\ request'[r] = x
        /\ \A q \in Requests \ {r} : request'[q] = request[q]
    BY <1>2 DEF CacheInv, CacheTypes
  <2> QED BY <1>1, <1>2, <2>1 DEF RenewsActive
<1>3. ASSUME NEW a \in BOOLEAN
      PROVE  /\ [req EXCEPT !.at = "answered", !.ok = a] \in Placing \cup Swapping
             /\ req \in Swapping => [req EXCEPT !.at = "answered", !.ok = a] \in Swapping
  BY <1>0 DEF Placing, Swapping
<1>4. CASE /\ UNCHANGED <<place, swapped, excused>>
           /\ request' = [request EXCEPT ![r] = [req EXCEPT !.at = "answered", !.ok = FALSE]]
  <2>1. PC!ServerActive' = PC!ServerActive /\ PC!At("detached")' = PC!At("detached")
    BY <1>4 DEF PC!ServerActive, PC!At
  <2> DEFINE x == [req EXCEPT !.at = "answered", !.ok = FALSE]
  <2>2. x \in Placing \cup Swapping /\ (req \in Swapping => x \in Swapping)
    BY <1>3
  <2> HIDE DEF x
  <2>3. /\ request' \in [Requests -> {PC!Idle} \cup Placing \cup Swapping]
        /\ \A q \in Requests : RenewsActive(request[q]) => RenewsActive(request'[q])
        /\ \A q \in Requests : RenewsDetached(request[q]) => RenewsDetached(request'[q])
    <3>1. request' = [request EXCEPT ![r] = x]
      BY <1>4 DEF x
    <3> QED BY <1>2, <2>2, <3>1
  <2>4. CacheTypes'
    BY <1>0, <1>4, <2>3 DEF CacheInv, CacheTypes
  <2> QED BY <1>0, <1>4, <2>1, <2>3, <2>4 DEF CacheInv
<1>5. ASSUME req.kind = "swap", swapped' = ~swapped, NEW a \in BOOLEAN,
             request' = [request EXCEPT ![r] = [req EXCEPT !.at = "answered", !.ok = a]],
             UNCHANGED <<place, excused>>
      PROVE  CacheInv'
  <2>1. PC!At("detached")' = PC!At("detached")
    BY <1>5 DEF PC!At
  <2> DEFINE x == [req EXCEPT !.at = "answered", !.ok = a]
  <2>2. x \in Swapping
    BY <1>0, <1>3, <1>5
  <2> HIDE DEF x
  <2>3. /\ request' \in [Requests -> {PC!Idle} \cup Placing \cup Swapping] /\ request'[r] = x
        /\ \A q \in Requests : RenewsDetached(request[q]) => RenewsDetached(request'[q])
    <3>1. request' = [request EXCEPT ![r] = x]
      BY <1>5 DEF x
    <3> QED BY <1>2, <2>2, <3>1
  <2>4. RenewsActive(request'[r])
    BY <2>2, <2>3 DEF RenewsActive
  <2>5. CacheTypes'
    BY <1>0, <1>5, <2>3 DEF CacheInv, CacheTypes
  <2> QED BY <1>0, <1>5, <2>1, <2>3, <2>4, <2>5 DEF CacheInv
<1>6. ASSUME req.kind = "place",
             place' = [place EXCEPT ![req.pane] =
                         IF req.to = "same" THEN @
                         ELSE IF req.to = "create" THEN "visible" ELSE req.to],
             UNCHANGED swapped,
             \/ /\ request' = [request EXCEPT ![r] =
                      [req EXCEPT !.at = "answered", !.ok = TRUE, !.to = place'[req.pane]]]
                /\ UNCHANGED excused
             \/ /\ request' = [request EXCEPT ![r] = [req EXCEPT !.at = "answered", !.ok = FALSE]]
                /\ excused' = TRUE
      PROVE  CacheInv'
  <2>0. req.pane \in CachedPanes /\ req.to \in Places \cup {"create", "same"} /\ req \in Placing
    BY <1>0, <1>6 DEF Placing
  <2>1. place' \in [CachedPanes -> Places] /\ place'[req.pane] \in Places
    <3> DEFINE y == IF req.to = "same" THEN place[req.pane]
                    ELSE IF req.to = "create" THEN "visible" ELSE req.to
    <3>1. place' = [place EXCEPT ![req.pane] = y] /\ place \in [CachedPanes -> Places]
      BY <1>6 DEF CacheInv, CacheTypes
    <3>2. y \in Places
      BY <2>0, <3>1 DEF Places
    <3> HIDE DEF y
    <3> QED BY <2>0, <3>1, <3>2
  <2>2. CASE /\ request' = [request EXCEPT ![r] =
                   [req EXCEPT !.at = "answered", !.ok = TRUE, !.to = place'[req.pane]]]
             /\ UNCHANGED excused
    <3> DEFINE x == [req EXCEPT !.at = "answered", !.ok = TRUE, !.to = place'[req.pane]]
    <3>1. x \in Placing /\ x.at = "answered" /\ x.ok
      BY <2>0, <2>1 DEF Placing
    <3> HIDE DEF x
    <3>2. req \notin Swapping
      BY <1>0, <1>6
    <3>3. request' \in [Requests -> {PC!Idle} \cup Placing \cup Swapping] /\ request'[r] = x
      <4>1. request' = [request EXCEPT ![r] = x]
        BY <2>2 DEF x
      <4> QED BY <1>2, <3>1, <3>2, <4>1
    <3>4. RenewsActive(request'[r]) /\ RenewsDetached(request'[r])
      BY <3>1, <3>3 DEF RenewsActive, RenewsDetached
    <3>5. CacheTypes'
      BY <1>0, <1>6, <2>1, <2>2, <3>3 DEF CacheInv, CacheTypes
    <3> QED BY <3>4, <3>5 DEF CacheInv
  <2>3. CASE /\ request' = [request EXCEPT ![r] = [req EXCEPT !.at = "answered", !.ok = FALSE]]
             /\ excused' = TRUE
    <3> DEFINE x == [req EXCEPT !.at = "answered", !.ok = FALSE]
    <3>1. x \in Placing \cup Swapping /\ (req \in Swapping => x \in Swapping)
      BY <1>3
    <3> HIDE DEF x
    <3>2. request' \in [Requests -> {PC!Idle} \cup Placing \cup Swapping]
      <4>1. request' = [request EXCEPT ![r] = x]
        BY <2>3 DEF x
      <4> QED BY <1>2, <3>1, <4>1
    <3>3. CacheTypes'
      BY <1>0, <1>6, <2>1, <2>3, <3>2 DEF CacheInv, CacheTypes
    <3> QED BY <2>3, <3>3 DEF CacheInv
  <2> QED BY <1>6, <2>2, <2>3
<1> QED BY <1>4, <1>5, <1>6 DEF PC!ServerActs

\* An answer of a mutation comes.
LEMMA AnswerStep ==
  ASSUME CacheInv, NEW r \in Requests, PC!Answered(r)
  PROVE  CacheInv'
<1> DEFINE req == request[r]
<1>0. /\ req \in Placing \cup Swapping /\ req.at = "answered"
      /\ UNCHANGED <<place, swapped, excused>>
      /\ request' = [request EXCEPT ![r] = PC!Idle]
      /\ (req \in Placing <=> req.kind = "place") /\ (req \in Swapping <=> req.kind = "swap")
  BY DEF PC!Answered, CacheInv, CacheTypes, PC!Idle, Placing, Swapping
<1>1. PC!ServerActive' = PC!ServerActive /\ PC!At("detached")' = PC!At("detached")
  BY <1>0 DEF PC!ServerActive, PC!At
<1>2. /\ request' \in [Requests -> {PC!Idle} \cup Placing \cup Swapping]
      /\ \A q \in Requests \ {r} : request'[q] = request[q]
  BY <1>0 DEF CacheInv, CacheTypes
<1>3. PC!Asked \in FetchOf(PaneList) /\ PC!Asked \in FetchOf(SUBSET CachedPanes)
      /\ PC!Asked \in FetchOf(PaneList \cup SUBSET CachedPanes)
  BY DEF FetchOf
<1>4. CASE req.kind = "place" /\ req.ok
  <2>1. /\ PC!Puts(req.pane, req.to)
        /\ fetch' = [active |-> PC!Asked, detached |-> PC!Asked]
    BY <1>4 DEF PC!Answered, PC!Invalidate
  <2>2. req.pane \in CachedPanes
    BY <1>0, <1>4 DEF Placing
  <2>3. active' \in PaneList /\ detached' \in SUBSET CachedPanes
    BY <2>1, <2>2 DEF PC!Puts, CacheInv, CacheTypes, PaneList
  <2>4. fetch'["active"] = PC!Asked /\ fetch'["detached"] = PC!Asked
        /\ fetch' \in [{"active", "detached"} -> FetchOf(PaneList \cup SUBSET CachedPanes)]
    BY <1>3, <2>1
  <2>5. CacheTypes'
    BY <1>0, <1>2, <1>3, <2>3, <2>4 DEF CacheInv, CacheTypes
  <2> QED BY <2>4, <2>5 DEF CacheInv, Settling
<1>5. CASE req.kind = "place" /\ ~req.ok
  <2>1. UNCHANGED <<active, detached, fetch>>
    BY <1>5 DEF PC!Answered, PC!caches
  <2>2. ~RenewsActive(req) /\ ~RenewsDetached(req)
    BY <1>0, <1>5 DEF RenewsActive, RenewsDetached
  <2>3. CacheTypes'
    BY <1>0, <1>2, <2>1 DEF CacheInv, CacheTypes
  <2> QED BY <1>0, <1>1, <1>2, <2>1, <2>2, <2>3 DEF CacheInv
<1>6. CASE req.kind = "swap"
  <2>1. /\ active' = (IF req.ok THEN active ELSE req.previous) /\ UNCHANGED detached
        /\ fetch' = [fetch EXCEPT !["active"] = PC!Asked]
    BY <1>6 DEF PC!Answered
  <2>2. req.previous \in PaneList /\ ~RenewsDetached(req)
    BY <1>0, <1>6 DEF Swapping, RenewsDetached
  <2>3. fetch'["active"] = PC!Asked /\ fetch'["detached"] = fetch["detached"]
        /\ fetch' \in [{"active", "detached"} -> FetchOf(PaneList \cup SUBSET CachedPanes)]
    BY <1>3, <2>1 DEF CacheInv, CacheTypes
  <2>4. CacheTypes'
    BY <1>0, <1>2, <1>3, <2>1, <2>2, <2>3 DEF CacheInv, CacheTypes
  <2> QED BY <1>0, <1>1, <1>2, <2>1, <2>2, <2>3, <2>4 DEF CacheInv, Settling
<1> QED BY <1>0, <1>4, <1>5, <1>6

\* Every step keeps the invariant.
LEMMA CacheStep == CacheInv /\ [PC!Next]_(PC!vars) => CacheInv'
<1> SUFFICES ASSUME CacheInv, [PC!Next]_(PC!vars) PROVE CacheInv'
  OBVIOUS
<1>1. CASE UNCHANGED PC!vars
  BY <1>1 DEF PC!vars, CacheInv, CacheTypes, PC!ServerActive, PC!At
<1> QED BY <1>1, FetchSteps, CallSteps, ActsStep, AnswerStep DEF PC!Next, Places

\* A step of the browser is one of the lists' or leaves them.
LEMMA CacheLift ==
  /\ BrowserInit => CacheInv
  /\ [BrowserNext]_BrowserVars => [PC!Next]_(PC!vars)
<1>1. BrowserInit => CacheInv
  <2> SUFFICES ASSUME PC!Init PROVE CacheInv
    BY DEF BrowserInit
  <2>1. /\ place \in [CachedPanes -> Places] /\ swapped = FALSE /\ active = PC!ServerActive
        /\ detached = PC!At("detached") /\ fetch = [active |-> <<>>, detached |-> <<>>]
        /\ request = [r \in Requests |-> PC!Idle] /\ excused = FALSE
    BY DEF PC!Init, Places
  <2>2. PC!ServerActive \in PaneList /\ PC!At("detached") \in SUBSET CachedPanes
    BY <2>1 DEF PC!ServerActive, PC!At, PaneList
  <2>3. CacheTypes
    <3>1. \A L : <<>> \in FetchOf(L)
      BY DEF FetchOf
    <3>2. /\ fetch \in [{"active", "detached"} -> FetchOf(PaneList \cup SUBSET CachedPanes)]
          /\ fetch["active"] \in FetchOf(PaneList) /\ fetch["detached"] \in FetchOf(SUBSET CachedPanes)
      BY <2>1, <3>1
    <3>3. request \in [Requests -> {PC!Idle} \cup Placing \cup Swapping]
      BY <2>1
    <3> QED BY <2>1, <2>2, <3>2, <3>3 DEF CacheTypes
  <2> QED BY <2>1, <2>3 DEF CacheInv, Settling
<1>2. [BrowserNext]_BrowserVars => [PC!Next]_(PC!vars)
  BY DEF BrowserNext, BrowserVars, cache, PC!vars
<1> QED BY <1>1, <1>2

\* For any number of panes and of mutations and fetches that overlap: once they are over
\* and no answer was lost, the browser's lists are the server's.
THEOREM ListsSettle == BrowserSpec => []CachesSettle
<1>1. CacheInv => CachesSettle
  <2> SUFFICES ASSUME CacheInv, ~excused, \A r \in Requests : request[r] = PC!Idle,
                      fetch = [active |-> <<>>, detached |-> <<>>]
               PROVE  active = PC!ServerActive /\ detached = PC!At("detached")
    BY DEF CachesSettle, PC!CachesSettle
  <2>1. \A r \in Requests : ~RenewsActive(request[r]) /\ ~RenewsDetached(request[r])
    BY DEF RenewsActive, RenewsDetached, Placing, Swapping, PC!Idle
  <2>2. fetch["active"] = <<>> /\ fetch["detached"] = <<>>
    OBVIOUS
  <2> QED BY <2>1, <2>2 DEF CacheInv, Settling, PC!Asked
<1> QED BY <1>1, CacheStep, CacheLift, PTL DEF BrowserSpec

-------------------------------------------------------------------------------
(***************************************************************************)
(* WriteQueue: a terminal that is not held shows all of the output.        *)
(***************************************************************************)

\* What xterm shows after one more item, and after none.
Then(screen, item) ==
  [upto |-> item.upto,
   whole |-> item.reset \/ (screen.whole /\ item.upto = screen.upto + 1)]

\* The messages of a server, and the screens they make.
Item == [reset : BOOLEAN, upto : Nat, from : Nat]
\* A screen has nothing but its two fields.
IsScreen(t) == t = [upto |-> t.upto, whole |-> t.whole] /\ t.whole \in BOOLEAN

\* A write of nothing changes nothing.
LEMMA ShowsNothing ==
  ASSUME NEW t, IsScreen(t)
  PROVE  WQ!Shows(t, <<>>) = t
<1>1. 0..Len(<<>>) = {0} /\ 1..Len(<<>>) = {}
  OBVIOUS
<1>2. WQ!Shows(t, <<>>).upto = t.upto
  BY DEF WQ!Shows
<1>3. WQ!Shows(t, <<>>) = [upto |-> t.upto, whole |-> t.whole]
  <2> DEFINE w == \E k \in 0..Len(<<>>) :
                    /\ IF k = 0 THEN t.whole ELSE <<>>[k].reset
                    /\ \A i \in k + 1..Len(<<>>) : WQ!Continues(t, <<>>, i)
  <2>1. w <=> t.whole
    <3>1. \A k \in 0..Len(<<>>) : k = 0 /\ k + 1..Len(<<>>) = {}
      BY <1>1
    <3>2. 0 \in 0..Len(<<>>)
      BY <1>1
    <3> QED BY <3>1, <3>2
  <2>2. w \in BOOLEAN
    OBVIOUS
  <2>3. WQ!Shows(t, <<>>) = [upto |-> t.upto, whole |-> w]
    BY DEF WQ!Shows
  <2> HIDE DEF w
  <2>4. w = t.whole
    BY <2>1, <2>2 DEF IsScreen
  <2> QED BY <2>3, <2>4
<1> QED BY <1>3 DEF IsScreen

\* Whether what is shown is whole, in two parts: a point of the write, and all of it.
LEMMA ShowsScreen ==
  ASSUME NEW t, NEW d
  PROVE  /\ IsScreen(WQ!Shows(t, d))
         /\ WQ!Shows(t, d).upto = IF d = <<>> THEN t.upto ELSE d[Len(d)].upto
         /\ WQ!Shows(t, d).whole <=>
              \E k \in 0..Len(d) : /\ IF k = 0 THEN t.whole ELSE d[k].reset
                                   /\ \A i \in k + 1..Len(d) : WQ!Continues(t, d, i)
<1> DEFINE w == \E k \in 0..Len(d) : /\ IF k = 0 THEN t.whole ELSE d[k].reset
                                     /\ \A i \in k + 1..Len(d) : WQ!Continues(t, d, i)
           u == IF d = <<>> THEN t.upto ELSE d[Len(d)].upto
<1>1. WQ!Shows(t, d) = [upto |-> u, whole |-> w]
  BY DEF WQ!Shows
<1>2. w \in BOOLEAN
  OBVIOUS
<1> HIDE DEF w, u
<1>3. WQ!Shows(t, d).upto = u /\ WQ!Shows(t, d).whole = w
  BY <1>1
<1>4. IsScreen(WQ!Shows(t, d))
  BY <1>1, <1>2, <1>3 DEF IsScreen
<1> QED BY <1>3, <1>4 DEF w, u

\* Screens are the same when their parts are.
LEMMA SameScreen ==
  ASSUME NEW s, NEW t, IsScreen(s), IsScreen(t), s.upto = t.upto, s.whole <=> t.whole
  PROVE  s = t
BY DEF IsScreen

\* What one more item makes of a screen, in parts.
LEMMA ThenScreen ==
  ASSUME NEW t, NEW item
  PROVE  /\ IsScreen(Then(t, item))
         /\ Then(t, item).upto = item.upto
         /\ Then(t, item).whole <=> item.reset \/ (t.whole /\ item.upto = t.upto + 1)
<1> DEFINE w == item.reset \/ (t.whole /\ item.upto = t.upto + 1)
<1>1. Then(t, item) = [upto |-> item.upto, whole |-> w] /\ w \in BOOLEAN
  BY DEF Then
<1> HIDE DEF w
<1>2. Then(t, item).upto = item.upto /\ Then(t, item).whole = w
  BY <1>1
<1> QED BY <1>1, <1>2 DEF IsScreen, w

\* An item at the end of a write.
LEMMA ShowsAppended ==
  ASSUME NEW t, NEW S, NEW d \in Seq(S), NEW item \in S
  PROVE  WQ!Shows(t, Append(d, item)) = Then(WQ!Shows(t, d), item)
<1> DEFINE e == Append(d, item)
           n == Len(d)
<1>1. /\ n \in Nat /\ Len(e) = n + 1 /\ e[n + 1] = item /\ e # <<>>
      /\ \A i \in 1..n : e[i] = d[i]
      /\ d = <<>> <=> n = 0
  OBVIOUS
<1> HIDE DEF e, n
<1>2. WQ!Shows(t, e).upto = item.upto
  BY <1>1, ShowsScreen
<1>3. \A i \in 1..n : WQ!Continues(t, e, i) <=> WQ!Continues(t, d, i)
  BY <1>1 DEF WQ!Continues
<1>4. WQ!Continues(t, e, n + 1) <=> item.upto = WQ!Shows(t, d).upto + 1
  BY <1>1, ShowsScreen DEF WQ!Continues, n
<1>5. WQ!Shows(t, e).whole <=>
        item.reset \/ (WQ!Shows(t, d).whole /\ item.upto = WQ!Shows(t, d).upto + 1)
  <2> DEFINE From(x, m, k) == /\ IF k = 0 THEN t.whole ELSE x[k].reset
                              /\ \A i \in k + 1..m : WQ!Continues(t, x, i)
  <2>1. WQ!Shows(t, e).whole <=> \E k \in 0..n + 1 : From(e, n + 1, k)
    BY <1>1, ShowsScreen
  <2>2. WQ!Shows(t, d).whole <=> \E k \in 0..n : From(d, n, k)
    BY ShowsScreen DEF n
  <2>3. From(e, n + 1, n + 1) <=> item.reset
    BY <1>1
  <2>4. ASSUME NEW k \in 0..n
        PROVE  From(e, n + 1, k) <=> From(d, n, k) /\ WQ!Continues(t, e, n + 1)
    <3>1. k + 1..n + 1 = (k + 1..n) \cup {n + 1}
      BY <1>1
    <3>2. \A i \in k + 1..n : i \in 1..n
      BY <1>1
    <3>3. (\A i \in k + 1..n + 1 : WQ!Continues(t, e, i)) <=>
            (\A i \in k + 1..n : WQ!Continues(t, d, i)) /\ WQ!Continues(t, e, n + 1)
      BY <1>3, <3>1, <3>2
    <3>4. (IF k = 0 THEN t.whole ELSE e[k].reset) <=> (IF k = 0 THEN t.whole ELSE d[k].reset)
      BY <1>1
    <3> QED BY <3>3, <3>4
  <2>5. 0..n + 1 = (0..n) \cup {n + 1}
    BY <1>1
  <2> HIDE DEF From
  <2> QED BY <1>4, <2>1, <2>2, <2>3, <2>4, <2>5
<1> QED BY <1>2, <1>5, ShowsScreen, ThenScreen, SameScreen DEF e

\* An item at the front of one.
LEMMA ShowsFront ==
  ASSUME NEW t, NEW S, NEW d \in Seq(S), d # <<>>
  PROVE  WQ!Shows(t, d) = WQ!Shows(Then(t, Head(d)), Tail(d))
<1> DEFINE e == Tail(d)
           n == Len(d)
           s == Then(t, Head(d))
<1>1. /\ n \in Nat \ {0} /\ Len(e) = n - 1 /\ Head(d) = d[1]
      /\ \A i \in 1..n - 1 : e[i] = d[i + 1]
      /\ e = <<>> <=> n = 1
  <2>1. n \in Nat \ {0} /\ Head(d) = d[1] /\ e \in Seq(S)
    OBVIOUS
  <2>2. Len(e) = n - 1 /\ \A i \in 1..n - 1 : e[i] = d[i + 1]
    BY <2>1
  <2>3. e = <<>> <=> Len(e) = 0
    <3> HIDE DEF e, n
    <3> QED BY <2>1
  <2> QED BY <2>1, <2>2, <2>3
<1> HIDE DEF e, n
<1>2. /\ s.upto = d[1].upto
      /\ s.whole <=> d[1].reset \/ (t.whole /\ d[1].upto = t.upto + 1)
  BY <1>1, ThenScreen
<1> HIDE DEF s
<1>3. WQ!Shows(t, d).upto = WQ!Shows(s, e).upto
  <2>1. WQ!Shows(t, d).upto = d[n].upto
    BY <1>1, ShowsScreen DEF n
  <2>2. CASE n = 1
    BY <1>1, <1>2, <2>1, <2>2, ShowsScreen
  <2>3. CASE n # 1
    <3>1. WQ!Shows(s, e).upto = e[n - 1].upto
      BY <1>1, <2>3, ShowsScreen
    <3> QED BY <1>1, <2>1, <2>3, <3>1
  <2> QED BY <2>2, <2>3
<1>4. ASSUME NEW i \in 1..n - 1
      PROVE  WQ!Continues(s, e, i) <=> WQ!Continues(t, d, i + 1)
  <2>1. e[i] = d[i + 1] /\ (i + 1) - 1 = i /\ i + 1 # 1
    BY <1>1
  <2>2. CASE i = 1
    BY <1>2, <2>1, <2>2 DEF WQ!Continues
  <2>3. CASE i # 1
    <3>1. i - 1 \in 1..n - 1 /\ (i - 1) + 1 = i
      BY <1>1, <2>3
    <3>2. e[i - 1] = d[i]
      BY <1>1, <3>1
    <3> QED BY <2>1, <2>3, <3>2 DEF WQ!Continues
  <2> QED BY <2>2, <2>3
<1>5. WQ!Shows(t, d).whole <=> WQ!Shows(s, e).whole
  <2> DEFINE From(x, y, m, k) == /\ IF k = 0 THEN x.whole ELSE y[k].reset
                                 /\ \A i \in k + 1..m : WQ!Continues(x, y, i)
  <2>1. WQ!Shows(t, d).whole <=> \E k \in 0..n : From(t, d, n, k)
    BY ShowsScreen DEF n
  <2>2. WQ!Shows(s, e).whole <=> \E k \in 0..n - 1 : From(s, e, n - 1, k)
    BY <1>1, ShowsScreen
  <2>3. ASSUME NEW k \in 0..n - 1
        PROVE  (\A i \in k + 1..n - 1 : WQ!Continues(s, e, i)) <=>
               (\A i \in k + 2..n : WQ!Continues(t, d, i))
    <3>1. \A i \in k + 1..n - 1 : i \in 1..n - 1 /\ i + 1 \in k + 2..n
      BY <1>1
    <3>2. \A i \in k + 2..n : i - 1 \in k + 1..n - 1 /\ i - 1 \in 1..n - 1 /\ (i - 1) + 1 = i
      BY <1>1
    <3> QED BY <1>4, <3>1, <3>2
  <2>4. ASSUME NEW k \in 1..n - 1
        PROVE  From(s, e, n - 1, k) <=> From(t, d, n, k + 1)
    <3>1. k # 0 /\ k + 1 # 0 /\ e[k] = d[k + 1] /\ (k + 1) + 1 = k + 2 /\ k \in 0..n - 1
      BY <1>1
    <3> QED BY <2>3, <3>1
  <2>5. From(s, e, n - 1, 0) <=> From(t, d, n, 1) \/ From(t, d, n, 0)
    <3>1. From(t, d, n, 1) <=> d[1].reset /\ \A i \in 2..n : WQ!Continues(t, d, i)
      BY <1>1
    <3>2. 1..n = {1} \cup 2..n
      BY <1>1
    <3>3. From(t, d, n, 0) <=> t.whole /\ d[1].upto = t.upto + 1
                               /\ \A i \in 2..n : WQ!Continues(t, d, i)
      BY <3>2 DEF WQ!Continues
    <3>4. From(s, e, n - 1, 0) <=> s.whole /\ \A i \in 2..n : WQ!Continues(t, d, i)
      <4>1. 0 \in 0..n - 1 /\ 0 + 1 = 1 /\ 0 + 2 = 2
        BY <1>1
      <4>2. (\A i \in 1..n - 1 : WQ!Continues(s, e, i)) <=> (\A i \in 2..n : WQ!Continues(t, d, i))
        BY <2>3, <4>1
      <4>3. From(s, e, n - 1, 0) <=> s.whole /\ \A i \in 1..n - 1 : WQ!Continues(s, e, i)
        BY <4>1
      <4> QED BY <4>2, <4>3
    <3> QED BY <1>2, <3>1, <3>3, <3>4
  <2>6. \A k \in 0..n : k = 0 \/ k = 1 \/ (k - 1 \in 1..n - 1 /\ (k - 1) + 1 = k)
    BY <1>1
  <2>7. \A k \in 0..n - 1 : k = 0 \/ (k \in 1..n - 1 /\ k + 1 \in 0..n)
    BY <1>1
  <2>8. 0 \in 0..n /\ 1 \in 0..n /\ 0 \in 0..n - 1 /\ \A k \in 1..n - 1 : k \in 0..n - 1
    BY <1>1
  <2> HIDE DEF From
  <2>9. (\E k \in 0..n : From(t, d, n, k)) => (\E k \in 0..n - 1 : From(s, e, n - 1, k))
    BY <2>4, <2>5, <2>6, <2>8
  <2>10. (\E k \in 0..n - 1 : From(s, e, n - 1, k)) => (\E k \in 0..n : From(t, d, n, k))
    BY <2>4, <2>5, <2>7, <2>8
  <2> QED BY <2>1, <2>2, <2>9, <2>10
<1> QED BY <1>3, <1>5, ShowsScreen, SameScreen DEF s, e

\* The output that is under way between the server and xterm, in the order it came,
\* makes the whole of what the server sent.
Chain == WQ!Shows(WQ!Shows(WQ!Shows(term, writing), pending), wire)

\* The inductive invariant: nothing is pending when nothing is written; only an open
\* socket has messages or a request under way; and in a view that is shown nothing is
\* missing from what is under way but while something is held back, or a reseed asked for
\* that repairs it.
WriteInv ==
  /\ output \in Nat /\ connects \in Nat
  /\ wire \in Seq(Item) /\ pending \in Seq(Item) /\ IsScreen(term)
  /\ writing = <<>> => pending = <<>>
  /\ asked \/ wire # <<>> => connected
  /\ visible /\ connected /\ ~held /\ ~asked => Chain.upto = output /\ Chain.whole

\* What the socket brings next is at the end of what is under way.
LEMMA ChainAppended ==
  ASSUME WriteInv, NEW item \in Item, wire' = Append(wire, item),
         UNCHANGED <<term, writing, pending>>
  PROVE  Chain' = Then(Chain, item) /\ wire' \in Seq(Item) /\ wire' # <<>>
BY ShowsAppended DEF Chain, WriteInv

\* Messages come to be sent: an output, a reset or a reseed.
LEMMA SendStep ==
  ASSUME WriteInv, WQ!Outputs \/ WQ!Reseeds
  PROVE  WriteInv'
<1>1. UNCHANGED <<connected, connects, visible, term, writing, pending, held>>
  BY DEF WQ!Outputs, WQ!Reseeds, WQ!server, WQ!queue
<1>2. output \in Nat /\ output' \in Nat /\ connects \in Nat
  BY DEF WriteInv, WQ!Outputs, WQ!Reseeds, WQ!server
<1>3. CASE ~connected
  <2>1. UNCHANGED wire /\ (asked' => asked)
    BY <1>3 DEF WQ!Outputs, WQ!Reseeds, WQ!Sends
  <2> QED BY <1>1, <1>2, <1>3, <2>1 DEF WriteInv
<1>4. CASE connected
  <2>1. PICK item \in {WQ!Text(output', connects), WQ!Seed(output', connects)} :
          /\ wire' = Append(wire, item)
          /\ \/ UNCHANGED asked /\ output' = output + 1
             \/ item = WQ!Seed(output', connects)
    BY <1>4 DEF WQ!Outputs, WQ!Reseeds, WQ!Sends, WQ!server
  <2>2. item \in Item /\ item.upto = output' /\ (item.reset <=> item # WQ!Text(output', connects))
    <3>1. WQ!Text(output', connects) \in Item /\ ~WQ!Text(output', connects).reset /\ WQ!Text(output', connects).upto = output'
      BY <1>2 DEF WQ!Text, Item
    <3>2. WQ!Seed(output', connects) \in Item /\ WQ!Seed(output', connects).reset /\ WQ!Seed(output', connects).upto = output'
      BY <1>2 DEF WQ!Seed, Item
    <3> QED BY <3>1, <3>2
  <2>3. Chain' = Then(Chain, item) /\ wire' \in Seq(Item) /\ wire' # <<>>
    BY <1>1, <2>1, <2>2, ChainAppended
  <2>4. Chain'.upto = output' /\ (visible /\ ~held /\ ~asked' => Chain'.whole)
    <3>1. Chain'.upto = output' /\ (item.reset => Chain'.whole)
      BY <2>2, <2>3, ThenScreen
    <3>2. CASE ~item.reset
      <4>1. UNCHANGED asked /\ output' = output + 1
        BY <2>1, <2>2, <3>2 DEF WQ!Seed, WQ!Text
      <4>2. visible /\ ~held /\ ~asked' => Chain.upto = output /\ Chain.whole
        BY <1>4, <4>1 DEF WriteInv
      <4> QED BY <2>2, <2>3, <3>1, <4>1, <4>2, ThenScreen
    <3> QED BY <3>1, <3>2
  <2> QED BY <1>1, <1>2, <1>4, <2>3, <2>4 DEF WriteInv
<1> QED BY <1>3, <1>4

\* A connection opens with a seed: whatever was under way before, what is shown behind
\* it is whole.
LEMMA OpenStep ==
  ASSUME WriteInv, WQ!Opens
  PROVE  WriteInv'
<1>1. /\ connected' = TRUE /\ wire' = <<WQ!Seed(output, connects')>> /\ connects' = connects + 1
      /\ UNCHANGED <<output, asked, visible, writing>>
      /\ \/ UNCHANGED <<pending, term>>
         \/ pending' = <<>> /\ term' \in {term, WQ!Blank}
  BY DEF WQ!Opens, WQ!RestartStream
<1>2. WQ!Seed(output, connects') \in Item /\ WQ!Seed(output, connects').reset /\ WQ!Seed(output, connects').upto = output
  BY <1>1 DEF WQ!Seed, Item, WriteInv
<1>3. connects' \in Nat /\ IsScreen(term') /\ pending' \in Seq(Item) /\ (writing' = <<>> => pending' = <<>>)
  <2>1. IsScreen(WQ!Blank)
    BY DEF WQ!Blank, IsScreen
  <2>2. IsScreen(term) /\ pending \in Seq(Item) /\ (writing = <<>> => pending = <<>>)
    BY DEF WriteInv
  <2>3. <<>> \in Seq(Item)
    OBVIOUS
  <2> HIDE DEF IsScreen
  <2>4. term' \in {term, WQ!Blank} /\ pending' \in {pending, <<>>} /\ writing' = writing
    BY <1>1
  <2>5. IsScreen(term')
    BY <2>1, <2>2, <2>4
  <2>6. connects' \in Nat
    BY <1>1 DEF WriteInv
  <2> QED BY <2>2, <2>3, <2>4, <2>5, <2>6
<1>4. wire' = Append(<<>>, WQ!Seed(output, connects')) /\ <<>> \in Seq(Item) /\ wire' \in Seq(Item)
  BY <1>1, <1>2
<1>5. \A t : WQ!Shows(t, Append(<<>>, WQ!Seed(output, connects'))) = Then(WQ!Shows(t, <<>>), WQ!Seed(output, connects'))
  BY <1>2, <1>4, ShowsAppended
<1>6. \A t : WQ!Shows(t, wire').upto = output /\ WQ!Shows(t, wire').whole
  BY <1>2, <1>4, <1>5, ThenScreen
<1>7. Chain'.upto = output /\ Chain'.whole
  BY <1>6 DEF Chain
<1> QED BY <1>1, <1>3, <1>4, <1>7 DEF WriteInv

\* What a drain takes is written, or it is held or left out: then the view is hidden or
\* nothing was there, or a reseed is asked for.
LEMMA RunWriteTakes ==
  ASSUME NEW data \in Seq(Item), WQ!RunWrite(data)
  PROVE  /\ asked' \in {asked, asked \/ connected}
         /\ \/ held'
            \/ writing' = data /\ UNCHANGED <<held, asked>>
            \/ ~visible /\ UNCHANGED asked
            \/ (asked' <=> asked \/ connected)
BY DEF WQ!RunWrite, WQ!BackAtBottom

\* A message goes behind what is pending, or starts a drain.
LEMMA ReceiveStep ==
  ASSUME WriteInv, WQ!Receives
  PROVE  WriteInv'
<1> DEFINE h == Head(wire)
<1>1. /\ wire # <<>> /\ wire' = Tail(wire) /\ WQ!Enqueue(h)
      /\ UNCHANGED <<output, connected, connects, visible, term>>
  BY DEF WQ!Receives, WQ!server
<1>2. /\ connected /\ connects \in Nat /\ wire \in Seq(Item) /\ pending \in Seq(Item) /\ output \in Nat
      /\ IsScreen(term) /\ (writing = <<>> => pending = <<>>)
  BY <1>1 DEF WriteInv
<1>3. h \in Item /\ wire' \in Seq(Item)
  BY <1>1, <1>2
<1>4. \A t : WQ!Shows(t, wire) = WQ!Shows(Then(t, h), wire')
  BY <1>1, <1>2, ShowsFront
<1> HIDE DEF h
<1>5. CASE writing # <<>>
  <2>1. pending' = Append(pending, h) /\ UNCHANGED <<writing, held, asked>>
    BY <1>1, <1>5 DEF WQ!Enqueue
  <2>2. pending' \in Seq(Item)
    BY <1>2, <1>3, <2>1
  <2>3. \A t : WQ!Shows(t, pending') = Then(WQ!Shows(t, pending), h)
    BY <1>2, <1>3, <2>1, ShowsAppended
  <2>4. Chain' = Chain
    BY <1>1, <1>4, <2>1, <2>3 DEF Chain
  <2>5. visible' /\ connected' /\ ~held' /\ ~asked' => Chain'.upto = output' /\ Chain'.whole
    BY <1>1, <2>1, <2>4 DEF WriteInv
  <2> QED BY <1>1, <1>2, <1>3, <1>5, <2>1, <2>2, <2>5 DEF WriteInv
<1>6. CASE writing = <<>>
  <2>1. pending = <<>> /\ pending' = <<>> /\ WQ!RunWrite(Append(<<>>, h))
    BY <1>1, <1>2, <1>6 DEF WQ!Enqueue
  <2>2. Append(<<>>, h) \in Seq(Item) /\ <<>> \in Seq(Item)
    BY <1>3
  <2>3. visible' /\ connected' /\ ~held' /\ ~asked' =>
          writing' = Append(<<>>, h) /\ ~held /\ ~asked
    BY <1>1, <1>2, <2>1, <2>2, RunWriteTakes
  <2>4. ASSUME writing' = Append(<<>>, h) PROVE Chain' = Chain
    <3>1. WQ!Shows(term', writing') = Then(term, h)
      <4>1. WQ!Shows(term, <<>>) = term
        BY <1>2, ShowsNothing
      <4>2. WQ!Shows(term, Append(<<>>, h)) = Then(WQ!Shows(term, <<>>), h)
        BY <1>3, <2>2, ShowsAppended
      <4> QED BY <1>1, <2>4, <4>1, <4>2
    <3>2. IsScreen(Then(term, h))
      BY ThenScreen
    <3>3. Chain' = WQ!Shows(Then(term, h), wire')
      BY <2>1, <3>1, <3>2, ShowsNothing DEF Chain
    <3>4. Chain = WQ!Shows(term, wire)
      BY <1>2, <1>6, <2>1, ShowsNothing DEF Chain
    <3> QED BY <1>4, <3>3, <3>4
  <2>5. visible' /\ connected' /\ ~held' /\ ~asked' => Chain'.upto = output' /\ Chain'.whole
    BY <1>1, <2>3, <2>4 DEF WriteInv
  <2> QED BY <1>1, <1>2, <1>3, <2>1, <2>2, <2>5 DEF WriteInv
<1> QED BY <1>5, <1>6

\* A write is parsed, and what was pending meanwhile is taken.
LEMMA WrittenStep ==
  ASSUME WriteInv, WQ!Written
  PROVE  WriteInv'
<1>1. /\ term' = WQ!Shows(term, writing) /\ pending' = <<>> /\ WQ!RunWrite(pending)
      /\ UNCHANGED <<output, connected, connects, wire, visible>>
  BY DEF WQ!Written, WQ!server
<1>2. /\ wire \in Seq(Item) /\ pending \in Seq(Item) /\ output \in Nat /\ connects \in Nat
      /\ (asked \/ wire # <<>> => connected)
  BY DEF WriteInv
<1>3. IsScreen(term') /\ <<>> \in Seq(Item)
  BY <1>1, ShowsScreen
<1>4. visible' /\ connected' /\ ~held' /\ ~asked' => writing' = pending /\ ~held /\ ~asked
  BY <1>1, <1>2, RunWriteTakes
<1>5. ASSUME writing' = pending PROVE Chain' = Chain
  <2>1. IsScreen(WQ!Shows(term', writing'))
    BY ShowsScreen
  <2>2. Chain' = WQ!Shows(WQ!Shows(term', writing'), wire')
    BY <1>1, <2>1, ShowsNothing DEF Chain
  <2> QED BY <1>1, <1>5, <2>2 DEF Chain
<1>6. visible' /\ connected' /\ ~held' /\ ~asked' => Chain'.upto = output' /\ Chain'.whole
  BY <1>1, <1>4, <1>5 DEF WriteInv
<1>7. asked' => connected'
  BY <1>1, <1>2, RunWriteTakes
<1> QED BY <1>1, <1>2, <1>3, <1>6, <1>7 DEF WriteInv

\* Every step keeps the invariant.
LEMMA WriteStep == WriteInv /\ [WQ!Next]_(WQ!vars) => WriteInv'
<1> SUFFICES ASSUME WriteInv, [WQ!Next]_(WQ!vars) PROVE WriteInv'
  OBVIOUS
<1>1. CASE UNCHANGED WQ!vars
  BY <1>1 DEF WQ!vars, WriteInv, Chain
<1>2. CASE WQ!ScrollUp
  <2>1. UNCHANGED <<output, connected, connects, wire, asked, visible, pending, writing, held,
                    term>>
    BY <1>2 DEF WQ!ScrollUp, WQ!server, WQ!queue
  <2> QED BY <2>1 DEF WriteInv, Chain
<1>3. CASE WQ!ScrollDown
  <2>1. /\ UNCHANGED <<output, connected, connects, wire, visible, pending, writing, term>>
        /\ \/ UNCHANGED <<held, asked>>
           \/ held' = FALSE /\ (asked' <=> asked \/ connected)
    BY <1>3 DEF WQ!ScrollDown, WQ!BackAtBottom, WQ!server
  <2> QED BY <2>1 DEF WriteInv, Chain
<1>4. CASE WQ!Closes \/ WQ!Hide \/ WQ!Show
  <2>1. /\ connected' = FALSE /\ wire' = <<>> /\ asked' = FALSE
        /\ UNCHANGED <<output, connects, pending, writing, held, term>>
    BY <1>4 DEF WQ!Closes, WQ!Hide, WQ!Show, WQ!Drops, WQ!queue
  <2>2. <<>> \in Seq(Item)
    OBVIOUS
  <2> QED BY <2>1, <2>2 DEF WriteInv
<1> QED BY <1>1, <1>2, <1>3, <1>4, SendStep, OpenStep, ReceiveStep, WrittenStep DEF WQ!Next

\* A step of the browser is one of the write queue's or leaves it.
LEMMA WriteLift ==
  /\ BrowserInit => WriteInv
  /\ [BrowserNext]_BrowserVars => [WQ!Next]_(WQ!vars)
<1>1. BrowserInit => WriteInv
  <2> SUFFICES ASSUME WQ!Init PROVE WriteInv
    BY DEF BrowserInit
  <2>1. IsScreen(WQ!Blank)
    BY DEF WQ!Blank, IsScreen
  <2>2. /\ output = 0 /\ connects = 0 /\ connected = FALSE /\ wire = <<>> /\ asked = FALSE /\ visible = TRUE
        /\ pending = <<>> /\ term = WQ!Blank
    BY DEF WQ!Init
  <2>3. <<>> \in Seq(Item)
    OBVIOUS
  <2> QED BY <2>1, <2>2, <2>3 DEF WriteInv
<1>2. [BrowserNext]_BrowserVars => [WQ!Next]_(WQ!vars)
  BY DEF BrowserNext, BrowserVars, writes, WQ!vars
<1> QED BY <1>1, <1>2

\* For any output, any number of connections and whatever is held back, dropped or
\* restarted: with an open socket and nothing under way, a terminal that is shown and not
\* held shows all of the output without a hole.
THEOREM NothingIsLost == BrowserSpec => []CaughtUp
<1>1. WriteInv => CaughtUp
  <2> SUFFICES ASSUME WriteInv, visible, connected, wire = <<>>, ~asked, writing = <<>>, ~held
               PROVE  pending = <<>> /\ term = [upto |-> output, whole |-> TRUE]
    BY DEF CaughtUp, WQ!CaughtUp
  <2>1. pending = <<>> /\ IsScreen(term) /\ Chain.upto = output /\ Chain.whole
    BY DEF WriteInv
  <2>2. Chain = term
    BY <2>1, ShowsNothing DEF Chain
  <2> QED BY <2>1, <2>2 DEF IsScreen
<1> QED BY <1>1, WriteStep, WriteLift, PTL DEF BrowserSpec

\* Every message of a write came by connection c.
AllFrom(data, c) == \A i \in DOMAIN data : data[i].from = c

\* Behind what is shown no repaint is on its way.
NoSeedBehind == ~asked /\ ~WQ!HasReset(wire) /\ ~WQ!HasReset(pending)

\* The inductive invariant of the streams: what is on the way and what is pending came by
\* the present connection; and in a view that is shown, unless something is held or a
\* repaint comes behind it, so did the write that xterm has, and what is on the screen,
\* or else that write repaints it.
StreamInv ==
  /\ connects = 0 => ~connected /\ pending = <<>>
  /\ AllFrom(wire, connects) /\ AllFrom(pending, connects)
  /\ visible /\ connected /\ ~held /\ NoSeedBehind =>
       /\ AllFrom(writing, connects)
       /\ WQ!HasReset(writing) \/ streams \subseteq {connects}

\* One more message behind a write.
LEMMA StreamAppended ==
  ASSUME NEW d \in Seq(Item), NEW item \in Item, NEW c
  PROVE  /\ AllFrom(Append(d, item), c) <=> AllFrom(d, c) /\ item.from = c
         /\ WQ!HasReset(Append(d, item)) <=> WQ!HasReset(d) \/ item.reset
<1>1. /\ DOMAIN d = 1..Len(d) /\ Len(d) \in Nat
      /\ DOMAIN Append(d, item) = 1..Len(d) + 1
      /\ \A i \in 1..Len(d) : Append(d, item)[i] = d[i]
      /\ Append(d, item)[Len(d) + 1] = item
  OBVIOUS
<1>2. 1..Len(d) + 1 = (1..Len(d)) \cup {Len(d) + 1}
  BY <1>1
<1> QED BY <1>1, <1>2 DEF AllFrom, WQ!HasReset

\* The first message of a write, and the rest of it.
LEMMA StreamFront ==
  ASSUME NEW d \in Seq(Item), d # <<>>, NEW c
  PROVE  /\ AllFrom(d, c) <=> Head(d).from = c /\ AllFrom(Tail(d), c)
         /\ WQ!HasReset(d) <=> Head(d).reset \/ WQ!HasReset(Tail(d))
<1> DEFINE e == Tail(d)
           n == Len(d)
<1>1. /\ n \in Nat \ {0} /\ DOMAIN d = 1..n /\ DOMAIN e = 1..n - 1 /\ Head(d) = d[1]
      /\ \A i \in 1..n - 1 : e[i] = d[i + 1]
  <2>1. n \in Nat \ {0} /\ Head(d) = d[1] /\ e \in Seq(Item) /\ DOMAIN d = 1..n
    OBVIOUS
  <2>2. Len(e) = n - 1 /\ \A i \in 1..n - 1 : e[i] = d[i + 1]
    BY <2>1
  <2> QED BY <2>1, <2>2
<1> HIDE DEF e, n
<1>2. /\ \A i \in 1..n : i = 1 \/ (i - 1 \in 1..n - 1 /\ (i - 1) + 1 = i)
      /\ 1 \in 1..n /\ \A i \in 1..n - 1 : i + 1 \in 1..n
  BY <1>1
<1>3. AllFrom(d, c) <=> Head(d).from = c /\ AllFrom(e, c)
  <2>1. \A i \in 1..n : i = 1 \/ (i - 1 \in 1..n - 1 /\ e[i - 1] = d[i])
    BY <1>1, <1>2
  <2>2. ASSUME AllFrom(d, c) PROVE Head(d).from = c /\ AllFrom(e, c)
    <3>1. \A i \in 1..n : d[i].from = c
      BY <1>1, <2>2 DEF AllFrom
    <3>2. \A i \in 1..n - 1 : e[i] = d[i + 1] /\ i + 1 \in 1..n
      BY <1>1, <1>2
    <3>3. \A i \in 1..n - 1 : e[i].from = c
      BY <3>1, <3>2
    <3> QED BY <1>1, <1>2, <3>1, <3>3 DEF AllFrom
  <2>3. ASSUME Head(d).from = c, AllFrom(e, c) PROVE AllFrom(d, c)
    <3> SUFFICES ASSUME NEW i \in 1..n PROVE d[i].from = c
      BY <1>1 DEF AllFrom
    <3> QED BY <1>1, <2>1, <2>3 DEF AllFrom
  <2> QED BY <2>2, <2>3
<1>4. WQ!HasReset(d) <=> Head(d).reset \/ WQ!HasReset(e)
  BY <1>1, <1>2 DEF WQ!HasReset
<1> QED BY <1>3, <1>4 DEF e

\* Nothing is of any connection.
LEMMA StreamEmpty == ASSUME NEW c PROVE AllFrom(<<>>, c) /\ ~WQ!HasReset(<<>>)
BY DEF AllFrom, WQ!HasReset

\* What a drain of messages of the present connection leaves to xterm, unless the view is
\* hidden, something is held or a repaint is asked for.
LEMMA DrainStreams ==
  ASSUME WriteInv, visible, connected, NEW data \in Seq(Item), WQ!RunWrite(data), ~held', ~asked'
  PROVE  writing' = data /\ ~held /\ ~asked
BY RunWriteTakes DEF WriteInv

\* A write is parsed.
LEMMA WrittenStreams ==
  ASSUME WriteInv, StreamInv, WQ!Written
  PROVE  StreamInv'
<1>1. /\ streams' = WQ!Streams(streams, writing) /\ pending' = <<>> /\ WQ!RunWrite(pending)
      /\ UNCHANGED <<connected, connects, wire, visible>> /\ pending \in Seq(Item)
  BY DEF WQ!Written, WQ!server, WriteInv
<1>2. ASSUME visible', connected', ~held', NoSeedBehind'
      PROVE  /\ AllFrom(writing', connects)
             /\ WQ!HasReset(writing') \/ streams' \subseteq {connects}
  <2>1. writing' = pending /\ ~held /\ ~asked /\ ~WQ!HasReset(wire)
    BY <1>1, <1>2, DrainStreams DEF NoSeedBehind
  <2>2. CASE WQ!HasReset(pending)
    BY <2>1, <2>2 DEF StreamInv
  <2>3. CASE ~WQ!HasReset(pending)
    <3>1. AllFrom(writing, connects) /\ (WQ!HasReset(writing) \/ streams \subseteq {connects})
      BY <1>1, <1>2, <2>1, <2>3 DEF StreamInv, NoSeedBehind
    <3>2. streams' \subseteq {connects}
      BY <1>1, <3>1 DEF WQ!Streams, AllFrom
    <3> QED BY <2>1, <3>2 DEF StreamInv
  <2> QED BY <2>2, <2>3
<1>3. AllFrom(pending', connects') /\ AllFrom(wire', connects')
  BY <1>1, StreamEmpty DEF StreamInv
<1>4. connects' = 0 => ~connected' /\ pending' = <<>>
  BY <1>1 DEF StreamInv
<1> QED BY <1>1, <1>2, <1>3, <1>4 DEF StreamInv

\* A message is received.
LEMMA ReceiveStreams ==
  ASSUME WriteInv, StreamInv, WQ!Receives
  PROVE  StreamInv'
<1> DEFINE h == Head(wire)
<1>1. /\ wire # <<>> /\ wire' = Tail(wire) /\ WQ!Enqueue(h)
      /\ UNCHANGED <<connected, connects, visible, streams>>
  BY DEF WQ!Receives, WQ!server
<1>2. /\ connected /\ wire \in Seq(Item) /\ pending \in Seq(Item)
      /\ (writing = <<>> => pending = <<>>)
  BY <1>1 DEF WriteInv
<1>3. h \in Item
  BY <1>1, <1>2
<1>4. /\ h.from = connects /\ AllFrom(wire', connects)
      /\ WQ!HasReset(wire) <=> h.reset \/ WQ!HasReset(wire')
  BY <1>1, <1>2, StreamFront DEF StreamInv
<1> HIDE DEF h
<1>5. connects # 0
  BY <1>2 DEF StreamInv
<1>6. CASE writing # <<>>
  <2>1. pending' = Append(pending, h) /\ UNCHANGED <<writing, held, asked>>
    BY <1>1, <1>6 DEF WQ!Enqueue
  <2>2. /\ AllFrom(pending', connects)
        /\ WQ!HasReset(pending') <=> WQ!HasReset(pending) \/ h.reset
    BY <1>2, <1>3, <1>4, <2>1, StreamAppended DEF StreamInv
  <2>3. NoSeedBehind' => NoSeedBehind
    BY <1>4, <2>1, <2>2 DEF NoSeedBehind
  <2> QED BY <1>1, <1>4, <1>5, <2>1, <2>2, <2>3 DEF StreamInv
<1>7. CASE writing = <<>>
  <2> DEFINE one == Append(<<>>, h)
  <2>1. pending = <<>> /\ pending' = <<>> /\ WQ!RunWrite(one)
    BY <1>1, <1>2, <1>7 DEF WQ!Enqueue
  <2>2. one \in Seq(Item) /\ <<>> \in Seq(Item)
    BY <1>3
  <2>3. AllFrom(one, connects) /\ (WQ!HasReset(one) <=> h.reset)
    BY <1>3, <1>4, <2>2, StreamAppended, StreamEmpty
  <2> HIDE DEF one
  <2>4. ASSUME visible', connected', ~held', NoSeedBehind'
        PROVE  /\ AllFrom(writing', connects)
               /\ WQ!HasReset(writing') \/ streams' \subseteq {connects}
    <3>1. writing' = one /\ ~held /\ ~asked
      BY <1>1, <2>1, <2>2, <2>4, DrainStreams DEF NoSeedBehind
    <3>2. ~WQ!HasReset(writing)
      BY <1>7, StreamEmpty
    <3>3. ~h.reset => NoSeedBehind
      BY <1>4, <2>1, <2>4, <3>1, StreamEmpty DEF NoSeedBehind
    <3> QED BY <1>1, <2>3, <2>4, <3>1, <3>2, <3>3 DEF StreamInv
  <2> QED BY <1>1, <1>4, <1>5, <2>1, <2>4, StreamEmpty DEF StreamInv
<1> QED BY <1>6, <1>7

\* Messages come to be sent.
LEMMA SendStreams ==
  ASSUME WriteInv, StreamInv, WQ!Outputs \/ WQ!Reseeds
  PROVE  StreamInv'
<1>1. UNCHANGED <<connected, connects, visible, pending, writing, held, streams>>
  BY DEF WQ!Outputs, WQ!Reseeds, WQ!server, WQ!queue
<1>2. output' \in Nat /\ connects \in Nat /\ wire \in Seq(Item)
  BY DEF WriteInv, WQ!Outputs, WQ!Reseeds, WQ!server
<1>3. CASE ~connected
  <2>1. wire' = wire
    BY <1>3 DEF WQ!Outputs, WQ!Reseeds, WQ!Sends
  <2> QED BY <1>1, <1>3, <2>1 DEF StreamInv
<1>4. CASE connected
  <2>1. PICK item \in {WQ!Text(output', connects), WQ!Seed(output', connects)} :
          /\ wire' = Append(wire, item)
          /\ UNCHANGED asked \/ item = WQ!Seed(output', connects)
    BY <1>4 DEF WQ!Outputs, WQ!Reseeds, WQ!Sends, WQ!server
  <2>2. /\ item \in Item /\ item.from = connects
        /\ (item = WQ!Seed(output', connects) => item.reset)
    <3>1. CASE item = WQ!Text(output', connects)
      <4>1. item \in Item /\ item.from = connects /\ ~item.reset
        BY <1>2, <3>1 DEF WQ!Text, Item
      <4>2. WQ!Seed(output', connects).reset
        BY DEF WQ!Seed
      <4> QED BY <4>1, <4>2
    <3>2. CASE item = WQ!Seed(output', connects)
      BY <1>2, <3>2 DEF WQ!Seed, Item
    <3> QED BY <3>1, <3>2
  <2>3. /\ AllFrom(wire', connects)
        /\ WQ!HasReset(wire') <=> WQ!HasReset(wire) \/ item.reset
    BY <1>2, <2>1, <2>2, StreamAppended DEF StreamInv
  <2>4. NoSeedBehind' => NoSeedBehind
    BY <1>1, <2>1, <2>2, <2>3 DEF NoSeedBehind
  <2> QED BY <1>1, <2>3, <2>4 DEF StreamInv
<1> QED BY <1>3, <1>4

\* Every step keeps the invariant: a connection opens with a seed on its way, and a view
\* that is shown has none yet.
LEMMA StreamStep == WriteInv /\ StreamInv /\ [WQ!Next]_(WQ!vars) => StreamInv'
<1> SUFFICES ASSUME WriteInv, StreamInv, [WQ!Next]_(WQ!vars) PROVE StreamInv'
  OBVIOUS
<1>1. CASE UNCHANGED WQ!vars
  BY <1>1 DEF WQ!vars, StreamInv, NoSeedBehind
<1>2. CASE WQ!ScrollUp
  BY <1>2 DEF WQ!ScrollUp, WQ!server, WQ!queue, StreamInv, NoSeedBehind
<1>3. CASE WQ!ScrollDown
  <2>1. /\ UNCHANGED <<connected, connects, wire, visible, pending, writing, streams>>
        /\ \/ UNCHANGED <<held, asked>>
           \/ asked' <=> asked \/ connected
    BY <1>3 DEF WQ!ScrollDown, WQ!BackAtBottom, WQ!server
  <2> QED BY <2>1 DEF StreamInv, NoSeedBehind
<1>4. CASE WQ!Closes \/ WQ!Hide \/ WQ!Show
  <2>1. connected' = FALSE /\ wire' = <<>> /\ UNCHANGED <<connects, pending>>
    BY <1>4 DEF WQ!Closes, WQ!Hide, WQ!Show, WQ!Drops, WQ!queue
  <2> QED BY <2>1, StreamEmpty DEF StreamInv
<1>5. CASE WQ!Opens
  <2>1. /\ connects' = connects + 1 /\ wire' = <<WQ!Seed(output, connects')>>
        /\ pending' = <<>> \/ (connects = 0 /\ pending' = pending)
    BY <1>5 DEF WQ!Opens, WQ!RestartStream
  <2>2. connects' \in Nat \ {0} /\ output \in Nat
    BY <2>1 DEF WriteInv
  <2> DEFINE seed == WQ!Seed(output, connects')
  <2>3. seed \in Item /\ seed.reset /\ seed.from = connects'
    BY <2>2 DEF WQ!Seed, Item
  <2> HIDE DEF seed
  <2>4. wire' = Append(<<>>, seed) /\ <<>> \in Seq(Item)
    BY <2>1, <2>3 DEF seed
  <2>5. AllFrom(wire', connects') /\ WQ!HasReset(wire')
    BY <2>3, <2>4, StreamAppended, StreamEmpty
  <2>6. pending' = <<>>
    BY <2>1 DEF StreamInv
  <2> QED BY <2>2, <2>5, <2>6, StreamEmpty DEF StreamInv, NoSeedBehind
<1> QED BY <1>1, <1>2, <1>3, <1>4, <1>5, WrittenStreams, ReceiveStreams, SendStreams DEF WQ!Next

\* For any output, any number of connections and whatever lands after a restart: while a
\* view is shown and connected, nothing is held and no repaint is due, the terminal shows
\* the present connection's output alone.
THEOREM ShowsOneStream == BrowserSpec => []OneStreamOnScreen
<1>1. BrowserInit => StreamInv
  BY StreamEmpty DEF BrowserInit, WQ!Init, StreamInv, NoSeedBehind
<1>2. StreamInv => OneStreamOnScreen
  BY DEF StreamInv, NoSeedBehind, OneStreamOnScreen, WQ!OneStreamOnScreen, WQ!SeedDue
<1> QED BY <1>1, <1>2, WriteStep, StreamStep, WriteLift, PTL DEF BrowserSpec

-------------------------------------------------------------------------------
(***************************************************************************)
(* SizeClaims: the active view has the window at its size.                 *)
(***************************************************************************)

\* The size the window will have once the server has handled what is under way.
Latest == IF way = <<>> THEN window ELSE way[Len(way)]

\* The parts of the state that claims depend on.
ClaimTypes ==
  /\ page \in [shown : BOOLEAN, focused : BOOLEAN]
  /\ rendered \in [shown : BOOLEAN, focused : BOOLEAN, connected : BOOLEAN]
  /\ link \in [socket : {"none", "connecting", "open"}, status : {"connecting", "connected"}]
  /\ size \in Nat \ {0} /\ way \in Seq(Nat)
  /\ timers \subseteq {"fit", "pty"}

\* The window is not what the view claimed, and nothing of its own is under way.
Beaten == beaten /\ way = <<>>

\* The inductive invariant: a view without a socket, or one that was rendered hidden,
\* remembers no claim, and the status of an open socket says so; what an active view
\* remembers is what the window comes to, and that is its size unless a timer runs; but
\* for a view that is beaten, with no claim under way.
ClaimInv ==
  /\ ClaimTypes
  /\ link.socket = "open" => link.status = "connected"
  /\ link.socket # "none" => rendered.shown
  /\ lastClaim # 0 => link.socket = "open"
  /\ SZ!Owns(rendered) /\ link.socket = "open" =>
       /\ lastClaim # 0 => Latest = lastClaim \/ Beaten
       /\ Latest = size \/ Beaten \/ timers # {}

\* A claim goes behind those under way.
LEMMA Claimed ==
  ASSUME ClaimTypes, way' = Append(way, size)
  PROVE  way' \in Seq(Nat) /\ Latest' = size /\ way' # <<>>
<1>0. way \in Seq(Nat) /\ size \in Nat
  BY DEF ClaimTypes
<1>1. /\ way' \in Seq(Nat) /\ Len(way') = Len(way) + 1 /\ Len(way) \in Nat
      /\ way'[Len(way) + 1] = size /\ way' # <<>>
  BY <1>0
<1> QED BY <1>1 DEF Latest

\* The user, other views and the network.
LEMMA OutsideSteps ==
  ASSUME ClaimInv,
         \/ SZ!FocusOrBlur \/ SZ!ShowOrHide \/ SZ!Resize \/ SZ!OtherClaims \/ SZ!Lost
  PROVE  ClaimInv'
<1>1. CASE SZ!FocusOrBlur \/ SZ!ShowOrHide
  <2>1. UNCHANGED <<size, link, rendered, timers, lastClaim, way, window, beaten>>
    BY <1>1 DEF SZ!FocusOrBlur, SZ!ShowOrHide, SZ!server
  <2>2. page' \in [shown : BOOLEAN, focused : BOOLEAN]
    BY <1>1 DEF SZ!FocusOrBlur, SZ!ShowOrHide, ClaimInv, ClaimTypes
  <2> QED BY <2>1, <2>2 DEF ClaimInv, ClaimTypes, Latest, Beaten, SZ!Owns
<1>2. CASE SZ!Resize
  <2>1. UNCHANGED <<page, link, rendered, lastClaim, way, window, beaten>>
    BY <1>2 DEF SZ!Resize, SZ!server
  <2>2. size' \in Nat \ {0} /\ timers' \subseteq {"fit", "pty"} /\ timers' # {}
    BY <1>2 DEF SZ!Resize, SZ!ViewSizes, ClaimInv, ClaimTypes
  <2> QED BY <2>1, <2>2 DEF ClaimInv, ClaimTypes, Latest, Beaten, SZ!Owns
<1>3. CASE SZ!OtherClaims
  <2>1. UNCHANGED <<page, size, link, rendered, timers, lastClaim, way, window, beaten>>
    BY <1>3 DEF SZ!OtherClaims
  <2> QED BY <2>1 DEF ClaimInv, ClaimTypes, Latest, Beaten, SZ!Owns
<1>4. CASE SZ!Lost
  <2>1. /\ link' = [socket |-> "none", status |-> "connecting"] /\ lastClaim' = 0
        /\ way' = <<>> /\ UNCHANGED <<page, size, rendered, timers, window>>
    BY <1>4 DEF SZ!Lost, SZ!LeavesBehind, SZ!None
  <2>2. /\ link'.socket = "none"
        /\ link' \in [socket : {"none", "connecting", "open"}, status : {"connecting", "connected"}]
    BY <2>1
  <2>3. way' \in Seq(Nat)
    BY <2>1
  <2> QED BY <2>1, <2>2, <2>3 DEF ClaimInv, ClaimTypes
<1> QED BY <1>1, <1>2, <1>3, <1>4

\* The connection, the timers and the server.
LEMMA ViewSteps ==
  ASSUME ClaimInv,
         \/ SZ!Retries \/ SZ!Opens \/ SZ!FitTimer \/ SZ!PtyTimer \/ SZ!HandlesClaim
         \/ SZ!HandlesLate
  PROVE  ClaimInv'
<1>1. CASE SZ!Retries
  <2>1. /\ link.socket = "none" /\ rendered.shown
        /\ link' = [link EXCEPT !.socket = "connecting"]
        /\ UNCHANGED <<page, size, rendered, timers, lastClaim, way, window, beaten>>
    BY <1>1 DEF SZ!Retries, SZ!server
  <2>2. link'.socket = "connecting"
        /\ link' \in [socket : {"none", "connecting", "open"}, status : {"connecting", "connected"}]
    BY <2>1 DEF ClaimInv, ClaimTypes
  <2> QED BY <2>1, <2>2 DEF ClaimInv, ClaimTypes
<1>2. CASE SZ!Opens
  <2>1. /\ link.socket = "connecting" /\ link' = [socket |-> "open", status |-> "connected"]
        /\ UNCHANGED <<page, size, rendered, timers, lastClaim, window, beaten>>
        /\ SZ!Owns(rendered) => way' = Append(way, size)
        /\ ~SZ!Owns(rendered) => way' = way
    BY <1>2 DEF SZ!Opens, SZ!server
  <2>2. lastClaim = 0 /\ rendered.shown /\ ClaimTypes
    BY <2>1 DEF ClaimInv
  <2>3. way' \in Seq(Nat) /\ (SZ!Owns(rendered) => Latest' = size)
    BY <2>1, <2>2, Claimed DEF ClaimTypes
  <2>4. ClaimTypes'
    BY <2>1, <2>2, <2>3 DEF ClaimTypes
  <2> QED BY <2>1, <2>2, <2>3, <2>4 DEF ClaimInv, SZ!Owns
<1>3. CASE SZ!FitTimer
  <2>1. timers' = {"pty"} /\ UNCHANGED <<page, size, link, rendered, lastClaim, way, window, beaten>>
    BY <1>3 DEF SZ!FitTimer, SZ!server
  <2> QED BY <2>1 DEF ClaimInv, ClaimTypes, Latest, Beaten, SZ!Owns
<1>4. CASE SZ!PtyTimer
  <2>1. /\ timers' \subseteq timers /\ UNCHANGED <<page, size, link, rendered, window, beaten>>
        /\ IF SZ!Owns(rendered) THEN SZ!SendClaim(FALSE) ELSE UNCHANGED <<lastClaim, way>>
    BY <1>4 DEF SZ!PtyTimer, SZ!server
  <2>2. CASE way' = Append(way, size) /\ lastClaim' = size /\ link.socket = "open"
    <3>1. way' \in Seq(Nat) /\ Latest' = size
      BY <2>2, Claimed DEF ClaimInv
    <3> QED BY <2>1, <2>2, <3>1 DEF ClaimInv, ClaimTypes, SZ!Owns
  <2>3. CASE UNCHANGED <<lastClaim, way>>
    <3>1. SZ!Owns(rendered) /\ link.socket = "open" => lastClaim = size
      BY <2>1, <2>3 DEF SZ!SendClaim, ClaimInv, ClaimTypes
    <3>2. SZ!Owns(rendered) /\ link.socket = "open" =>
            (Latest' = size \/ Beaten') /\ lastClaim' = size
      BY <2>1, <2>3, <3>1 DEF ClaimInv, ClaimTypes, Latest, Beaten
    <3> QED BY <2>1, <2>3, <3>2 DEF ClaimInv, ClaimTypes, SZ!Owns
  <2> QED BY <2>1, <2>2, <2>3 DEF SZ!SendClaim
<1>5. CASE SZ!HandlesClaim
  <2>1. /\ way # <<>> /\ way' = Tail(way)
        /\ \/ window' = Head(way)
           \/ beaten' = (SZ!Owns(rendered) /\ link.socket = "open")
        /\ UNCHANGED <<page, size, link, rendered, timers, lastClaim>>
    BY <1>5 DEF SZ!HandlesClaim, SZ!Active
  <2>2. way \in Seq(Nat)
    BY DEF ClaimInv, ClaimTypes
  <2>3. /\ way' \in Seq(Nat) /\ Len(way') = Len(way) - 1 /\ Len(way) \in Nat \ {0}
        /\ Head(way) = way[1]
    BY <2>1, <2>2
  <2>4. /\ way' = <<>> <=> Len(way') = 0
        /\ \A i \in 1..Len(way') : way'[i] = way[i + 1]
    <3>1. way' = <<>> <=> Len(way') = 0
      <4>1. \A q \in Seq(Nat) : q = <<>> <=> Len(q) = 0
        OBVIOUS
      <4> QED BY <2>3, <4>1
    <3>2. \A i \in 1..Len(way') : way'[i] = way[i + 1]
      BY <2>1, <2>2, <2>3
    <3> QED BY <3>1, <3>2
  <2>5. SZ!Owns(rendered) /\ link.socket = "open" => Latest' = Latest \/ Beaten'
    <3>1. CASE Len(way) = 1 /\ window' = Head(way)
      BY <2>1, <2>3, <2>4, <3>1 DEF Latest
    <3>2. CASE Len(way) = 1 /\ beaten' = (SZ!Owns(rendered) /\ link.socket = "open")
      <4>1. way' = <<>>
        BY <2>3, <2>4, <3>2
      <4>2. beaten' <=> SZ!Owns(rendered) /\ link.socket = "open"
        BY <3>2
      <4> QED BY <4>1, <4>2 DEF Beaten
    <3>3. CASE Len(way) # 1
      <4>1. way'[Len(way')] = way[Len(way)]
        BY <2>3, <2>4, <3>3
      <4> QED BY <2>1, <2>3, <2>4, <3>3, <4>1 DEF Latest
    <3> QED BY <2>1, <3>1, <3>2, <3>3
  <2>6. ~Beaten
    BY <2>1 DEF Beaten
  <2>7. ClaimTypes'
    BY <2>1, <2>3 DEF ClaimInv, ClaimTypes
  <2> QED BY <2>1, <2>5, <2>6, <2>7 DEF ClaimInv, SZ!Owns
<1>6. CASE SZ!HandlesLate
  <2>1. /\ UNCHANGED <<page, size, link, rendered, timers, lastClaim, way>>
        /\ \/ UNCHANGED <<window, beaten>>
           \/ beaten' = (beaten \/ (SZ!Owns(rendered) /\ link.socket = "open"))
    BY <1>6 DEF SZ!HandlesLate, SZ!Active
  <2>2. ClaimTypes'
    BY <2>1 DEF ClaimInv, ClaimTypes
  <2>3. SZ!Owns(rendered) /\ link.socket = "open" =>
          (Latest' = Latest /\ (Beaten => Beaten')) \/ Beaten'
    BY <2>1 DEF Latest, Beaten
  <2> QED BY <2>1, <2>2, <2>3 DEF ClaimInv, SZ!Owns
<1> QED BY <1>1, <1>2, <1>3, <1>4, <1>5, <1>6

\* A commit: a view that becomes active claims, if it has a connection.
LEMMA CommitStep ==
  ASSUME ClaimInv, SZ!Commit
  PROVE  ClaimInv'
<1> DEFINE turned == SZ!Owns(rendered) # SZ!Owns(page)
           acts == SZ!Owns(page) /\ SZ!Now.connected
           hides == rendered.shown /\ ~page.shown
           appears == ~rendered.shown /\ page.shown
<1>1. /\ rendered' = SZ!Now /\ UNCHANGED <<page, size, window>>
      /\ timers' = (IF turned THEN {"fit"} ELSE timers)
      /\ link' = [link EXCEPT !.socket = IF hides THEN "none"
                                         ELSE IF appears THEN "connecting" ELSE @]
  BY DEF SZ!Commit
<1>2. IF hides THEN lastClaim' = 0 /\ way' = <<>>
      ELSE IF acts /\ (turned \/ ~rendered.connected) THEN SZ!SendClaim(TRUE)
      ELSE UNCHANGED <<lastClaim, way>>
  BY DEF SZ!Commit, SZ!ClaimOnActivation, SZ!LeavesBehind, SZ!None
<1>3. /\ rendered' \in [shown : BOOLEAN, focused : BOOLEAN, connected : BOOLEAN]
      /\ (rendered'.shown <=> page.shown) /\ (rendered'.focused <=> page.focused)
      /\ (SZ!Owns(rendered') <=> SZ!Owns(page))
      /\ (SZ!Now.connected <=> link.status = "connected")
  BY <1>1 DEF SZ!Now, SZ!Owns, ClaimInv, ClaimTypes
<1>4. /\ link' \in [socket : {"none", "connecting", "open"}, status : {"connecting", "connected"}]
      /\ link'.status = link.status
      /\ hides => link'.socket = "none"
      /\ appears => link'.socket = "connecting"
      /\ ~hides /\ ~appears => link'.socket = link.socket
  BY <1>1 DEF ClaimInv, ClaimTypes
<1>5. timers' \subseteq {"fit", "pty"} /\ (turned => timers' # {}) /\ (~turned => timers' = timers)
  BY <1>1 DEF ClaimInv, ClaimTypes
<1>b. SZ!Owns(page) => (beaten' <=> beaten)
  BY DEF SZ!Commit
<1>6. CASE way' = Append(way, size) /\ lastClaim' = size /\ link.socket = "open" /\ ~hides
  <2>1. way' \in Seq(Nat) /\ Latest' = size
    BY <1>6, Claimed DEF ClaimInv
  <2>2. ~appears
    BY <1>6 DEF ClaimInv
  <2> HIDE DEF turned, acts, hides, appears
  <2>3. ClaimTypes'
    BY <1>1, <1>3, <1>4, <1>5, <2>1 DEF ClaimInv, ClaimTypes
  <2>4. link'.socket = "open" /\ link'.status = "connected" /\ rendered'.shown
    BY <1>3, <1>4, <1>6, <2>2 DEF ClaimInv, hides
  <2> QED BY <1>1, <1>6, <2>1, <2>3, <2>4 DEF ClaimInv
<1>7. CASE /\ way' = way \/ (hides /\ way' = <<>>)
           /\ (lastClaim' = 0 \/ (~hides /\ lastClaim' = lastClaim))
           /\ (SZ!Owns(rendered') /\ link'.socket = "open" => ~turned /\ lastClaim' = lastClaim)
  <2>1. ClaimTypes'
    <3>1. way' \in Seq(Nat)
      <4>1. way \in Seq(Nat) /\ <<>> \in Seq(Nat)
        BY DEF ClaimInv, ClaimTypes
      <4>2. way' \in {way, <<>>}
        BY <1>7
      <4> QED BY <4>1, <4>2
    <3> QED BY <1>1, <1>3, <1>4, <1>5, <3>1 DEF ClaimInv, ClaimTypes
  <2>2. link'.socket = "open" => link'.status = "connected"
    BY <1>4 DEF ClaimInv
  <2>3. link'.socket # "none" => rendered'.shown
    BY <1>3, <1>4 DEF ClaimInv
  <2>4. lastClaim' # 0 => link'.socket = "open"
    BY <1>4, <1>7 DEF ClaimInv
  <2>5. SZ!Owns(rendered') /\ link'.socket = "open" =>
          /\ lastClaim' # 0 => Latest' = lastClaim' \/ Beaten'
          /\ Latest' = size' \/ Beaten' \/ timers' # {}
    <3> SUFFICES ASSUME SZ!Owns(rendered'), link'.socket = "open"
                 PROVE  /\ lastClaim' # 0 => Latest' = lastClaim' \/ Beaten'
                        /\ Latest' = size' \/ Beaten' \/ timers' # {}
      OBVIOUS
    <3>2. ~turned /\ lastClaim' = lastClaim /\ SZ!Owns(page) /\ SZ!Owns(rendered)
      BY <1>3, <1>7
    <3>3. link.socket = "open"
      BY <1>4
    <3>4. way' = way
      BY <1>7, <3>2 DEF SZ!Owns
    <3>5. Latest' = Latest /\ (Beaten' <=> Beaten)
      BY <1>1, <1>b, <3>2, <3>4 DEF Latest, Beaten
    <3> QED BY <1>1, <1>5, <3>2, <3>3, <3>5 DEF ClaimInv
  <2> QED BY <2>1, <2>2, <2>3, <2>4, <2>5 DEF ClaimInv
<1>8. CASE hides
  <2>1. ~SZ!Owns(rendered')
    BY <1>3, <1>8 DEF SZ!Owns
  <2> QED BY <1>2, <1>7, <1>8, <2>1
<1>9. CASE ~hides /\ acts /\ (turned \/ ~rendered.connected)
  <2>1. SZ!SendClaim(TRUE)
    BY <1>2, <1>9
  <2>2. CASE link.socket = "open"
    BY <1>6, <1>9, <2>1, <2>2 DEF SZ!SendClaim
  <2>3. CASE link.socket # "open"
    <3>1. UNCHANGED <<lastClaim, way>> /\ link'.socket # "open"
      BY <1>4, <1>9, <2>1, <2>3 DEF SZ!SendClaim
    <3> QED BY <1>7, <1>9, <3>1
  <2> QED BY <2>2, <2>3
<1>10. CASE ~hides /\ ~(acts /\ (turned \/ ~rendered.connected))
  <2>1. UNCHANGED <<lastClaim, way>>
    BY <1>2, <1>10
  <2>2. SZ!Owns(rendered') /\ link'.socket = "open" => ~turned
    <3> SUFFICES ASSUME SZ!Owns(page), link'.socket = "open", turned PROVE FALSE
      BY <1>3
    <3>1. link.socket = "open" /\ link.status = "connected"
      BY <1>4 DEF ClaimInv
    <3> QED BY <1>3, <1>10, <3>1
  <2> QED BY <1>7, <1>10, <2>1, <2>2
<1> QED BY <1>8, <1>9, <1>10

\* A step of the browser is one of the view's or leaves it; every step keeps the
\* invariant.
LEMMA ClaimLift ==
  /\ BrowserInit => ClaimInv
  /\ [BrowserNext]_BrowserVars => [SZ!Next]_(SZ!vars)
  /\ ClaimInv /\ [SZ!Next]_(SZ!vars) => ClaimInv'
<1>1. BrowserInit => ClaimInv
  <2> SUFFICES ASSUME SZ!Init PROVE ClaimInv
    BY DEF BrowserInit
  <2> QED BY DEF SZ!Init, ClaimInv, ClaimTypes, SZ!Owns, SZ!None
<1>2. [BrowserNext]_BrowserVars => [SZ!Next]_(SZ!vars)
  BY DEF BrowserNext, BrowserVars, sizes, SZ!vars
<1>3. ClaimInv /\ UNCHANGED SZ!vars => ClaimInv'
  BY DEF SZ!vars, ClaimInv, ClaimTypes, Latest, Beaten, SZ!Owns
<1> QED BY <1>1, <1>2, <1>3, OutsideSteps, ViewSteps, CommitStep DEF SZ!Next

\* For any sizes and any order of focus, visibility, sizes, connections and claims, sent
\* or handled: an active, connected view at rest has the window at its size, unless
\* another connection's claim was handled, or its own refused, while it was active.
THEOREM WindowHasItsSize == BrowserSpec => []ActiveViewSizes
<1>1. ClaimInv => ActiveViewSizes
  BY DEF ClaimInv, ActiveViewSizes, SZ!ActiveViewSizes, SZ!Rests, SZ!Now, SZ!Owns, Latest,
         Beaten
<1> QED BY <1>1, ClaimLift, PTL DEF BrowserSpec

-------------------------------------------------------------------------------
(***************************************************************************)
(* Compose: what the user left in the field stays the draft until it got   *)
(* there.                                                                  *)
(***************************************************************************)

\* A commit under way, and a view with its handle.
Commit == [text : Nat \ {0}, action : {"insert", "send"}, at : {"queued", "halfway"},
           head : BOOLEAN, latest : BOOLEAN, same : BOOLEAN, alive : BOOLEAN, here : BOOLEAN]
\* What a view was rendered from.
Pane == [status : {"connecting", "connected"}, socket : {"none", "opening", "open"},
         mounted : BOOLEAN, said : {"connecting", "connected"}]

\* The parts of the state, with the texts: none is newer than the last.
ComposeTypes ==
  /\ drafts \in [Sessions -> Nat] /\ typed \in [Sessions -> Nat] /\ arrived \in [Sessions -> Nat]
  /\ commit \in [Sessions -> {CO!NoCommit} \cup Commit]
  /\ field \in [session : Sessions, value : Nat, busy : BOOLEAN]
  /\ view \in [Sessions -> Pane]
  /\ texts \in Nat
  /\ \A s \in Sessions : drafts[s] <= texts /\ typed[s] <= texts /\ commit[s].text <= texts

\* A text is one session's.
TextsApart ==
  \A r, s \in Sessions : r # s =>
    \A x \in {typed[r], commit[r].text} : x \in {typed[s], commit[s].text} => x = 0

\* A commit of the latest text is of the draft; while one is pending the draft is what
\* was typed; a draft that was cleared got there, or went with a socket nobody noticed.
DraftOf(c, d, t, a, un) ==
  /\ c # CO!NoCommit => d = t
  /\ c # CO!NoCommit /\ c.latest => d = c.text
  /\ d # t => d = 0 /\ (a = t \/ t \in un)

\* A paste whose view still has the handle it began with goes over an open socket, all
\* of it, unless that socket went and nobody noticed.
CarriedBy(c, v, un) ==
  c # CO!NoCommit /\ c.same /\ v.mounted /\ v.said = "connected" /\ c.text \notin un
    => v.socket = "open" /\ c.alive /\ (c.at = "halfway" => c.head)

\* The inductive invariant.
ComposeInv ==
  /\ ComposeTypes
  /\ field.value = drafts[field.session]
  /\ TextsApart
  /\ \A s \in Sessions :
       DraftOf(commit[s], drafts[s], typed[s], arrived[s], unnoticed)
  /\ \A s \in Sessions : CarriedBy(commit[s], view[s], unnoticed)

\* One session moves, and with it at most what is known of its own texts: the draft, what
\* was typed and what arrived, its commit and its view are d, t, a, c and v from now on,
\* and x may go out of the texts that were lost unnoticed.
Moved(s, d, t, a, c, v, x) ==
  /\ d \in Nat /\ t \in Nat /\ a \in Nat /\ c \in {CO!NoCommit} \cup Commit /\ v \in Pane
  /\ drafts' = [drafts EXCEPT ![s] = d] /\ typed' = [typed EXCEPT ![s] = t]
  /\ arrived' = [arrived EXCEPT ![s] = a] /\ commit' = [commit EXCEPT ![s] = c]
  /\ view' = [view EXCEPT ![s] = v]
  /\ texts' \in Nat /\ texts <= texts' /\ d <= texts' /\ t <= texts' /\ c.text <= texts'
  /\ \A y \in {t, c.text, x} : y \in {0, typed[s], commit[s].text} \/ y > texts
  /\ unnoticed \ {x} \subseteq unnoticed'
  /\ DraftOf(c, d, t, a, unnoticed') /\ CarriedBy(c, v, unnoticed')
  /\ field' \in [session : Sessions, value : Nat, busy : BOOLEAN]
  /\ field'.value = drafts'[field'.session]

\* Such a move keeps the invariant.
LEMMA ComposeMoves ==
  ASSUME ComposeInv, NEW s \in Sessions, NEW d, NEW t, NEW a, NEW c, NEW v, NEW x,
         Moved(s, d, t, a, c, v, x)
  PROVE  ComposeInv'
<1> USE DEF Moved
<1>1. /\ drafts' \in [Sessions -> Nat] /\ typed' \in [Sessions -> Nat]
      /\ arrived' \in [Sessions -> Nat] /\ view' \in [Sessions -> Pane]
      /\ commit' \in [Sessions -> {CO!NoCommit} \cup Commit]
      /\ drafts'[s] = d /\ typed'[s] = t /\ arrived'[s] = a /\ commit'[s] = c /\ view'[s] = v
      /\ \A r \in Sessions \ {s} : /\ drafts'[r] = drafts[r] /\ typed'[r] = typed[r]
                                  /\ arrived'[r] = arrived[r] /\ commit'[r] = commit[r]
                                  /\ view'[r] = view[r]
  BY DEF ComposeInv, ComposeTypes
<1>2. \A r \in Sessions : /\ commit[r].text \in Nat /\ commit[r].text <= texts
                         /\ (commit[r] # CO!NoCommit => commit[r].text # 0)
                         /\ typed[r] \in Nat /\ typed[r] <= texts
                         /\ drafts[r] \in Nat /\ drafts[r] <= texts
  <2> SUFFICES ASSUME NEW r \in Sessions
               PROVE  /\ commit[r].text \in Nat /\ commit[r].text <= texts
                      /\ (commit[r] # CO!NoCommit => commit[r].text # 0)
                      /\ typed[r] \in Nat /\ typed[r] <= texts
                      /\ drafts[r] \in Nat /\ drafts[r] <= texts
    OBVIOUS
  <2>1. commit[r] \in {CO!NoCommit} \cup Commit
    BY DEF ComposeInv, ComposeTypes
  <2>2. commit[r].text \in Nat /\ (commit[r] # CO!NoCommit => commit[r].text # 0)
    BY <2>1 DEF Commit, CO!NoCommit
  <2> QED BY <2>2 DEF ComposeInv, ComposeTypes
<1>3. texts \in Nat
  BY DEF ComposeInv, ComposeTypes
<1>4. ComposeTypes'
  <2>1. \A r \in Sessions : drafts'[r] <= texts' /\ typed'[r] <= texts' /\ commit'[r].text <= texts'
    <3> SUFFICES ASSUME NEW r \in Sessions
                 PROVE  drafts'[r] <= texts' /\ typed'[r] <= texts' /\ commit'[r].text <= texts'
      OBVIOUS
    <3>1. CASE r = s
      BY <1>1, <3>1
    <3>2. CASE r # s
      BY <1>1, <1>2, <1>3, <3>2
    <3> QED BY <3>1, <3>2
  <2> QED BY <1>1, <2>1 DEF ComposeTypes
<1>5. ASSUME NEW r \in Sessions \ {s}, NEW y \in {t, c.text, x}, y \in {typed[r], commit[r].text}
      PROVE  y = 0
  <2>1. ~(y > texts)
    BY <1>2, <1>3, <1>5
  <2>2. y \in {0, typed[s], commit[s].text}
    BY <1>5, <2>1
  <2> QED BY <1>5, <2>2 DEF ComposeInv, TextsApart
<1>6. TextsApart'
  <2> SUFFICES ASSUME NEW p \in Sessions, NEW r \in Sessions, p # r,
                      NEW y \in {typed'[p], commit'[p].text}, y \in {typed'[r], commit'[r].text}
               PROVE  y = 0
    BY DEF TextsApart
  <2>1. CASE p = s
    BY <1>1, <1>5, <2>1
  <2>2. CASE r = s
    BY <1>1, <1>5, <2>2
  <2>3. CASE p # s /\ r # s
    BY <1>1, <2>3 DEF ComposeInv, TextsApart
  <2> QED BY <2>1, <2>2, <2>3
<1>7. ASSUME NEW r \in Sessions
      PROVE  DraftOf(commit'[r], drafts'[r], typed'[r], arrived'[r], unnoticed')
  <2>1. CASE r = s
    BY <1>1, <2>1
  <2>2. CASE r # s
    <3>1. DraftOf(commit[r], drafts[r], typed[r], arrived[r], unnoticed)
      BY DEF ComposeInv
    <3>2. typed[r] # 0 => typed[r] # x
      BY <1>5, <2>2
    <3>3. DraftOf(commit[r], drafts[r], typed[r], arrived[r], unnoticed')
      BY <3>1, <3>2 DEF DraftOf
    <3> QED BY <1>1, <2>2, <3>3
  <2> QED BY <2>1, <2>2
<1>8. ASSUME NEW r \in Sessions
      PROVE  CarriedBy(commit'[r], view'[r], unnoticed')
  <2>1. CASE r = s
    BY <1>1, <2>1
  <2>2. CASE r # s
    <3>1. CarriedBy(commit[r], view[r], unnoticed)
      BY DEF ComposeInv
    <3>2. commit[r] # CO!NoCommit => commit[r].text # x
      BY <1>2, <1>5, <2>2
    <3>3. CarriedBy(commit[r], view[r], unnoticed')
      BY <3>1, <3>2 DEF CarriedBy
    <3> QED BY <1>1, <2>2, <3>3
  <2> QED BY <2>1, <2>2
<1> QED BY <1>4, <1>6, <1>7, <1>8 DEF ComposeInv

\* What is known of one session.
LEMMA ComposeOf ==
  ASSUME ComposeInv, NEW s \in Sessions
  PROVE  /\ drafts[s] \in Nat /\ typed[s] \in Nat /\ arrived[s] \in Nat /\ texts \in Nat
         /\ commit[s] \in {CO!NoCommit} \cup Commit /\ view[s] \in Pane
         /\ commit[s].text \in Nat
         /\ drafts[s] <= texts /\ typed[s] <= texts /\ commit[s].text <= texts
         /\ DraftOf(commit[s], drafts[s], typed[s], arrived[s], unnoticed)
         /\ CarriedBy(commit[s], view[s], unnoticed)
         /\ drafts = [drafts EXCEPT ![s] = drafts[s]] /\ typed = [typed EXCEPT ![s] = typed[s]]
         /\ arrived = [arrived EXCEPT ![s] = arrived[s]]
         /\ commit = [commit EXCEPT ![s] = commit[s]] /\ view = [view EXCEPT ![s] = view[s]]
         /\ CO!NoCommit.text = 0 /\ (CO!Pending(s) <=> commit[s] # CO!NoCommit)
<1>1. commit[s] \in {CO!NoCommit} \cup Commit /\ CO!NoCommit.text = 0
  BY DEF ComposeInv, ComposeTypes, CO!NoCommit
<1>2. commit[s].text \in Nat
  BY <1>1 DEF Commit
<1>3. /\ drafts = [drafts EXCEPT ![s] = drafts[s]] /\ typed = [typed EXCEPT ![s] = typed[s]]
      /\ arrived = [arrived EXCEPT ![s] = arrived[s]]
      /\ commit = [commit EXCEPT ![s] = commit[s]] /\ view = [view EXCEPT ![s] = view[s]]
  BY DEF ComposeInv, ComposeTypes
<1> QED BY <1>1, <1>2, <1>3 DEF ComposeInv, ComposeTypes, CO!Pending

\* A commit is told something: a flag of it changes.
LEMMA CommitFlags ==
  ASSUME NEW c \in Commit, NEW b \in BOOLEAN, NEW e \in BOOLEAN
  PROVE  /\ [c EXCEPT !.latest = FALSE] \in Commit
         /\ [c EXCEPT !.latest = FALSE].text = c.text
         /\ ~[c EXCEPT !.latest = FALSE].latest
         /\ \A v, un : CarriedBy(c, v, un) => CarriedBy([c EXCEPT !.latest = FALSE], v, un)
         /\ [c EXCEPT !.at = "halfway", !.head = b] \in Commit
         /\ [c EXCEPT !.at = "halfway", !.head = b].text = c.text
         /\ ([c EXCEPT !.at = "halfway", !.head = b].latest <=> c.latest)
         /\ ([c EXCEPT !.at = "halfway", !.head = b].same <=> c.same)
         /\ ([c EXCEPT !.at = "halfway", !.head = b].alive <=> c.alive)
         /\ ([c EXCEPT !.at = "halfway", !.head = b].head <=> b)
         /\ [c EXCEPT !.head = FALSE] \in Commit
         /\ [c EXCEPT !.head = FALSE].text = c.text
         /\ ([c EXCEPT !.head = FALSE].latest <=> c.latest)
         /\ ([c EXCEPT !.head = FALSE].same <=> c.same)
         /\ [c EXCEPT !.same = FALSE, !.alive = b, !.head = e] \in Commit
         /\ [c EXCEPT !.same = FALSE, !.alive = b, !.head = e].text = c.text
         /\ ([c EXCEPT !.same = FALSE, !.alive = b, !.head = e].latest <=> c.latest)
         /\ ~[c EXCEPT !.same = FALSE, !.alive = b, !.head = e].same
<1>1. CO!NoCommit \notin Commit
  BY DEF CO!NoCommit, Commit
<1>2. /\ [c EXCEPT !.latest = FALSE] \in Commit
      /\ [c EXCEPT !.latest = FALSE].text = c.text
      /\ ~[c EXCEPT !.latest = FALSE].latest
      /\ \A v, un : CarriedBy(c, v, un) => CarriedBy([c EXCEPT !.latest = FALSE], v, un)
  <2> DEFINE x == [c EXCEPT !.latest = FALSE]
  <2>1. /\ x \in Commit /\ x.text = c.text /\ ~x.latest /\ (x.same <=> c.same)
        /\ (x.alive <=> c.alive) /\ (x.head <=> c.head) /\ x.at = c.at
    BY DEF Commit
  <2> HIDE DEF x
  <2>2. \A v, un : CarriedBy(c, v, un) => CarriedBy(x, v, un)
    BY <1>1, <2>1 DEF CarriedBy
  <2> QED BY <2>1, <2>2 DEF x
<1>3. /\ [c EXCEPT !.at = "halfway", !.head = b] \in Commit
      /\ [c EXCEPT !.at = "halfway", !.head = b].text = c.text
      /\ ([c EXCEPT !.at = "halfway", !.head = b].latest <=> c.latest)
      /\ ([c EXCEPT !.at = "halfway", !.head = b].same <=> c.same)
      /\ ([c EXCEPT !.at = "halfway", !.head = b].alive <=> c.alive)
      /\ ([c EXCEPT !.at = "halfway", !.head = b].head <=> b)
  BY DEF Commit
<1>4. /\ [c EXCEPT !.head = FALSE] \in Commit
      /\ [c EXCEPT !.head = FALSE].text = c.text
      /\ ([c EXCEPT !.head = FALSE].latest <=> c.latest)
      /\ ([c EXCEPT !.head = FALSE].same <=> c.same)
  BY DEF Commit
<1>5. /\ [c EXCEPT !.same = FALSE, !.alive = b, !.head = e] \in Commit
      /\ [c EXCEPT !.same = FALSE, !.alive = b, !.head = e].text = c.text
      /\ ([c EXCEPT !.same = FALSE, !.alive = b, !.head = e].latest <=> c.latest)
      /\ ~[c EXCEPT !.same = FALSE, !.alive = b, !.head = e].same
  BY DEF Commit
<1> QED BY <1>2, <1>3, <1>4, <1>5

\* The field's value is the draft, and once there is one, what was typed.
LEMMA FieldOf ==
  ASSUME ComposeInv
  PROVE  /\ field \in [session : Sessions, value : Nat, busy : BOOLEAN]
         /\ field.session \in Sessions /\ field.value \in Nat /\ field.busy \in BOOLEAN
         /\ field.value = drafts[field.session]
  BY DEF ComposeInv, ComposeTypes

\* The user types: a text of its own, or none; a commit under way is of an older one.
LEMMA TypeStep ==
  ASSUME ComposeInv, NEW text \in 0..MaxTexts, CO!Type(text)
  PROVE  ComposeInv'
<1> DEFINE s == field.session
           c == IF CO!Pending(s) THEN [commit[s] EXCEPT !.latest = FALSE] ELSE CO!NoCommit
<1>1. s \in Sessions /\ field \in [session : Sessions, value : Nat, busy : BOOLEAN]
  BY FieldOf
<1>2. /\ drafts[s] \in Nat /\ typed[s] \in Nat /\ arrived[s] \in Nat /\ texts \in Nat
      /\ commit[s] \in {CO!NoCommit} \cup Commit /\ view[s] \in Pane
      /\ commit[s].text \in Nat /\ commit[s].text <= texts
      /\ CarriedBy(commit[s], view[s], unnoticed)
      /\ arrived = [arrived EXCEPT ![s] = arrived[s]]
      /\ commit = [commit EXCEPT ![s] = commit[s]] /\ view = [view EXCEPT ![s] = view[s]]
      /\ CO!NoCommit.text = 0 /\ (CO!Pending(s) <=> commit[s] # CO!NoCommit)
  BY <1>1, ComposeOf
<1>3. /\ text \in Nat /\ texts' = texts + 1 /\ (text = 0 \/ text = texts + 1)
      /\ field' = [field EXCEPT !.value = text]
      /\ drafts' = [drafts EXCEPT ![s] = text] /\ typed' = [typed EXCEPT ![s] = text]
      /\ commit' = IF CO!Pending(s) THEN [commit EXCEPT ![s].latest = FALSE] ELSE commit
      /\ view' = view /\ arrived' = arrived /\ unnoticed' = unnoticed
  BY DEF CO!Type, CO!SaveDraft
<1>4. /\ c \in {CO!NoCommit} \cup Commit /\ c.text = commit[s].text
      /\ CarriedBy(c, view[s], unnoticed)
      /\ (c # CO!NoCommit => ~c.latest)
  <2>1. CASE CO!Pending(s)
    <3>1. commit[s] \in Commit /\ c = [commit[s] EXCEPT !.latest = FALSE] /\ TRUE \in BOOLEAN
      BY <1>2, <2>1
    <3> HIDE DEF c
    <3>2. /\ c \in Commit /\ c.text = commit[s].text /\ ~c.latest
          /\ \A v, un : CarriedBy(commit[s], v, un) => CarriedBy(c, v, un)
      BY <3>1, CommitFlags
    <3> QED BY <1>2, <3>2
  <2>2. CASE ~CO!Pending(s)
    BY <1>2, <2>2
  <2> QED BY <2>1, <2>2
<1>5. commit' = [commit EXCEPT ![s] = c]
  BY <1>2, <1>3
<1> HIDE DEF c
<1>6. DraftOf(c, text, text, arrived[s], unnoticed') /\ CarriedBy(c, view[s], unnoticed')
  BY <1>3, <1>4 DEF DraftOf
<1>7. drafts'[s] = text
  BY <1>1, <1>3 DEF ComposeInv, ComposeTypes
<1>8. field' \in [session : Sessions, value : Nat, busy : BOOLEAN] /\ field'.value = drafts'[field'.session]
  BY <1>1, <1>3, <1>7
<1> HIDE DEF s
<1>9. /\ texts' \in Nat /\ texts <= texts' /\ text <= texts' /\ c.text <= texts'
      /\ \A y \in {text, c.text, 0} : y \in {0, typed[s], commit[s].text} \/ y > texts
  BY <1>2, <1>3, <1>4
<1>10. /\ text \in Nat /\ arrived[s] \in Nat /\ c \in {CO!NoCommit} \cup Commit
      /\ view[s] \in Pane
      /\ drafts' = [drafts EXCEPT ![s] = text] /\ typed' = [typed EXCEPT ![s] = text]
      /\ arrived' = [arrived EXCEPT ![s] = arrived[s]] /\ view' = [view EXCEPT ![s] = view[s]]
      /\ unnoticed \ {0} \subseteq unnoticed'
  BY <1>2, <1>3, <1>4
<1>11. Moved(s, text, text, arrived[s], c, view[s], 0)
  BY <1>5, <1>6, <1>8, <1>9, <1>10 DEF Moved
<1> QED BY <1>1, <1>11, ComposeMoves

\* The user submits: the text is the draft, and what the socket will not take is known
\* to have gone unnoticed.
LEMMA SubmitStep ==
  ASSUME ComposeInv, NEW text \in 0..MaxTexts, NEW action \in {"insert", "send"},
         CO!Submit(action, text)
  PROVE  ComposeInv'
<1> DEFINE s == field.session
           k == [text |-> text, action |-> action, at |-> "queued", head |-> FALSE,
                 latest |-> TRUE, same |-> TRUE, alive |-> TRUE, here |-> TRUE]
           c == IF view[s].mounted THEN k ELSE CO!NoCommit
<1>1. /\ s \in Sessions /\ field \in [session : Sessions, value : Nat, busy : BOOLEAN]
      /\ field.value = drafts[s]
  BY FieldOf
<1>2. /\ drafts[s] \in Nat /\ typed[s] \in Nat /\ arrived[s] \in Nat /\ texts \in Nat
      /\ commit[s] \in {CO!NoCommit} \cup Commit /\ view[s] \in Pane
      /\ drafts[s] <= texts
      /\ DraftOf(commit[s], drafts[s], typed[s], arrived[s], unnoticed)
      /\ arrived = [arrived EXCEPT ![s] = arrived[s]]
      /\ commit = [commit EXCEPT ![s] = commit[s]] /\ view = [view EXCEPT ![s] = view[s]]
      /\ CO!NoCommit.text = 0 /\ (CO!Pending(s) <=> commit[s] # CO!NoCommit)
  BY <1>1, ComposeOf
<1>3. /\ text \in Nat /\ field.value # 0 /\ ~CO!Pending(s)
      /\ (text = field.value /\ texts' = texts) \/ (text = texts + 1 /\ texts' = text)
      /\ field' = [field EXCEPT !.value = text, !.busy = view[s].mounted]
      /\ drafts' = [drafts EXCEPT ![s] = text] /\ typed' = [typed EXCEPT ![s] = text]
      /\ commit' = IF ~view[s].mounted THEN commit ELSE [commit EXCEPT ![s] = k]
      /\ unnoticed' = IF view[s].mounted /\ view[s].socket # "open"
                      THEN unnoticed \cup {text} ELSE unnoticed \ {text}
      /\ view' = view /\ arrived' = arrived
  BY DEF CO!Submit
<1>4. /\ text # 0 /\ texts' \in Nat /\ texts <= texts' /\ text <= texts'
      /\ (text = typed[s] \/ text > texts)
  BY <1>1, <1>2, <1>3 DEF DraftOf
<1>5. view[s].mounted \in BOOLEAN
  BY <1>2 DEF Pane
<1>6. /\ k \in Commit /\ k.text = text /\ k.alive /\ k.at = "queued"
  BY <1>3, <1>4 DEF Commit
<1>7. commit' = [commit EXCEPT ![s] = c]
  BY <1>2, <1>3
<1>8. c \in {CO!NoCommit} \cup Commit /\ c.text \in {0, text} /\ (c # CO!NoCommit => c.text = text)
  BY <1>2, <1>5, <1>6
<1>9. CarriedBy(c, view[s], unnoticed')
  <2>1. CASE view[s].mounted
    <3>1. c = k
      BY <2>1
    <3>2. text \notin unnoticed' => view[s].socket = "open"
      BY <1>3, <2>1
    <3> HIDE DEF k, c
    <3> QED BY <1>6, <3>1, <3>2 DEF CarriedBy
  <2>2. CASE ~view[s].mounted
    BY <2>2 DEF CarriedBy
  <2> QED BY <2>1, <2>2
<1> HIDE DEF k, c
<1>10. DraftOf(c, text, text, arrived[s], unnoticed')
  BY <1>8 DEF DraftOf
<1>11. drafts'[s] = text
  BY <1>1, <1>3 DEF ComposeInv, ComposeTypes
<1>12. field' \in [session : Sessions, value : Nat, busy : BOOLEAN] /\ field'.value = drafts'[field'.session]
  BY <1>1, <1>3, <1>5, <1>11
<1> HIDE DEF s
<1>13. /\ texts' \in Nat /\ texts <= texts' /\ text <= texts' /\ c.text <= texts'
      /\ \A y \in {text, c.text, text} : y \in {0, typed[s], commit[s].text} \/ y > texts
  BY <1>4, <1>8
<1>14. /\ text \in Nat /\ arrived[s] \in Nat /\ c \in {CO!NoCommit} \cup Commit
      /\ view[s] \in Pane
      /\ drafts' = [drafts EXCEPT ![s] = text] /\ typed' = [typed EXCEPT ![s] = text]
      /\ arrived' = [arrived EXCEPT ![s] = arrived[s]] /\ view' = [view EXCEPT ![s] = view[s]]
      /\ unnoticed \ {text} \subseteq unnoticed'
  BY <1>2, <1>3, <1>8
<1>15. Moved(s, text, text, arrived[s], c, view[s], text)
  BY <1>7, <1>9, <1>10, <1>12, <1>13, <1>14 DEF Moved
<1> QED BY <1>1, <1>15, ComposeMoves

\* A view and the commit through it change, and no text with them: nobody's draft does.
LEMMA ViewMoves ==
  ASSUME ComposeInv, NEW s \in Sessions, NEW c \in {CO!NoCommit} \cup Commit, NEW v \in Pane,
         NEW x \in {0, commit[s].text},
         c.text = commit[s].text, c # CO!NoCommit => commit[s] # CO!NoCommit,
         c # CO!NoCommit /\ c.latest => commit[s].latest,
         commit' = [commit EXCEPT ![s] = c], view' = [view EXCEPT ![s] = v],
         unnoticed \ {x} \subseteq unnoticed', CarriedBy(c, v, unnoticed'),
         UNCHANGED <<drafts, typed, arrived, field, texts>>
  PROVE  ComposeInv'
<1>1. /\ drafts[s] \in Nat /\ typed[s] \in Nat /\ arrived[s] \in Nat /\ texts \in Nat
      /\ commit[s] \in {CO!NoCommit} \cup Commit
      /\ drafts[s] <= texts /\ typed[s] <= texts /\ commit[s].text <= texts
      /\ DraftOf(commit[s], drafts[s], typed[s], arrived[s], unnoticed)
      /\ drafts = [drafts EXCEPT ![s] = drafts[s]] /\ typed = [typed EXCEPT ![s] = typed[s]]
      /\ arrived = [arrived EXCEPT ![s] = arrived[s]]
      /\ CO!NoCommit.text = 0
  BY ComposeOf
<1>2. /\ texts' \in Nat /\ texts <= texts' /\ drafts[s] <= texts' /\ typed[s] <= texts'
      /\ c.text <= texts'
      /\ \A y \in {typed[s], c.text, x} : y \in {0, typed[s], commit[s].text} \/ y > texts
  BY <1>1
<1>3. typed[s] \in unnoticed /\ drafts[s] # typed[s] => typed[s] \in unnoticed'
  <2>1. typed[s] \in unnoticed /\ drafts[s] # typed[s] => typed[s] # 0 /\ commit[s] = CO!NoCommit
    BY <1>1 DEF DraftOf
  <2> QED BY <1>1, <2>1
<1>4. DraftOf(c, drafts[s], typed[s], arrived[s], unnoticed')
  BY <1>1, <1>3 DEF DraftOf
<1>5. field' \in [session : Sessions, value : Nat, busy : BOOLEAN] /\ field'.value = drafts'[field'.session]
  BY FieldOf
<1>6. /\ drafts' = [drafts EXCEPT ![s] = drafts[s]] /\ typed' = [typed EXCEPT ![s] = typed[s]]
      /\ arrived' = [arrived EXCEPT ![s] = arrived[s]]
      /\ drafts[s] \in Nat /\ typed[s] \in Nat /\ arrived[s] \in Nat
  BY <1>1
<1>7. Moved(s, drafts[s], typed[s], arrived[s], c, v, x)
  BY <1>2, <1>4, <1>5, <1>6 DEF Moved
<1> QED BY <1>7, ComposeMoves

\* The parts of a view that changes.
LEMMA PaneParts ==
  ASSUME NEW v \in Pane, NEW b \in {"none", "opening", "open"},
         NEW k \in {"connecting", "connected"}
  PROVE  /\ v.status \in {"connecting", "connected"} /\ v.said \in {"connecting", "connected"}
         /\ [v EXCEPT !.socket = b, !.status = k] \in Pane
         /\ [v EXCEPT !.socket = b, !.status = k].said = v.said
         /\ ([v EXCEPT !.socket = b, !.status = k].mounted <=> v.mounted)
         /\ [v EXCEPT !.socket = b] \in Pane /\ [v EXCEPT !.socket = b].said = v.said
         /\ ([v EXCEPT !.socket = b].mounted <=> v.mounted)
         /\ [v EXCEPT !.said = k] \in Pane
         /\ [v EXCEPT !.mounted = FALSE, !.socket = b, !.status = k] \in Pane
         /\ [v EXCEPT !.mounted = TRUE, !.said = k, !.socket = b] \in Pane
         /\ [v EXCEPT !.mounted = TRUE, !.said = k, !.socket = b].said = k
  BY DEF Pane

\* A socket goes: a text under way through the handle that stays is known to be lost.
LEMMA SocketStep ==
  ASSUME ComposeInv, NEW s \in Sessions, NEW v \in Pane, view' = [view EXCEPT ![s] = v],
         CO!SocketGoes(s)
  PROVE  ComposeInv'
<1> DEFINE c == IF CO!Pending(s) THEN [commit[s] EXCEPT !.head = FALSE] ELSE CO!NoCommit
<1>1. /\ commit[s] \in {CO!NoCommit} \cup Commit
      /\ commit = [commit EXCEPT ![s] = commit[s]]
      /\ (CO!Pending(s) <=> commit[s] # CO!NoCommit)
  BY ComposeOf
<1>2. /\ commit' = IF CO!Pending(s) THEN [commit EXCEPT ![s].head = FALSE] ELSE commit
      /\ unnoticed' = IF CO!Pending(s) /\ commit[s].same THEN unnoticed \cup {commit[s].text}
                      ELSE unnoticed
      /\ UNCHANGED <<drafts, typed, arrived, field, texts>>
  BY DEF CO!SocketGoes, CO!draft
<1>3. commit' = [commit EXCEPT ![s] = c]
  BY <1>1, <1>2
<1>4. /\ c \in {CO!NoCommit} \cup Commit /\ c.text = commit[s].text
      /\ (c # CO!NoCommit => /\ commit[s] # CO!NoCommit
                             /\ (c.latest <=> commit[s].latest) /\ (c.same <=> commit[s].same))
  <2>1. CASE CO!Pending(s)
    <3>1. commit[s] \in Commit /\ c = [commit[s] EXCEPT !.head = FALSE] /\ TRUE \in BOOLEAN
      BY <1>1, <2>1
    <3> HIDE DEF c
    <3>2. /\ c \in Commit /\ c.text = commit[s].text
          /\ (c.latest <=> commit[s].latest) /\ (c.same <=> commit[s].same)
      BY <3>1, CommitFlags
    <3> QED BY <1>1, <2>1, <3>2
  <2>2. CASE ~CO!Pending(s)
    BY <1>1, <2>2
  <2> QED BY <2>1, <2>2
<1> HIDE DEF c
<1>5. CarriedBy(c, v, unnoticed')
  BY <1>1, <1>2, <1>4 DEF CarriedBy
<1>6. unnoticed \ {0} \subseteq unnoticed' /\ 0 \in {0, commit[s].text}
  BY <1>2
<1>7. (c # CO!NoCommit => commit[s] # CO!NoCommit) /\ (c # CO!NoCommit /\ c.latest => commit[s].latest)
  BY <1>4
<1>8. c \in {CO!NoCommit} \cup Commit /\ c.text = commit[s].text
  BY <1>4
<1>9. UNCHANGED <<drafts, typed, arrived, field, texts>>
  BY <1>2
<1> QED BY <1>3, <1>5, <1>6, <1>7, <1>8, <1>9, ViewMoves

\* A handle goes: what is under way is no longer of the handle that is there.
LEMMA HandleStep ==
  ASSUME ComposeInv, NEW s \in Sessions, NEW v \in Pane, view' = [view EXCEPT ![s] = v],
         NEW body \in BOOLEAN, CO!HandleGoes(s, body)
  PROVE  ComposeInv'
<1> DEFINE al == commit[s].alive /\ body
           he == commit[s].head /\ body
           c == IF CO!Pending(s)
                THEN [commit[s] EXCEPT !.same = FALSE, !.alive = al, !.head = he]
                ELSE CO!NoCommit
<1>1. /\ commit[s] \in {CO!NoCommit} \cup Commit
      /\ commit = [commit EXCEPT ![s] = commit[s]]
      /\ (CO!Pending(s) <=> commit[s] # CO!NoCommit)
      /\ commit \in [Sessions -> {CO!NoCommit} \cup Commit]
  BY ComposeOf DEF ComposeInv, ComposeTypes
<1>2. /\ commit' = IF ~CO!Pending(s) THEN commit
                   ELSE [commit EXCEPT ![s].same = FALSE, ![s].alive = @ /\ body,
                                       ![s].head = @ /\ body]
      /\ unnoticed' = unnoticed \ {commit[s].text}
      /\ UNCHANGED <<drafts, typed, arrived, field, texts>>
  BY DEF CO!HandleGoes, CO!draft
<1>3. commit' = [commit EXCEPT ![s] = c]
  <2>1. CASE ~CO!Pending(s)
    BY <1>1, <1>2, <2>1
  <2>2. CASE CO!Pending(s)
    <3>1. commit[s] \in Commit
      BY <1>1, <2>2
    <3>2. commit' = [commit EXCEPT ![s] = [commit[s] EXCEPT !.same = FALSE, !.alive = al, !.head = he]]
      BY <1>1, <1>2, <2>2, <3>1 DEF Commit
    <3> QED BY <2>2, <3>2
  <2> QED BY <2>1, <2>2
<1>4. /\ c \in {CO!NoCommit} \cup Commit /\ c.text = commit[s].text
      /\ (c # CO!NoCommit => /\ commit[s] # CO!NoCommit
                             /\ (c.latest <=> commit[s].latest) /\ ~c.same)
  <2>1. CASE CO!Pending(s)
    <3> HIDE DEF al, he
    <3>0. al \in BOOLEAN /\ he \in BOOLEAN
      BY <1>1, <2>1 DEF al, he
    <3>1. commit[s] \in Commit /\ c = [commit[s] EXCEPT !.same = FALSE, !.alive = al, !.head = he]
      BY <1>1, <2>1
    <3> HIDE DEF c
    <3>2. /\ c \in Commit /\ c.text = commit[s].text
          /\ (c.latest <=> commit[s].latest) /\ ~c.same
      BY <3>0, <3>1 DEF Commit
    <3> QED BY <1>1, <2>1, <3>2
  <2>2. CASE ~CO!Pending(s)
    BY <1>1, <2>2
  <2> QED BY <2>1, <2>2
<1> HIDE DEF c
<1>5. CarriedBy(c, v, unnoticed')
  BY <1>4 DEF CarriedBy
<1>6. unnoticed \ {commit[s].text} \subseteq unnoticed'
  BY <1>2
<1>7. (c # CO!NoCommit => commit[s] # CO!NoCommit) /\ (c # CO!NoCommit /\ c.latest => commit[s].latest)
  BY <1>4
<1>8. c \in {CO!NoCommit} \cup Commit /\ c.text = commit[s].text
  BY <1>4
<1>9. UNCHANGED <<drafts, typed, arrived, field, texts>>
  BY <1>2
<1> QED BY <1>3, <1>5, <1>6, <1>7, <1>8, <1>9, ViewMoves

\* A view comes back: nothing was carried by it.
LEMMA ComesBackStep ==
  ASSUME ComposeInv, NEW s \in Sessions, NEW v \in Pane, view' = [view EXCEPT ![s] = v],
         v.mounted /\ v.said = "connected" =>
           view[s].mounted /\ view[s].said = "connected" /\ view[s].socket # "open",
         UNCHANGED <<drafts, typed, arrived, field, texts, commit, unnoticed>>
  PROVE  ComposeInv'
<1>1. /\ commit[s] \in {CO!NoCommit} \cup Commit /\ CarriedBy(commit[s], view[s], unnoticed)
      /\ commit = [commit EXCEPT ![s] = commit[s]]
  BY ComposeOf
<1>2. CarriedBy(commit[s], v, unnoticed')
  BY <1>1 DEF CarriedBy
<1>3. commit' = [commit EXCEPT ![s] = commit[s]] /\ unnoticed \ {0} \subseteq unnoticed'
  BY <1>1
<1> QED BY <1>1, <1>2, <1>3, ViewMoves

\* What happens to views.
LEMMA ViewsStep ==
  ASSUME ComposeInv, CO!Views
  PROVE  ComposeInv'
<1>1. PICK s \in Sessions : \/ CO!Drops(s) \/ CO!Hides(s) \/ CO!Shows(s) \/ CO!Opens(s)
                            \/ CO!Renders(s) \/ CO!Leaves(s) \/ CO!Mounts(s)
  BY DEF CO!Views
<1>2. view[s] \in Pane /\ view \in [Sessions -> Pane]
  BY ComposeOf DEF ComposeInv, ComposeTypes
<1>3. CASE CO!Drops(s)
  <2>1. view' = [view EXCEPT ![s] = [view[s] EXCEPT !.socket = "opening", !.status = "connecting"]]
    BY <1>2, <1>3 DEF CO!Drops
  <2>2. [view[s] EXCEPT !.socket = "opening", !.status = "connecting"] \in Pane
    BY <1>2, PaneParts
  <2>3. CO!SocketGoes(s)
    BY <1>3 DEF CO!Drops
  <2> QED BY <2>1, <2>2, <2>3, SocketStep
<1>4. CASE CO!Hides(s)
  <2>1. view' = [view EXCEPT ![s] = [view[s] EXCEPT !.socket = "none"]]
    BY <1>2, <1>4 DEF CO!Hides
  <2>2. [view[s] EXCEPT !.socket = "none"] \in Pane
    BY <1>2 DEF Pane
  <2>3. CO!SocketGoes(s)
    BY <1>4 DEF CO!Hides
  <2> QED BY <2>1, <2>2, <2>3, SocketStep
<1>5. CASE CO!Shows(s)
  <2> DEFINE v == [view[s] EXCEPT !.socket = "opening"]
  <2>1. view' = [view EXCEPT ![s] = v] /\ view[s].socket = "none"
    BY <1>2, <1>5 DEF CO!Shows
  <2>2. v \in Pane /\ v.said = view[s].said /\ (v.mounted <=> view[s].mounted)
    BY <1>2 DEF Pane
  <2>3. UNCHANGED <<drafts, typed, arrived, field, texts, commit, unnoticed>>
    BY <1>5 DEF CO!Shows, CO!draft
  <2> HIDE DEF v
  <2>4. v.mounted /\ v.said = "connected" =>
          view[s].mounted /\ view[s].said = "connected" /\ view[s].socket # "open"
    BY <2>1, <2>2
  <2> QED BY <2>1, <2>2, <2>3, <2>4, ComesBackStep
<1>6. CASE CO!Opens(s)
  <2> DEFINE v == [view[s] EXCEPT !.socket = "open", !.status = "connected"]
  <2>1. view' = [view EXCEPT ![s] = v] /\ view[s].socket = "opening"
    BY <1>2, <1>6 DEF CO!Opens
  <2>2. v \in Pane /\ v.said = view[s].said /\ (v.mounted <=> view[s].mounted)
    BY <1>2, PaneParts
  <2>3. UNCHANGED <<drafts, typed, arrived, field, texts, commit, unnoticed>>
    BY <1>6 DEF CO!Opens, CO!draft
  <2> HIDE DEF v
  <2>4. v.mounted /\ v.said = "connected" =>
          view[s].mounted /\ view[s].said = "connected" /\ view[s].socket # "open"
    BY <2>1, <2>2
  <2> QED BY <2>1, <2>2, <2>3, <2>4, ComesBackStep
<1>7. CASE CO!Renders(s)
  <2> DEFINE v == [view[s] EXCEPT !.said = view[s].status]
  <2>1. view' = [view EXCEPT ![s] = v]
    BY <1>2, <1>7 DEF CO!Renders
  <2>2. v \in Pane
    BY <1>2 DEF Pane
  <2>3. CO!HandleGoes(s, TRUE) /\ TRUE \in BOOLEAN
    BY <1>7 DEF CO!Renders
  <2> QED BY <2>1, <2>2, <2>3, HandleStep
<1>8. CASE CO!Leaves(s)
  <2> DEFINE v == [view[s] EXCEPT !.mounted = FALSE, !.socket = "none", !.status = "connecting"]
  <2>1. view' = [view EXCEPT ![s] = v]
    BY <1>2, <1>8 DEF CO!Leaves
  <2>2. v \in Pane
    BY <1>2, PaneParts
  <2>3. CO!HandleGoes(s, FALSE) /\ FALSE \in BOOLEAN
    BY <1>8 DEF CO!Leaves
  <2> QED BY <2>1, <2>2, <2>3, HandleStep
<1>9. CASE CO!Mounts(s)
  <2> DEFINE v == [view[s] EXCEPT !.mounted = TRUE, !.said = "connecting", !.socket = "opening"]
  <2>1. view' = [view EXCEPT ![s] = v]
    BY <1>2, <1>9 DEF CO!Mounts
  <2>2. v \in Pane /\ v.said = "connecting"
    BY <1>2, PaneParts
  <2>3. UNCHANGED <<drafts, typed, arrived, field, texts, commit, unnoticed>>
    BY <1>9 DEF CO!Mounts, CO!draft
  <2> HIDE DEF v
  <2> QED BY <2>1, <2>2, <2>3, ComesBackStep
<1> QED BY <1>1, <1>3, <1>4, <1>5, <1>6, <1>7, <1>8, <1>9

\* A paste begins: its first chunk goes over the socket that is open, if one is.
LEMMA PasteBeginsStep ==
  ASSUME ComposeInv, NEW s \in Sessions, CO!PasteBegins(s)
  PROVE  ComposeInv'
<1> DEFINE b == CO!Carried(s)
           c == [commit[s] EXCEPT !.at = "halfway", !.head = b]
<1>1. /\ commit[s] \in {CO!NoCommit} \cup Commit /\ view[s] \in Pane
      /\ view = [view EXCEPT ![s] = view[s]]
      /\ CarriedBy(commit[s], view[s], unnoticed)
      /\ (CO!Pending(s) <=> commit[s] # CO!NoCommit)
      /\ commit \in [Sessions -> {CO!NoCommit} \cup Commit]
  BY ComposeOf DEF ComposeInv, ComposeTypes
<1>2. commit[s] \in Commit /\ commit[s] # CO!NoCommit /\ CO!NoCommit \notin Commit
  BY <1>1 DEF CO!PasteBegins, Commit, CO!NoCommit
<1>3. b \in BOOLEAN /\ (b <=> view[s].socket = "open" /\ commit[s].alive)
  BY <1>2 DEF CO!Carried, Commit
<1>4. commit' = [commit EXCEPT ![s] = c]
  BY <1>1 DEF CO!PasteBegins
<1>5. UNCHANGED <<drafts, typed, arrived, field, texts>> /\ view' = view /\ unnoticed' = unnoticed
  BY DEF CO!PasteBegins, CO!draft
<1> HIDE DEF b
<1>6. /\ c \in Commit /\ c.text = commit[s].text /\ (c.latest <=> commit[s].latest)
      /\ (c.same <=> commit[s].same) /\ (c.alive <=> commit[s].alive) /\ (c.head <=> b)
  BY <1>2, <1>3 DEF Commit
<1> HIDE DEF c
<1>7. CarriedBy(c, view[s], unnoticed')
  BY <1>1, <1>2, <1>3, <1>5, <1>6 DEF CarriedBy
<1>8. view' = [view EXCEPT ![s] = view[s]] /\ unnoticed \ {0} \subseteq unnoticed'
  BY <1>1, <1>5
<1>9. c \in {CO!NoCommit} \cup Commit /\ (c # CO!NoCommit /\ c.latest => commit[s].latest)
  BY <1>6
<1>10. c.text = commit[s].text
  BY <1>6
<1> QED BY <1>1, <1>2, <1>4, <1>5, <1>7, <1>8, <1>9, <1>10, ViewMoves

\* A paste ends: the draft is cleared only with a text that went all the way, or over a
\* socket that was not noticed to be gone.
LEMMA PasteEndsStep ==
  ASSUME ComposeInv, NEW s \in Sessions, CO!PasteEnds(s)
  PROVE  ComposeInv'
<1> DEFINE cleared == CO!StillThere(s) /\ commit[s].latest
           whole == CO!Carried(s) /\ (commit[s].at = "queued" \/ commit[s].head)
                    /\ (commit[s].action = "send" => CO!StillThere(s))
           d == IF cleared THEN 0 ELSE drafts[s]
           a == IF whole THEN commit[s].text ELSE arrived[s]
           bz == field.busy /\ ~commit[s].here
<1>1. /\ drafts[s] \in Nat /\ typed[s] \in Nat /\ arrived[s] \in Nat /\ texts \in Nat
      /\ commit[s] \in {CO!NoCommit} \cup Commit /\ view[s] \in Pane
      /\ commit[s].text \in Nat /\ drafts[s] <= texts /\ typed[s] <= texts
      /\ DraftOf(commit[s], drafts[s], typed[s], arrived[s], unnoticed)
      /\ CarriedBy(commit[s], view[s], unnoticed)
      /\ drafts = [drafts EXCEPT ![s] = drafts[s]] /\ typed = [typed EXCEPT ![s] = typed[s]]
      /\ arrived = [arrived EXCEPT ![s] = arrived[s]] /\ view = [view EXCEPT ![s] = view[s]]
      /\ CO!NoCommit.text = 0 /\ (CO!Pending(s) <=> commit[s] # CO!NoCommit)
  BY ComposeOf
<1>2. commit[s] # CO!NoCommit /\ commit[s] \in Commit
  BY <1>1 DEF CO!PasteEnds
<1>3. /\ drafts' = IF cleared THEN [drafts EXCEPT ![s] = 0] ELSE drafts
      /\ arrived' = IF whole THEN [arrived EXCEPT ![s] = commit[s].text] ELSE arrived
      /\ commit' = [commit EXCEPT ![s] = CO!NoCommit]
      /\ field' = IF field.session # s THEN field
                  ELSE [field EXCEPT !.value = drafts'[s], !.busy = bz]
      /\ typed' = typed /\ view' = view /\ texts' = texts /\ unnoticed' = unnoticed
  BY DEF CO!PasteEnds
<1>4. /\ (cleared => /\ commit[s].same /\ view[s].mounted /\ view[s].said = "connected"
                     /\ commit[s].latest)
      /\ (whole <=> /\ view[s].socket = "open" /\ commit[s].alive
                    /\ (commit[s].at = "queued" \/ commit[s].head)
                    /\ (commit[s].action = "send" => CO!StillThere(s)))
      /\ (cleared => CO!StillThere(s))
      /\ (commit[s].at = "queued" \/ commit[s].at = "halfway")
  BY <1>2 DEF CO!StillThere, CO!Carried, Commit
<1> HIDE DEF cleared, whole
<1>5. cleared /\ commit[s].text \notin unnoticed => whole
  BY <1>1, <1>2, <1>4 DEF CarriedBy
<1>6. /\ drafts' = [drafts EXCEPT ![s] = d] /\ typed' = [typed EXCEPT ![s] = typed[s]]
      /\ arrived' = [arrived EXCEPT ![s] = a] /\ view' = [view EXCEPT ![s] = view[s]]
      /\ d \in Nat /\ typed[s] \in Nat /\ a \in Nat /\ view[s] \in Pane
      /\ unnoticed \ {0} \subseteq unnoticed'
      /\ CO!NoCommit \in {CO!NoCommit} \cup Commit
      /\ commit' = [commit EXCEPT ![s] = CO!NoCommit]
  BY <1>1, <1>3
<1>7. /\ texts' \in Nat /\ texts <= texts' /\ d <= texts' /\ typed[s] <= texts'
      /\ CO!NoCommit.text <= texts'
      /\ \A y \in {typed[s], CO!NoCommit.text, 0} :
           y \in {0, typed[s], commit[s].text} \/ y > texts
  BY <1>1, <1>3
<1>8. CarriedBy(CO!NoCommit, view[s], unnoticed')
  BY DEF CarriedBy
<1>9. drafts[s] = typed[s] /\ (commit[s].latest => drafts[s] = commit[s].text)
  BY <1>1, <1>2 DEF DraftOf
<1>10. d # typed[s] => d = 0 /\ (a = typed[s] \/ typed[s] \in unnoticed')
  BY <1>3, <1>4, <1>5, <1>9
<1>11. DraftOf(CO!NoCommit, d, typed[s], a, unnoticed')
  BY <1>10 DEF DraftOf
<1> HIDE DEF d, a
<1>12. field \in [session : Sessions, value : Nat, busy : BOOLEAN] /\ field.value = drafts[field.session]
  BY FieldOf
<1>13. bz \in BOOLEAN
  BY <1>12
<1> HIDE DEF bz
<1>14. drafts'[s] = d /\ d \in Nat /\ \A r \in Sessions \ {s} : drafts'[r] = drafts[r]
  BY <1>6 DEF ComposeInv, ComposeTypes
<1>15. field' \in [session : Sessions, value : Nat, busy : BOOLEAN] /\ field'.value = drafts'[field'.session]
  <2>1. CASE field.session = s
    BY <1>3, <1>12, <1>13, <1>14, <2>1
  <2>2. CASE field.session # s
    BY <1>3, <1>12, <1>14, <2>2
  <2> QED BY <2>1, <2>2
<1>16. Moved(s, d, typed[s], a, CO!NoCommit, view[s], 0)
  BY <1>6, <1>7, <1>8, <1>11, <1>15 DEF Moved
<1> QED BY <1>16, ComposeMoves

\* Another session's field: every commit is one of a field that is gone.
LEMMA SwitchStep ==
  ASSUME ComposeInv, NEW s \in Sessions, CO!Switch(s)
  PROVE  ComposeInv'
<1>1. /\ field' = [session |-> s, value |-> drafts[s], busy |-> FALSE]
      /\ commit' = [t \in Sessions |->
                      IF CO!Pending(t) THEN [commit[t] EXCEPT !.here = FALSE] ELSE CO!NoCommit]
      /\ UNCHANGED <<drafts, typed, view, texts, arrived, unnoticed>>
  BY DEF CO!Switch, CO!draft
<1>2. ASSUME NEW r \in Sessions
      PROVE  /\ commit'[r] \in {CO!NoCommit} \cup Commit /\ commit'[r].text = commit[r].text
             /\ (commit'[r] # CO!NoCommit <=> commit[r] # CO!NoCommit)
             /\ (commit[r] # CO!NoCommit =>
                   /\ (commit'[r].latest <=> commit[r].latest)
                   /\ (commit'[r].same <=> commit[r].same)
                   /\ (commit'[r].alive <=> commit[r].alive)
                   /\ (commit'[r].head <=> commit[r].head)
                   /\ commit'[r].at = commit[r].at)
  <2>1. /\ commit[r] \in {CO!NoCommit} \cup Commit /\ (CO!Pending(r) <=> commit[r] # CO!NoCommit)
        /\ CO!NoCommit \notin Commit
    BY ComposeOf DEF Commit, CO!NoCommit
  <2>2. CASE commit[r] = CO!NoCommit
    BY <1>1, <2>1, <2>2
  <2>3. CASE commit[r] # CO!NoCommit
    <3> DEFINE c == [commit[r] EXCEPT !.here = FALSE]
    <3>1. commit'[r] = c
      BY <1>1, <2>1, <2>3
    <3>2. /\ c \in Commit /\ c.text = commit[r].text /\ (c.latest <=> commit[r].latest)
          /\ (c.same <=> commit[r].same) /\ (c.alive <=> commit[r].alive)
          /\ (c.head <=> commit[r].head) /\ c.at = commit[r].at
      BY <2>1, <2>3 DEF Commit
    <3> HIDE DEF c
    <3> QED BY <2>1, <2>3, <3>1, <3>2
  <2> QED BY <2>2, <2>3
<1>8. /\ \A r \in Sessions : commit'[r].text = commit[r].text
      /\ drafts' = drafts /\ typed' = typed /\ texts' = texts
  BY <1>1, <1>2
<1>9. \A r \in Sessions : drafts[r] <= texts /\ typed[r] <= texts /\ commit[r].text <= texts
  BY DEF ComposeInv, ComposeTypes
<1>3. ComposeTypes'
  <2>1. commit' \in [Sessions -> {CO!NoCommit} \cup Commit]
    BY <1>1, <1>2
  <2>2. drafts[s] \in Nat
    BY ComposeOf
  <2>3. field' \in [session : Sessions, value : Nat, busy : BOOLEAN]
    BY <1>1, <2>2
  <2>4. \A r \in Sessions : drafts'[r] <= texts' /\ typed'[r] <= texts' /\ commit'[r].text <= texts'
    BY <1>8, <1>9
  <2> QED BY <1>1, <2>1, <2>3, <2>4 DEF ComposeInv, ComposeTypes
<1>4. field'.value = drafts'[field'.session]
  BY <1>1
<1>5. TextsApart'
  BY <1>8 DEF ComposeInv, TextsApart
<1>6. ASSUME NEW r \in Sessions
      PROVE  DraftOf(commit'[r], drafts'[r], typed'[r], arrived'[r], unnoticed')
  BY <1>1, <1>2 DEF ComposeInv, DraftOf
<1>7. ASSUME NEW r \in Sessions
      PROVE  CarriedBy(commit'[r], view'[r], unnoticed')
  BY <1>1, <1>2 DEF ComposeInv, CarriedBy
<1> QED BY <1>3, <1>4, <1>5, <1>6, <1>7 DEF ComposeInv

\* Every step of the field.
LEMMA ComposeStep ==
  ComposeInv /\ [CO!Next]_(CO!vars) => ComposeInv'
<1> SUFFICES ASSUME ComposeInv, [CO!Next]_(CO!vars)
             PROVE  ComposeInv'
  OBVIOUS
<1>1. CASE CO!User
  BY <1>1, TypeStep, SubmitStep, SwitchStep DEF CO!User
<1>2. CASE CO!Pastes
  BY <1>2, PasteBeginsStep, PasteEndsStep DEF CO!Pastes
<1>3. CASE CO!Views
  BY <1>3, ViewsStep
<1>4. CASE UNCHANGED CO!vars
  BY <1>4 DEF CO!vars, CO!draft, ComposeInv, ComposeTypes, TextsApart
<1> QED BY <1>1, <1>2, <1>3, <1>4 DEF CO!Next

\* The field in the browser: it starts so, and the other parts leave it alone.
LEMMA ComposeLift ==
  /\ BrowserInit => ComposeInv
  /\ [BrowserNext]_BrowserVars => [CO!Next]_(CO!vars)
<1>1. ASSUME BrowserInit PROVE ComposeInv
  <2>1. CO!Init
    BY <1>1 DEF BrowserInit
  <2>2. /\ drafts = [s \in Sessions |-> 0] /\ typed = drafts /\ arrived = drafts
        /\ commit = [s \in Sessions |-> CO!NoCommit]
        /\ field \in [session : Sessions, value : {0}, busy : {FALSE}]
        /\ view = [s \in Sessions |-> [status |-> "connected", socket |-> "open",
                                       mounted |-> TRUE, said |-> "connected"]]
        /\ texts = 0 /\ CO!NoCommit.text = 0
    BY <2>1 DEF CO!Init, CO!NoCommit
  <2>3. view \in [Sessions -> Pane]
    BY <2>2 DEF Pane
  <2>4. field \in [session : Sessions, value : Nat, busy : BOOLEAN] /\ field.value = 0
    <3>1. field \in [session : Sessions, value : {0}, busy : {FALSE}]
      BY <2>2
    <3>2. field = [session |-> field.session, value |-> field.value, busy |-> field.busy]
      BY <3>1
    <3>3. field.session \in Sessions /\ field.value = 0
      BY <3>1
    <3>4. {FALSE} \subseteq BOOLEAN /\ field.busy \in {FALSE}
      BY <3>1, Zenon
    <3>5. field.busy \in BOOLEAN
      BY <3>4
    <3> QED BY <3>2, <3>3, <3>5
  <2>5. ComposeTypes
    BY <2>2, <2>3, <2>4 DEF ComposeTypes
  <2>6. TextsApart
    BY <2>2 DEF TextsApart
  <2>7. \A s \in Sessions : DraftOf(commit[s], drafts[s], typed[s], arrived[s], unnoticed)
    BY <2>2 DEF DraftOf
  <2>8. \A s \in Sessions : CarriedBy(commit[s], view[s], unnoticed)
    BY <2>2 DEF CarriedBy
  <2>9. field.value = drafts[field.session]
    BY <2>2, <2>4
  <2> QED BY <2>5, <2>6, <2>7, <2>8, <2>9 DEF ComposeInv
<1>2. ASSUME [BrowserNext]_BrowserVars PROVE [CO!Next]_(CO!vars)
  BY <1>2 DEF BrowserNext, BrowserVars, compose, CO!vars, CO!draft
<1> QED BY <1>1, <1>2

\* What the user left in the compose field is never lost: it is the draft until all of it
\* went over one socket, or went with a socket nobody noticed (NativeKeyboardInput.tsx).
THEOREM DraftsAreKept == BrowserSpec => []DraftsKept
<1>1. ComposeInv => CO!DraftsKept
  BY DEF ComposeInv, DraftOf, CO!DraftsKept
<1>2. ComposeInv => DraftsKept
  BY <1>1 DEF DraftsKept
<1> QED BY <1>2, ComposeStep, ComposeLift, PTL DEF BrowserSpec

-------------------------------------------------------------------------------
(***************************************************************************)
(* The types of the components above, with the bounds of their counters.   *)
(***************************************************************************)

\* Uploads.
UploadTypes == Len(uploads) <= MaxUploads /\ isUploading \in BOOLEAN

\* An upload begins only below the bound, and its end leaves it in the list.
LEMMA UploadTypesAlways == BrowserSpec => []UP!TypeOK
<1>1. BrowserInit => UploadInv /\ UploadTypes
  <2>1. BrowserInit => UploadTypes
    <3> SUFFICES ASSUME UP!Init PROVE UploadTypes
      BY DEF BrowserInit
    <3>1. MaxUploads \in Nat /\ Len(<<>>) = 0
      BY BoundsAreNumbers
    <3>2. Len(uploads) <= MaxUploads
      BY <3>1 DEF UP!Init
    <3>3. isUploading \in BOOLEAN
      BY DEF UP!Init
    <3> QED BY <3>2, <3>3 DEF UploadTypes
  <2> QED BY <2>1, UploadLift
<1>2. UploadInv /\ UploadTypes /\ [BrowserNext]_BrowserVars => UploadInv' /\ UploadTypes'
  <2> SUFFICES ASSUME UploadInv, UploadTypes, [UP!Next]_(UP!vars) PROVE UploadTypes'
    BY UploadLift, UploadStep
  <2>0. uploads \in Seq(Upload) /\ MaxUploads \in Nat /\ Len(uploads) \in Nat
    BY BoundsAreNumbers DEF UploadInv
  <2>1. ASSUME NEW given, NEW meant, NEW misled, UP!Select(given, meant, misled)
        PROVE  UploadTypes'
    <3>1. \/ uploads' = uploads /\ isUploading' = isUploading
          \/ isUploading' = TRUE /\ Len(uploads) < MaxUploads
             /\ \E u : uploads' = Append(uploads, u)
      BY <2>1 DEF UP!Select
    <3>2. ASSUME NEW u, uploads' = Append(uploads, u) PROVE Len(uploads') = Len(uploads) + 1
      BY <2>0, <3>2
    <3>3. isUploading' \in BOOLEAN
      BY <3>1 DEF UploadTypes
    <3>4. Len(uploads') \in {Len(uploads), Len(uploads) + 1}
      BY <3>1, <3>2
    <3>5. Len(uploads') # Len(uploads) => Len(uploads) < MaxUploads
      BY <3>1
    <3> QED BY <2>0, <3>3, <3>4, <3>5 DEF UploadTypes
  <2>2. ASSUME NEW n \in DOMAIN uploads, UP!Ends(n)
        PROVE  UploadTypes'
    <3>1. /\ isUploading' = FALSE
          /\ \E u : uploads' = [uploads EXCEPT ![n] = u]
      <4>1. PICK into : uploads' = [uploads EXCEPT ![n].at = "over", ![n].pasted = into,
                                     ![n].misled = @ \/ UP!PaneIsGone(uploads[n])]
        BY <2>2 DEF UP!Ends
      <4> HIDE <2>2
      <4>2. uploads' = [uploads EXCEPT ![n] = uploads'[n]]
        BY <2>0, <2>2, <4>1
      <4> QED BY <2>2, <4>2 DEF UP!Ends
    <3>2. ASSUME NEW u, uploads' = [uploads EXCEPT ![n] = u] PROVE Len(uploads') = Len(uploads)
      BY <2>0, <3>2
    <3> QED BY <3>1, <3>2 DEF UploadTypes
  <2>3. CASE UNCHANGED <<uploads, isUploading>>
    BY <2>3 DEF UploadTypes
  <2>4. CASE UP!Choose
    BY <2>1, <2>4 DEF UP!Choose
  <2>5. CASE UP!DropFile
    BY <2>1, <2>5 DEF UP!DropFile
  <2>6. ASSUME NEW s \in Sessions, UP!PasteFile(s) PROVE UploadTypes'
    BY <2>1, <2>6 DEF UP!PasteFile
  <2> QED BY <2>2, <2>3, <2>4, <2>5, <2>6
          DEF UP!Next, UP!vars, UP!UploadClick, UP!Activate, UP!MountOrUnmount, UP!CancelDialog
<1>3. UploadInv /\ UploadTypes => UP!TypeOK
  <2> SUFFICES ASSUME UploadInv, UploadTypes PROVE UP!TypeOK
    OBVIOUS
  <2>1. \A n \in DOMAIN uploads : uploads[n] \in Upload
    BY DEF UploadInv
  <2> QED BY <2>1 DEF UploadTypes, UploadInv, Upload, FileDialog, UP!TypeOK
<1> QED BY <1>1, <1>2, <1>3, PTL DEF BrowserSpec

\* PaneCache: what CacheTypes says, with the count of the mutations.
LEMMA CacheTypesAlways == BrowserSpec => []PC!TypeOK
<1> DEFINE Bounded == changes \in 0..MaxChanges
<1>1. BrowserInit => CacheInv /\ Bounded
  BY CacheLift, BoundsAreNumbers DEF BrowserInit, PC!Init
<1>2. CacheInv /\ Bounded /\ [BrowserNext]_BrowserVars => CacheInv' /\ Bounded'
  <2> SUFFICES ASSUME Bounded, [PC!Next]_(PC!vars) PROVE Bounded'
    BY CacheLift, CacheStep
  <2>1. UNCHANGED changes \/ (changes < MaxChanges /\ changes' = changes + 1)
    BY DEF PC!Next, PC!vars, PC!Refetch, PC!ServerLists, PC!Fetched, PC!Swap, PC!Mutate, PC!Calls,
           PC!ServerActs, PC!Answered
  <2> QED BY <2>1, BoundsAreNumbers
<1>3. CacheInv /\ Bounded => PC!TypeOK
  BY DEF CacheInv, CacheTypes, PaneList, Places, PC!TypeOK
<1> QED BY <1>1, <1>2, <1>3, PTL DEF BrowserSpec

\* Attention: the owner and the agents move only below their bounds.
Ticks == time \in 0..MaxTime /\ opens \in 0..MaxOpens

\* Nothing is marked or listed later than now.
LEMMA AttentionTypesAlways == BrowserSpec => []AT!TypeOK
<1>1. BrowserInit => AttentionInv /\ Ticks
  BY AttentionLift, BoundsAreNumbers DEF BrowserInit, AT!Init, Ticks
<1>2. AttentionInv /\ Ticks /\ [BrowserNext]_BrowserVars => AttentionInv' /\ Ticks'
  <2> SUFFICES ASSUME Ticks, [AT!Next]_(AT!vars) PROVE Ticks'
    BY AttentionLift, AttentionStep
  <2>1. /\ UNCHANGED time \/ (time < MaxTime /\ time' = time + 1)
        /\ UNCHANGED opens \/ (opens < MaxOpens /\ opens' = opens + 1)
    BY DEF AT!Next, AT!vars, AT!Opens, AT!Fetches, AT!Hides, AT!Appears, AT!Storage,
           AT!AgentChanges, AT!Owner
  <2> QED BY <2>1, BoundsAreNumbers DEF Ticks
<1>3. AttentionInv /\ Ticks => AT!TypeOK
  <2> SUFFICES ASSUME AttentionInv, Ticks PROVE AT!TypeOK
    OBVIOUS
  <2>1. /\ \A n \in Nat : n <= time => n \in 0..MaxTime
        /\ time \in Nat
    BY BoundsAreNumbers DEF Ticks
  <2> USE DEF AttentionInv, AttentionTypes, MarksAreTrue
  <2>2. agent \in [Sessions -> [activity : AT!Activities, previous : AT!Activities,
                                at : 0..MaxTime]]
    BY <2>1 DEF Info
  <2>3. watched \in [Sessions -> 0..MaxTime]
    BY <2>1
  <2>4. store \in [Sessions -> 0..MaxTime] /\ copies \in [Windows -> [Sessions -> 0..MaxTime]]
    <3>1. \A s \in Sessions : watched[s] \in Nat /\ watched[s] <= time
      OBVIOUS
    <3>2. \A n, m \in Nat : n <= m /\ m <= time => n \in 0..MaxTime
      BY <2>1
    <3>3. \A s \in Sessions : store[s] \in 0..MaxTime
      BY <3>1, <3>2
    <3>4. \A w \in Windows, s \in Sessions : copies[w][s] \in 0..MaxTime
      BY <3>1, <3>2
    <3> QED BY <3>3, <3>4
  <2>5. \A w \in Windows : DOMAIN fetched[w] = Sessions
    OBVIOUS
  <2> QED BY <2>2, <2>3, <2>4, <2>5 DEF AT!TypeOK, Ticks
<1> QED BY <1>1, <1>2, <1>3, PTL DEF BrowserSpec

\* SizeClaims: what is claimed, remembered and shown are sizes of the view.
SizesAre ==
  /\ size \in SZ!ViewSizes /\ way \in Seq(SZ!ViewSizes)
  /\ lastClaim \in SZ!ViewSizes \cup {0} /\ window \in SZ!ViewSizes \cup {0}
  /\ late \subseteq SZ!ViewSizes \cup {0} /\ beaten \in BOOLEAN /\ events \in 0..MaxEvents

\* A claim is of the size the view has.
LEMMA ClaimedSizes ==
  ASSUME SizesAre, NEW force, SZ!SendClaim(force)
  PROVE  way' \in Seq(SZ!ViewSizes) /\ lastClaim' \in SZ!ViewSizes \cup {0}
BY DEF SizesAre, SZ!SendClaim

\* Every step keeps them sizes.
LEMMA SizesStep == SizesAre /\ [SZ!Next]_(SZ!vars) => SizesAre'
<1> SUFFICES ASSUME SizesAre, [SZ!Next]_(SZ!vars) PROVE SizesAre'
  OBVIOUS
<1>0. MaxEvents \in Nat
  BY BoundsAreNumbers
<1>a. SZ!Event => events' \in 0..MaxEvents
  BY <1>0 DEF SZ!Event, SizesAre
<1>b. /\ size \in SZ!ViewSizes /\ way \in Seq(SZ!ViewSizes)
      /\ lastClaim \in SZ!ViewSizes \cup {0} /\ window \in SZ!ViewSizes \cup {0}
      /\ late \subseteq SZ!ViewSizes \cup {0} /\ beaten \in BOOLEAN /\ events \in 0..MaxEvents
  BY DEF SizesAre
<1>c. \A f : SZ!SendClaim(f) =>
        way' \in Seq(SZ!ViewSizes) /\ lastClaim' \in SZ!ViewSizes \cup {0}
  BY ClaimedSizes
<1>d. SZ!LeavesBehind => /\ way' = <<>> /\ way' \in Seq(SZ!ViewSizes)
                         /\ late' \subseteq SZ!ViewSizes \cup {0}
  <2> SUFFICES ASSUME SZ!LeavesBehind
               PROVE  /\ way' = <<>> /\ way' \in Seq(SZ!ViewSizes)
                      /\ late' \subseteq SZ!ViewSizes \cup {0}
    OBVIOUS
  <2>1. way' = <<>> /\ late' = late \cup {way[i] : i \in DOMAIN way}
    BY DEF SZ!LeavesBehind, SZ!Range
  <2>2. \A i \in DOMAIN way : way[i] \in SZ!ViewSizes
    BY <1>b
  <2>3. <<>> \in Seq(SZ!ViewSizes)
    OBVIOUS
  <2> QED BY <1>b, <2>1, <2>2, <2>3
<1> SUFFICES /\ size' \in SZ!ViewSizes /\ way' \in Seq(SZ!ViewSizes)
             /\ lastClaim' \in SZ!ViewSizes \cup {0} /\ window' \in SZ!ViewSizes \cup {0}
             /\ late' \subseteq SZ!ViewSizes \cup {0} /\ beaten' \in BOOLEAN
             /\ events' \in 0..MaxEvents
  BY DEF SizesAre
<1>1. CASE SZ!FocusOrBlur \/ SZ!ShowOrHide \/ SZ!Resize
  BY <1>a, <1>b, <1>1 DEF SZ!FocusOrBlur, SZ!ShowOrHide, SZ!Resize, SZ!server
<1>2. CASE SZ!Lost
  BY <1>a, <1>b, <1>d, <1>2 DEF SZ!Lost, SZ!None
<1>3. CASE SZ!OtherClaims \/ SZ!Retries \/ SZ!FitTimer \/ UNCHANGED SZ!vars
  BY <1>b, <1>3 DEF SZ!OtherClaims, SZ!Retries, SZ!FitTimer, SZ!vars, SZ!server, SZ!None
<1>4. CASE SZ!Opens
  <2>1. way' \in {way, Append(way, size)} /\ UNCHANGED <<size, lastClaim, late, window, beaten, events>>
    BY <1>4 DEF SZ!Opens, SZ!server
  <2> QED BY <1>b, <2>1
<1>5. CASE SZ!PtyTimer
  <2>1. /\ UNCHANGED <<size, late, window, beaten, events>>
        /\ SZ!SendClaim(FALSE) \/ UNCHANGED <<lastClaim, way>>
    BY <1>5 DEF SZ!PtyTimer, SZ!server
  <2> QED BY <1>b, <1>c, <2>1
<1>6. CASE SZ!Commit
  <2>1. /\ UNCHANGED <<size, window, events>>
        /\ \/ lastClaim' = 0 /\ SZ!LeavesBehind
           \/ SZ!SendClaim(TRUE) /\ UNCHANGED late
           \/ UNCHANGED <<lastClaim, way, late>>
    BY <1>6 DEF SZ!Commit, SZ!ClaimOnActivation, SZ!None
  <2>2. beaten' \in BOOLEAN
    BY <1>6 DEF SZ!Commit
  <2> QED BY <1>b, <1>c, <1>d, <2>1, <2>2
<1>7. CASE SZ!HandlesClaim
  <2>1. /\ way # <<>> /\ window' \in {window, Head(way)} /\ way' = Tail(way)
        /\ beaten' \in BOOLEAN /\ UNCHANGED <<size, lastClaim, late, events>>
    BY <1>7 DEF SZ!HandlesClaim, SZ!Active
  <2>2. Head(way) \in SZ!ViewSizes /\ Tail(way) \in Seq(SZ!ViewSizes)
    BY <1>b, <2>1
  <2> QED BY <1>b, <2>1, <2>2
<1>8. CASE SZ!HandlesLate
  BY <1>b, <1>8 DEF SZ!HandlesLate, SZ!Active
<1> QED BY <1>1, <1>2, <1>3, <1>4, <1>5, <1>6, <1>7, <1>8 DEF SZ!Next

\* The sizes that are on the way, remembered and shown.
LEMMA SizeTypesAlways == BrowserSpec => []SZ!TypeOK
<1>1. BrowserInit => ClaimInv /\ SizesAre
  <2>1. SZ!Init => SizesAre
    <3> SUFFICES ASSUME SZ!Init PROVE SizesAre
      OBVIOUS
    <3>1. 1 \in SZ!ViewSizes /\ 0 \in 0..MaxEvents
      BY BoundsAreNumbers DEF SZ!ViewSizes
    <3>2. <<>> \in Seq(SZ!ViewSizes)
      OBVIOUS
    <3> QED BY <3>1, <3>2 DEF SZ!Init, SizesAre, SZ!None
  <2> QED BY <2>1, ClaimLift DEF BrowserInit
<1>2. ClaimInv /\ SizesAre /\ [BrowserNext]_BrowserVars => ClaimInv' /\ SizesAre'
  BY SizesStep, ClaimLift
<1>3. ClaimInv /\ SizesAre => SZ!TypeOK
  BY DEF ClaimInv, ClaimTypes, SizesAre, SZ!TypeOK, SZ!None
<1> QED BY <1>1, <1>2, <1>3, PTL DEF BrowserSpec

\* Compose: no text is newer than the last, the ones that arrived or were lost with a
\* socket included.
TextsUpto ==
  /\ phone \in BOOLEAN /\ texts <= MaxTexts
  /\ \A s \in Sessions : arrived[s] <= texts
  /\ unnoticed \subseteq 1..texts

\* What a step does to the texts: the last one is the next, or stays, and what arrives or
\* is lost from here on is a text that there is.
TextsMove ==
  /\ UNCHANGED phone
  /\ texts' \in Nat /\ texts <= texts' /\ texts' <= MaxTexts
  /\ \A s \in Sessions : arrived'[s] \in {arrived[s], commit[s].text}
  /\ unnoticed' \subseteq unnoticed \cup {t \in Nat \ {0} : t <= texts'}

\* Such a step keeps the bounds.
LEMMA TextsStay ==
  ASSUME ComposeInv, TextsUpto, TextsMove PROVE TextsUpto'
<1>1. /\ texts \in Nat /\ texts' \in Nat /\ texts <= texts'
      /\ \A s \in Sessions : /\ arrived[s] \in Nat /\ arrived[s] <= texts
                             /\ commit[s].text \in Nat /\ commit[s].text <= texts
  BY ComposeOf DEF TextsUpto, TextsMove, ComposeInv, ComposeTypes
<1>2. \A s \in Sessions : arrived'[s] <= texts'
  <2> SUFFICES ASSUME NEW s \in Sessions PROVE arrived'[s] <= texts'
    OBVIOUS
  <2>1. arrived'[s] \in Nat /\ arrived'[s] <= texts
    BY <1>1 DEF TextsMove
  <2> QED BY <1>1, <2>1
<1>3. unnoticed' \subseteq 1..texts'
  <2> SUFFICES ASSUME NEW t \in unnoticed' PROVE t \in 1..texts'
    OBVIOUS
  <2>1. t \in 1..texts \/ (t \in Nat \ {0} /\ t <= texts')
    BY DEF TextsMove, TextsUpto
  <2> QED BY <1>1, <2>1
<1> QED BY <1>2, <1>3 DEF TextsUpto, TextsMove

\* The steps move them so.
LEMMA ComposeTexts ==
  ASSUME ComposeInv, TextsUpto, [CO!Next]_(CO!vars) PROVE TextsUpto'
<1>0. /\ texts \in Nat /\ MaxTexts \in Nat /\ texts <= MaxTexts
      /\ arrived \in [Sessions -> Nat]
  BY BoundsAreNumbers DEF TextsUpto, ComposeInv, ComposeTypes
<1>1. CASE UNCHANGED <<phone, texts, arrived, unnoticed>>
  <2>1. TextsMove
    BY <1>0, <1>1 DEF TextsMove
  <2> QED BY <2>1, TextsStay
<1>2. ASSUME NEW text \in 0..MaxTexts, CO!Type(text) PROVE TextsUpto'
  <2>1. UNCHANGED <<phone, arrived, unnoticed>> /\ texts' = texts + 1 /\ texts < MaxTexts
    BY <1>2 DEF CO!Type
  <2>2. TextsMove
    BY <1>0, <2>1 DEF TextsMove
  <2> QED BY <2>2, TextsStay
<1>3. ASSUME NEW text \in 0..MaxTexts, NEW a \in {"insert", "send"}, CO!Submit(a, text)
      PROVE  TextsUpto'
  <2>1. /\ UNCHANGED <<phone, arrived>> /\ unnoticed' \subseteq unnoticed \cup {text}
        /\ field.value # 0
        /\ \/ text = field.value /\ texts' = texts
           \/ text = texts + 1 /\ texts' = text /\ texts < MaxTexts
    BY <1>3 DEF CO!Submit
  <2>2. field.value \in Nat /\ field.value <= texts
    BY FieldOf, ComposeOf
  <2>3. text \in Nat \ {0} /\ text <= texts' /\ texts' \in Nat /\ texts <= texts' /\ texts' <= MaxTexts
    BY <1>0, <2>1, <2>2
  <2>4. TextsMove
    BY <1>0, <2>1, <2>3 DEF TextsMove
  <2> QED BY <2>4, TextsStay
<1>4. ASSUME NEW s \in Sessions, CO!PasteEnds(s) PROVE TextsUpto'
  <2>1. /\ UNCHANGED <<phone, texts, unnoticed>>
        /\ arrived' \in {arrived, [arrived EXCEPT ![s] = commit[s].text]}
    BY <1>4 DEF CO!PasteEnds
  <2>2. TextsMove
    BY <1>0, <2>1 DEF TextsMove
  <2> QED BY <2>2, TextsStay
<1>5. ASSUME NEW s \in Sessions, CO!SocketGoes(s) PROVE TextsUpto'
  <2>1. /\ UNCHANGED <<phone, texts, arrived>>
        /\ \/ unnoticed' = unnoticed
           \/ CO!Pending(s) /\ unnoticed' = unnoticed \cup {commit[s].text}
    BY <1>5 DEF CO!SocketGoes
  <2>2. /\ commit[s].text <= texts
        /\ CO!Pending(s) => commit[s].text \in Nat \ {0}
    BY ComposeOf DEF Commit
  <2>3. TextsMove
    BY <1>0, <2>1, <2>2 DEF TextsMove
  <2> QED BY <2>3, TextsStay
<1>6. ASSUME NEW s \in Sessions, NEW body, CO!HandleGoes(s, body) PROVE TextsUpto'
  <2>1. UNCHANGED <<phone, texts, arrived>> /\ unnoticed' \subseteq unnoticed
    BY <1>6 DEF CO!HandleGoes
  <2>2. TextsMove
    BY <1>0, <2>1 DEF TextsMove
  <2> QED BY <2>2, TextsStay
<1>7. ASSUME NEW s \in Sessions, CO!PasteBegins(s) PROVE TextsUpto'
  BY <1>1, <1>7 DEF CO!PasteBegins
<1>8. ASSUME NEW s \in Sessions, CO!Switch(s) PROVE TextsUpto'
  BY <1>1, <1>8 DEF CO!Switch
<1>9. ASSUME NEW s \in Sessions,
             \/ CO!Drops(s) \/ CO!Hides(s) \/ CO!Shows(s) \/ CO!Opens(s) \/ CO!Renders(s)
             \/ CO!Leaves(s) \/ CO!Mounts(s)
      PROVE  TextsUpto'
  BY <1>1, <1>5, <1>6, <1>9
     DEF CO!Drops, CO!Hides, CO!Shows, CO!Opens, CO!Renders, CO!Leaves, CO!Mounts
<1>10. CASE UNCHANGED CO!vars
  BY <1>1, <1>10 DEF CO!vars
<1>11. CASE CO!User
  BY <1>2, <1>3, <1>8, <1>11 DEF CO!User
<1> QED BY <1>4, <1>7, <1>9, <1>10, <1>11 DEF CO!Next, CO!Pastes, CO!Views

\* The texts of the field, the drafts, the commits and the views.
LEMMA ComposeTypesAlways == BrowserSpec => []CO!TypeOK
<1>1. BrowserInit => ComposeInv /\ TextsUpto
  <2>1. CO!Init => TextsUpto
    <3> SUFFICES ASSUME CO!Init PROVE TextsUpto
      OBVIOUS
    <3>1. texts = 0 /\ MaxTexts \in Nat /\ unnoticed = {} /\ phone \in BOOLEAN
      BY BoundsAreNumbers DEF CO!Init
    <3>2. \A s \in Sessions : arrived[s] = 0
      BY DEF CO!Init
    <3> QED BY <3>1, <3>2 DEF TextsUpto
  <2> QED BY <2>1, ComposeLift DEF BrowserInit
<1>2. ComposeInv /\ TextsUpto /\ [BrowserNext]_BrowserVars => ComposeInv' /\ TextsUpto'
  BY ComposeTexts, ComposeLift, ComposeStep
<1>3. ComposeInv /\ TextsUpto => CO!TypeOK
  <2> SUFFICES ASSUME ComposeInv, TextsUpto PROVE CO!TypeOK
    OBVIOUS
  <2>0. /\ texts \in Nat /\ MaxTexts \in Nat /\ texts <= MaxTexts
        /\ \A n \in Nat : n <= texts => n \in 0..MaxTexts
    BY BoundsAreNumbers DEF TextsUpto, ComposeInv, ComposeTypes
  <2>1. drafts \in [Sessions -> 0..MaxTexts]
    BY <2>0, ComposeOf DEF ComposeInv, ComposeTypes
  <2>2. typed \in [Sessions -> 0..MaxTexts]
    BY <2>0, ComposeOf DEF ComposeInv, ComposeTypes
  <2>3. arrived \in [Sessions -> 0..MaxTexts]
    BY <2>0, ComposeOf DEF ComposeInv, ComposeTypes, TextsUpto
  <2>4. ASSUME NEW s \in Sessions, CO!Pending(s)
        PROVE  commit[s] \in [text : 1..MaxTexts, action : {"insert", "send"},
                     at : {"queued", "halfway"}, head : BOOLEAN, latest : BOOLEAN,
                     same : BOOLEAN, alive : BOOLEAN, here : BOOLEAN]
    <3>1. commit[s] \in Commit /\ commit[s].text <= texts
      BY <2>4, ComposeOf
    <3>2. commit[s].text \in 1..MaxTexts
      BY <2>0, <3>1 DEF Commit
    <3> QED BY <3>1, <3>2 DEF Commit
  <2>5. field \in [session : Sessions, value : 0..MaxTexts, busy : BOOLEAN]
    <3>1. /\ field \in [session : Sessions, value : Nat, busy : BOOLEAN]
          /\ field.value \in 0..MaxTexts
      BY <2>1, FieldOf
    <3> QED BY <3>1
  <2>6. view \in [Sessions -> [status : {"connecting", "connected"}, mounted : BOOLEAN,
                            socket : {"none", "opening", "open"},
                            said : {"connecting", "connected"}]]
    BY DEF ComposeInv, ComposeTypes, Pane
  <2>7. unnoticed \subseteq 1..MaxTexts
    BY <2>0 DEF TextsUpto
  <2>8. phone \in BOOLEAN
    BY DEF TextsUpto
  <2> QED BY <2>1, <2>2, <2>3, <2>4, <2>5, <2>6, <2>7, <2>8 DEF CO!TypeOK
<1> QED BY <1>1, <1>2, <1>3, PTL DEF BrowserSpec

\* WriteQueue: the messages are of the output there is, within the bounds of the run.
Sent == [reset : BOOLEAN, upto : 0..MaxOutput, from : 0..MaxConnects]

\* The types of the write queue; the write under way is the one that BeforeReset cuts.
WriteTypes ==
  /\ output \in 0..MaxOutput /\ connects \in 0..MaxConnects
  /\ connected \in BOOLEAN /\ asked \in BOOLEAN /\ visible \in BOOLEAN /\ up \in BOOLEAN
  /\ held \in BOOLEAN
  /\ wire \in Seq(Sent) /\ Len(wire) <= MaxWire
  /\ pending \in Seq(Sent) /\ writing \in Seq(Sent)
  /\ term \in [upto : 0..MaxOutput, whole : BOOLEAN] /\ streams \subseteq 0..MaxConnects

\* What is in front of the first reset is a part of the write.
LEMMA BeforeResetIs ==
  ASSUME NEW data \in Seq(Sent), WQ!HasReset(data)
  PROVE  WQ!BeforeReset(data) \in Seq(Sent)
<1> DEFINE I == {i \in 1..Len(data) : data[i].reset}
<1>1. I # {} /\ I \subseteq Nat
  BY DEF WQ!HasReset
<1>2. \E m \in I : \A n \in I : m <= n
  BY <1>1, LeastNat
<1>3. WQ!Min(I) \in I
  BY <1>2 DEF WQ!Min
<1>4. WQ!SelectInSeq(data, LAMBDA item : item.reset) = WQ!Min(I)
  BY <1>1 DEF WQ!SelectInSeq
<1> DEFINE k == WQ!Min(I)
<1>5. k \in 1..Len(data) /\ Len(data) \in Nat
  BY <1>3
<1>6. WQ!BeforeReset(data) = SubSeq(data, 1, k - 1)
  BY <1>4 DEF WQ!BeforeReset
<1> HIDE DEF k, I
<1>7. /\ SubSeq(data, 1, k - 1) \in Seq(Sent)
  BY <1>5, SubSeqProperties
<1> QED BY <1>6, <1>7

\* A drain writes what it takes, a part of it, or nothing.
LEMMA RunWriteTypes ==
  ASSUME WriteTypes, NEW data \in Seq(Sent), WQ!RunWrite(data)
  PROVE  writing' \in Seq(Sent) /\ held' \in BOOLEAN /\ asked' \in BOOLEAN
<1>1. <<>> \in Seq(Sent) /\ held \in BOOLEAN /\ asked \in BOOLEAN /\ connected \in BOOLEAN
  BY DEF WriteTypes
<1>2. held' \in BOOLEAN /\ asked' \in BOOLEAN
  BY <1>1 DEF WQ!RunWrite, WQ!BackAtBottom
<1>3. \/ writing' \in {<<>>, data}
      \/ WQ!HasReset(data) /\ writing' = WQ!BeforeReset(data)
  BY DEF WQ!RunWrite
<1> QED BY <1>1, <1>2, <1>3, BeforeResetIs

\* What is shown after a write is the last of it, or what was shown before.
LEMMA ShownTypes ==
  ASSUME WriteTypes
  PROVE  WQ!Shows(term, writing) \in [upto : 0..MaxOutput, whole : BOOLEAN]
<1>1. writing \in Seq(Sent) /\ term.upto \in 0..MaxOutput
  BY DEF WriteTypes
<1>2. writing # <<>> => writing[Len(writing)].upto \in 0..MaxOutput
  <2> SUFFICES ASSUME writing # <<>> PROVE writing[Len(writing)] \in Sent
    BY DEF Sent
  <2> QED BY <1>1
<1>3. IsScreen(WQ!Shows(term, writing))
  BY ShowsScreen
<1>4. WQ!Shows(term, writing).upto \in 0..MaxOutput
  BY <1>1, <1>2 DEF WQ!Shows
<1> QED BY <1>3, <1>4 DEF IsScreen

\* A message goes on its way, if a socket is open.
LEMMA SendsTypes ==
  ASSUME WriteTypes, NEW item \in Sent, WQ!Sends(item), Len(wire) < MaxWire
  PROVE  wire' \in Seq(Sent) /\ Len(wire') <= MaxWire
<1>1. wire \in Seq(Sent) /\ Len(wire) \in Nat /\ MaxWire \in Nat
  BY BoundsAreNumbers DEF WriteTypes
<1>2. Append(wire, item) \in Seq(Sent) /\ Len(Append(wire, item)) = Len(wire) + 1
  BY <1>1
<1>3. wire' \in {wire, Append(wire, item)}
  BY DEF WQ!Sends
<1> QED BY <1>1, <1>2, <1>3

\* Every step of the queue, the reader, the socket and the server keeps the types.
LEMMA WriteTypesStep == WriteTypes /\ [WQ!Next]_(WQ!vars) => WriteTypes'
<1> SUFFICES ASSUME WriteTypes, [WQ!Next]_(WQ!vars) PROVE WriteTypes'
  OBVIOUS
<1>0. /\ MaxOutput \in Nat /\ MaxConnects \in Nat /\ MaxWire \in Nat \ {0}
      /\ <<>> \in Seq(Sent) /\ Len(<<>>) = 0
  BY BoundsAreNumbers
<1>a. WQ!Blank \in [upto : 0..MaxOutput, whole : BOOLEAN]
  BY <1>0 DEF WQ!Blank
<1>b. \A n \in 0..MaxOutput, c \in 0..MaxConnects : WQ!Text(n, c) \in Sent /\ WQ!Seed(n, c) \in Sent
  BY DEF WQ!Text, WQ!Seed, Sent
<1> USE DEF WriteTypes
<1>1. CASE WQ!Written
  <2>1. /\ term' = WQ!Shows(term, writing) /\ streams' = WQ!Streams(streams, writing) /\ pending' = <<>> /\ WQ!RunWrite(pending)
        /\ UNCHANGED <<output, connected, connects, wire, visible, up>>
    BY <1>1 DEF WQ!Written, WQ!server
  <2>2. writing' \in Seq(Sent) /\ held' \in BOOLEAN /\ asked' \in BOOLEAN
    BY <2>1, RunWriteTypes
  <2>3. term' \in [upto : 0..MaxOutput, whole : BOOLEAN]
    BY <2>1, ShownTypes
  <2>4. streams' \subseteq 0..MaxConnects
    <3>1. \A i \in DOMAIN writing : writing[i].from \in 0..MaxConnects
      <4>1. \A i \in DOMAIN writing : writing[i] \in Sent
        OBVIOUS
      <4> QED BY <4>1 DEF Sent
    <3> QED BY <2>1, <3>1 DEF WQ!Streams
  <2> QED BY <1>0, <2>1, <2>2, <2>3, <2>4
<1>2. CASE WQ!ScrollUp
  BY <1>2 DEF WQ!ScrollUp, WQ!server, WQ!queue
<1>3. CASE WQ!ScrollDown
  BY <1>3 DEF WQ!ScrollDown, WQ!BackAtBottom, WQ!server
<1>4. CASE WQ!Opens
  <2>1. /\ UNCHANGED <<output, asked, visible, up, writing>>
        /\ connects < MaxConnects /\ connects' = connects + 1
        /\ connected' = TRUE /\ wire' = <<WQ!Seed(output, connects')>>
        /\ pending' \in {pending, <<>>} /\ held' \in {held, up} /\ term' \in {term, WQ!Blank}
        /\ streams' \in {streams, {}}
    BY <1>4 DEF WQ!Opens, WQ!RestartStream
  <2>4. connects' \in 0..MaxConnects
    BY <1>0, <2>1
  <2>2. WQ!Seed(output, connects') \in Sent /\ output \in 0..MaxOutput
    BY <1>b, <2>4
  <2>3. wire' \in Seq(Sent) /\ Len(wire') = 1 /\ 1 <= MaxWire
    BY <1>0, <2>1, <2>2
  <2>5. pending' \in Seq(Sent) /\ held' \in BOOLEAN /\ connected' \in BOOLEAN
    BY <1>0, <2>1
  <2>6. term' \in [upto : 0..MaxOutput, whole : BOOLEAN]
    BY <1>a, <2>1
  <2>7. output' \in 0..MaxOutput /\ writing' \in Seq(Sent) /\ Len(wire') <= MaxWire
        /\ streams' \subseteq 0..MaxConnects
    BY <2>1, <2>3
  <2> QED BY <2>1, <2>3, <2>4, <2>5, <2>6, <2>7
<1>5. CASE WQ!Closes \/ WQ!Hide \/ WQ!Show
  <2>1. /\ connected' = FALSE /\ wire' = <<>> /\ asked' = FALSE /\ visible' \in {visible, TRUE, FALSE}
        /\ UNCHANGED <<output, connects, up, pending, writing, held, term, streams>>
    BY <1>5 DEF WQ!Closes, WQ!Hide, WQ!Show, WQ!Drops, WQ!queue
  <2>2. Len(wire') <= MaxWire /\ wire' \in Seq(Sent)
    BY <1>0, <2>1
  <2> QED BY <2>1, <2>2
<1>6. CASE WQ!Receives
  <2>1. /\ wire # <<>> /\ wire' = Tail(wire) /\ WQ!Enqueue(Head(wire))
        /\ UNCHANGED <<output, connected, connects, visible, up, term, streams>>
    BY <1>6 DEF WQ!Receives, WQ!server
  <2>2. wire' \in Seq(Sent) /\ Len(wire') <= MaxWire /\ Head(wire) \in Sent
    BY <1>0, <2>1
  <2>3. Append(pending, Head(wire)) \in Seq(Sent)
    BY <2>2
  <2>4. /\ pending' \in Seq(Sent) /\ writing' \in Seq(Sent) /\ held' \in BOOLEAN
        /\ asked' \in BOOLEAN
    BY <1>0, <2>1, <2>3, RunWriteTypes DEF WQ!Enqueue
  <2> QED BY <2>1, <2>2, <2>4
<1>7. CASE WQ!Outputs
  <2>1. /\ output < MaxOutput /\ Len(wire) < MaxWire /\ output' = output + 1
        /\ \E item \in {WQ!Text(output', connects), WQ!Seed(output', connects)} : WQ!Sends(item)
        /\ UNCHANGED <<connected, connects, asked, visible, up, pending, writing, held, term,
                        streams>>
    BY <1>7 DEF WQ!Outputs, WQ!queue
  <2>2. output' \in 0..MaxOutput
    BY <1>0, <2>1
  <2>3. wire' \in Seq(Sent) /\ Len(wire') <= MaxWire
    BY <1>b, <2>1, <2>2, SendsTypes
  <2> QED BY <2>1, <2>2, <2>3
<1>8. CASE WQ!Reseeds
  <2>1. /\ asked' = FALSE /\ Len(wire) < MaxWire /\ WQ!Sends(WQ!Seed(output, connects))
        /\ UNCHANGED <<output, connected, connects, visible, up, pending, writing, held, term,
                        streams>>
    BY <1>8 DEF WQ!Reseeds, WQ!server, WQ!queue
  <2>2. wire' \in Seq(Sent) /\ Len(wire') <= MaxWire
    BY <1>b, <2>1, SendsTypes
  <2> QED BY <2>1, <2>2
<1>9. CASE UNCHANGED WQ!vars
  BY <1>9 DEF WQ!vars
<1> QED BY <1>1, <1>2, <1>3, <1>4, <1>5, <1>6, <1>7, <1>8, <1>9 DEF WQ!Next

\* The messages and the screens.
LEMMA WriteTypesAlways == BrowserSpec => []WQ!TypeOK
<1>1. BrowserInit => WriteTypes
  <2> SUFFICES ASSUME WQ!Init PROVE WriteTypes
    BY DEF BrowserInit
  <2>1. /\ MaxOutput \in Nat /\ MaxConnects \in Nat /\ MaxWire \in Nat
        /\ <<>> \in Seq(Sent) /\ Len(<<>>) = 0
    BY BoundsAreNumbers
  <2>2. WQ!Blank \in [upto : 0..MaxOutput, whole : BOOLEAN]
    BY <2>1 DEF WQ!Blank
  <2>3. 0 \in 0..MaxOutput /\ 0 \in 0..MaxConnects /\ Len(<<>>) <= MaxWire
    BY <2>1
  <2> QED BY <2>1, <2>2, <2>3 DEF WQ!Init, WriteTypes
<1>2. WriteTypes /\ [BrowserNext]_BrowserVars => WriteTypes'
  BY WriteTypesStep, WriteLift
<1>3. WriteTypes => WQ!TypeOK
  BY DEF WriteTypes, Sent, WQ!TypeOK
<1> QED BY <1>1, <1>2, <1>3, PTL DEF BrowserSpec

-------------------------------------------------------------------------------
(***************************************************************************)
(* The types of all of them.                                               *)
(***************************************************************************)

\* The socket hook in a behaviour of the browser.
LEMMA SocketTypesAlways == BrowserSpec => []TypeOK
<1>1. BrowserInit => Init
  BY DEF BrowserInit
<1>2. [BrowserNext]_BrowserVars => [Next]_vars
  BY DEF BrowserNext, BrowserVars
<1>3. IInv => TypeOK
  BY DEF IInv
<1> QED BY <1>1, <1>2, <1>3, InitIInv, NextIInv, PTL DEF BrowserSpec

\* Every component of the browser keeps to its types and its counters to their bounds,
\* in every behaviour: what each of them takes from the others' messages, answers and
\* events is what those may be.
THEOREM BrowserTypes == BrowserSpec => []TypesOK
<1>1. TypeOK /\ (AP!TypeOK /\ WO!TypeOK /\ AS!TypeOK /\ AC!TypeOK /\ DI!TypeOK) /\ WQ!TypeOK
        /\ PC!TypeOK /\ CO!TypeOK /\ UP!TypeOK /\ SZ!TypeOK /\ AT!TypeOK
      => TypesOK
  BY DEF TypesOK
<1> QED BY <1>1, SocketTypesAlways, WindowTypes, WriteTypesAlways, CacheTypesAlways,
           ComposeTypesAlways, UploadTypesAlways, SizeTypesAlways, AttentionTypesAlways, PTL
==================================================================================
