------------------------------ MODULE MCPaneLinks ------------------------------
(***************************************************************************)
(* Instances of PaneLinks for TLC: requests that meet requests, and        *)
(* requests that meet a pass of reconcile_links.                           *)
(***************************************************************************)
EXTENDS PaneLinks, TLC

\* Several requests at a time, without the passes, with one instance of Tether:
\* either over several panes, or over one whose sessions, once made, are ended and
\* given other tools, which the events tell of.
Loading == loaded # {} \/ \E j \in Jobs : job[j].op = "load"
Ending  == \A j \in Jobs : job[j].op \in {"none", "load", "end", "pane", "close", "companions"}
OnePane == \E p \in Panes : \A q \in Panes \ {p} : pane[q] = "unused"
Within  == Loading => OnePane /\ Ending

RequestNext ==
  \/ \E j \in Jobs : Create(j) \/ End(j) \/ View(j) \/ Load(j)
  \/ \E s \in Sessions :
       \/ WatcherDrops(s) \/ SessionEnds(s)
       \/ \E t \in Modes : Respawn(s, t) \/ (loaded # {} /\ WatcherTells(s, t))
  \/ \E p \in Panes : DetachPane(p) /\ ~Loading
  \/ Restart

RequestSpec == Init /\ sock = "gone" /\ [][RequestNext /\ Within']_vars

\* Passes and one request, with both instances.  A generation, or what a
\* session runs, is nothing a pass knows.
SweepNext ==
  \/ \E j \in Jobs : Create(j) \/ End(j) \/ View(j)
  \/ Sweep
  \/ \E s \in Sessions : WatcherDrops(s) \/ SessionEnds(s) \/ BornOutside(s, "shell")
  \/ \E p \in Panes : DetachPane(p)
  \/ OtherGoes \/ OtherReturns \/ AppLists
  \/ Restart

SweepSpec == Init /\ [][SweepNext]_vars /\ WF_vars(Sweep)

\* Ids are interchangeable (only for runs without liveness).
Symmetric == Permutations(Sessions) \cup Permutations(Panes) \cup Permutations(Jobs)
===============================================================================
