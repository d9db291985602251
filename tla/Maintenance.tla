------------------------------- MODULE Maintenance ------------------------------
(***************************************************************************)
(* The maintenance cycle (services/maintenance.py) and what it tidies: the *)
(* settings of projects (storage/project_settings.py) against Tether's     *)
(* catalog (services/project_catalog.py), and uploads                      *)
(* (services/upload_cleanup.py).  PaneLinks has the pass over the links.   *)
(*                                                                         *)
(* A cycle is asked for by the startup, the interval or a request, runs in *)
(* a thread of its own and is skipped when one runs already.  Requests     *)
(* register projects and write settings while it runs, and Tether may be   *)
(* away or list nothing.                                                   *)
(***************************************************************************)
EXTENDS Naturals, Sequences, FiniteSets

CONSTANTS
  Projects,    \* project ids
  Uploads,     \* files of the upload directory
  MaxRuns,     \* bound: cycles
  HistoryLimit \* _HISTORY_LIMIT

VARIABLES
  catalog,  \* projects Tether lists
  tetherUp, \* whether Tether answers
  rows,     \* projects with a row of settings
  files,    \* files[f]: "none", "young" or "old"
  lock,     \* _cycle_lock: the cycle that holds it, or 0
  cycle,    \* cycle[n]: where the thread of run n is, and what it read
  status,   \* the status record
  history,  \* the record of runs
  stopped   \* stop_scheduler was called

vars == <<catalog, tetherUp, rows, files, lock, cycle, status, history, stopped>>
world == <<catalog, tetherUp, rows, files>>
record == <<lock, status, history, stopped>>

Runs == 1..MaxRuns
Stages == {"none", "links", "uploads", "unlink", "projects", "settings", "done", "failed"}

Init ==
  /\ catalog = Projects
  /\ tetherUp = TRUE
  /\ rows = {}
  /\ files = [f \in Uploads |-> "none"]
  /\ lock = 0
  /\ cycle = [n \in Runs |-> [at |-> "none", read |-> {}, reason |-> "startup"]]
  /\ status = [state |-> "idle", error |-> FALSE, runs |-> 0]
  /\ history = <<>>
  /\ stopped = FALSE

-------------------------------------------------------------------------------
(***************************************************************************)
(* The cycle.                                                              *)
(***************************************************************************)

\* Bug: the history grows.
RecordAll(run, result) == Append(history, [run |-> run, result |-> result])

\* The deque of the last runs.
Record(run, result) ==
  LET all == Append(history, [run |-> run, result |-> result])
  IN IF Len(all) > HistoryLimit THEN Tail(all) ELSE all

\* Bug: nobody looks at the lock.
LockedNever == FALSE

\* _cycle_lock.locked().
Locked == lock # 0

\* run_cycle up to the thread.  Nothing is awaited between the look at the lock
\* and taking it.
RunCycle(reason) ==
  LET run == status.runs + 1 IN
  /\ reason = "startup" <=> run = 1
  /\ ~stopped \/ reason = "manual"
  /\ IF Locked
     THEN /\ history' = Record(run, "skipped")
          /\ UNCHANGED <<lock, status, cycle>>
     ELSE /\ run <= MaxRuns
          /\ lock' = run
          /\ status' = [state |-> "running", error |-> FALSE, runs |-> run]
          /\ cycle' = [cycle EXCEPT ![run] = [at |-> "links", read |-> {}, reason |-> reason]]
          /\ UNCHANGED history
  /\ UNCHANGED <<world, stopped>>

\* reconcile_links raises when Tether is away.
TidyLinks(n) ==
  /\ cycle[n].at = "links"
  /\ cycle' = [cycle EXCEPT ![n].at = IF tetherUp THEN "uploads" ELSE "failed"]
  /\ UNCHANGED <<world, record>>

\* cleanup_old_uploads: the directory is listed and judged, then the files go
\* one by one; a file that cannot be read or deleted is counted and passed over.
ListUploads(n) ==
  /\ cycle[n].at = "uploads"
  /\ \E next \in {"unlink", "failed"} : cycle' = [cycle EXCEPT ![n].at = next]
  /\ UNCHANGED <<world, record>>

DeleteUploads(n) ==
  /\ cycle[n].at = "unlink"
  /\ \E deleted \in SUBSET {f \in Uploads : files[f] = "old"} :
       files' = [f \in Uploads |-> IF f \in deleted THEN "none" ELSE files[f]]
  /\ cycle' = [cycle EXCEPT ![n].at = "projects"]
  /\ UNCHANGED <<catalog, tetherUp, rows, record>>

\* list_projects_sync; a body without projects is an empty list.
ListProjects(n) ==
  /\ cycle[n].at = "projects"
  /\ \E odd \in BOOLEAN :
       cycle' = [cycle EXCEPT ![n].at = IF tetherUp THEN "settings" ELSE "failed",
                              ![n].read = IF odd THEN {} ELSE catalog]
  /\ UNCHANGED <<world, record>>

\* Bug: a catalog that lists nothing prunes everything.
PrunedByAny(valid) == rows \cap valid

\* prune_missing_projects, which _project_settings_cleanup skips for an empty
\* list.
Pruned(valid) == IF valid = {} THEN rows ELSE rows \cap valid

PruneSettings(n) ==
  /\ cycle[n].at = "settings"
  /\ rows' = Pruned(cycle[n].read)
  /\ cycle' = [cycle EXCEPT ![n].at = "done"]
  /\ UNCHANGED <<catalog, tetherUp, files, record>>

\* run_cycle after the thread: the record and the status, and the lock is free.
FinishCycle(n) ==
  /\ lock = n
  /\ cycle[n].at \in {"done", "failed"}
  /\ lock' = 0
  /\ history' = Record(n, IF cycle[n].at = "done" THEN "success" ELSE "failed")
  /\ status' = [status EXCEPT !.state = "idle", !.error = cycle[n].at = "failed"]
  /\ UNCHANGED <<world, cycle, stopped>>

\* stop_scheduler cancels the loop: a cycle of the loop lets go of the lock,
\* whatever its thread still does, and nobody writes the status.
Stop ==
  /\ ~stopped
  /\ status.runs > 0
  /\ \A n \in Runs : lock = n => cycle[n].reason # "startup"
  /\ stopped' = TRUE
  /\ lock' = IF \E n \in Runs : lock = n /\ cycle[n].reason = "interval" THEN 0 ELSE lock
  /\ UNCHANGED <<world, cycle, status, history>>

-------------------------------------------------------------------------------
(***************************************************************************)
(* Requests, Tether and time.                                              *)
(***************************************************************************)

Unaware == UNCHANGED <<lock, cycle, status, history, stopped>>

\* register_local_project, or another app: a project is listed from now on.
Register(p) ==
  /\ tetherUp
  /\ catalog' = catalog \cup {p}
  /\ UNCHANGED <<tetherUp, rows, files>> /\ Unaware

Unregister(p) ==
  /\ catalog' = catalog \ {p}
  /\ UNCHANGED <<tetherUp, rows, files>> /\ Unaware

\* upsert_settings, as update_project_settings, set_project_mode and
\* disable_project call it: the project need not be listed.
UpsertSettings(p) ==
  /\ rows' = rows \cup {p}
  /\ UNCHANGED <<catalog, tetherUp, files>> /\ Unaware

TetherComesAndGoes ==
  /\ tetherUp' = ~tetherUp
  /\ UNCHANGED <<catalog, rows, files>> /\ Unaware

\* _save_upload, and the passing of UPLOAD_MAX_AGE_SECONDS.
SaveUpload(f) ==
  /\ files[f] = "none"
  /\ files' = [files EXCEPT ![f] = "young"]
  /\ UNCHANGED <<catalog, tetherUp, rows>> /\ Unaware

Age(f) ==
  /\ files[f] = "young"
  /\ files' = [files EXCEPT ![f] = "old"]
  /\ UNCHANGED <<catalog, tetherUp, rows>> /\ Unaware

Cycle(n) ==
  \/ TidyLinks(n) \/ ListUploads(n) \/ DeleteUploads(n) \/ ListProjects(n)
  \/ PruneSettings(n) \/ FinishCycle(n)

Next ==
  \/ \E reason \in {"startup", "interval", "manual"} : RunCycle(reason)
  \/ \E n \in Runs : Cycle(n)
  \/ Stop
  \/ \E p \in Projects : Register(p) \/ Unregister(p) \/ UpsertSettings(p)
  \/ \E f \in Uploads : SaveUpload(f) \/ Age(f)
  \/ TetherComesAndGoes

Spec == Init /\ [][Next]_vars

-------------------------------------------------------------------------------
(***************************************************************************)
(* Properties.                                                             *)
(***************************************************************************)

TypeOK ==
  /\ catalog \subseteq Projects
  /\ tetherUp \in BOOLEAN
  /\ rows \subseteq Projects
  /\ files \in [Uploads -> {"none", "young", "old"}]
  /\ lock \in 0..MaxRuns
  /\ cycle \in [Runs -> [at : Stages, read : SUBSET Projects,
                         reason : {"startup", "interval", "manual"}]]
  /\ status \in [state : {"idle", "running"}, error : BOOLEAN, runs : 0..MaxRuns]
  /\ history \in Seq([run : 1..MaxRuns + 1, result : {"skipped", "success", "failed"}])
  /\ Len(history) <= HistoryLimit
  /\ stopped \in BOOLEAN

UnderWay(n) == cycle[n].at \notin {"none", "done", "failed"}

\* Two cycles never work at the same time ("concurrent requests skip instead of
\* queueing"), and the status says running exactly while one does, however it
\* ends: until the loop is cancelled in the middle of one.
CyclesDoNotOverlap ==
  ~stopped => /\ Cardinality({n \in Runs : UnderWay(n)}) <= 1
              /\ status.state = "running" <=> lock # 0

\* A pass deletes the settings of a project only if Tether listed projects and
\* not this one: never for an outage, and never because it listed nothing.
SettingsOutliveOutages ==
  [][\A p \in rows \ rows' :
       \E n \in Runs : cycle[n].at = "settings" /\ cycle[n].read \notin {{}, {p}}
                        /\ p \notin cycle[n].read]_vars

\* Both: cycles take turns, and what they delete was listed without its project.
CyclesAreSafe == []CyclesDoNotOverlap /\ SettingsOutliveOutages
===============================================================================
