--------------------------------- MODULE MCServer --------------------------------
(***************************************************************************)
(* One TLC run over components of the server that do not meet: a behaviour *)
(* is one of `part', and the other components stay as they start.  The     *)
(* state spaces add up instead of multiplying.                             *)
(***************************************************************************)
EXTENDS ViewConnection

CONSTANTS
  Parts,                                                     \* those a run is about
  MaxText, MaxChunk, MaxChunks, SizeLimit,                   \* OutputBatch
  Sessions, OfActive, MaxEvents, MaxBoots, MaxRestarts,      \* EventWatcher
  Projects, Uploads, MaxRuns, HistoryLimit,                  \* Maintenance
  MaxShows, Kept                                             \* AgentShows

ASSUME TextIsBounded == MaxText \in Nat /\ MaxChunks \in Nat
ASSUME EventsAreBounded == MaxEvents \in Nat /\ MaxBoots \in Nat \ {0} /\ MaxRestarts \in Nat
ASSUME RunsAreBounded == MaxRuns \in Nat /\ HistoryLimit \in Nat
ASSUME ShowsAreBounded == MaxShows \in Nat /\ Kept \in Nat \ {0}

VARIABLES
  part,
  \* OutputBatch
  text, chunks, taken, utf8, batch, frames, holds, loop,
  \* EventWatcher
  tether, ended, linked, watch, seen, restarts,
  \* Maintenance
  catalog, tetherUp, rows, files, lock, cycle, status, history, stopped,
  \* AgentShows
  sent, ring, pushed, cursor, known, undismissed, answer, visible, offered

batching == <<text, chunks, taken, utf8, batch, frames, holds, loop>>
watcher == <<tether, ended, linked, watch, seen, restarts>>
maintenance == <<catalog, tetherUp, rows, files, lock, cycle, status, history, stopped>>
shows == <<sent, ring, pushed, cursor, known, undismissed, answer, visible, offered>>

OB == INSTANCE OutputBatch WITH
        MaxBytes <- MaxText, written <- text, queue <- chunks, sent <- frames
EW == INSTANCE EventWatcher WITH
        Owner <- [s \in Sessions |-> IF s \in OfActive THEN "active" ELSE "agent"]
MA == INSTANCE Maintenance
AS == INSTANCE AgentShows WITH pending <- undismissed

Of(p) == part = p /\ part' = part

ServerInit ==
  /\ part \in Parts
  /\ Init /\ (part # "connection" => kind = "tether")
  /\ OB!Init
  /\ EW!Init
  /\ MA!Init
  /\ AS!Init

ServerNext ==
  \/ /\ Of("connection") /\ Next
     /\ UNCHANGED <<batching, watcher, maintenance, shows>>
  \/ /\ Of("batching") /\ OB!Next
     /\ UNCHANGED <<vars, watcher, maintenance, shows>>
  \/ /\ Of("watcher") /\ EW!Next
     /\ UNCHANGED <<vars, batching, maintenance, shows>>
  \/ /\ Of("maintenance") /\ MA!Next
     /\ UNCHANGED <<vars, batching, watcher, shows>>
  \/ /\ Of("shows") /\ AS!Next
     /\ UNCHANGED <<vars, batching, watcher, maintenance>>

ServerVars == <<part, vars, batching, watcher, maintenance, shows>>

ServerSpec ==
  /\ ServerInit /\ [][ServerNext]_ServerVars
  /\ \A v \in Views : WF_vars(part = "connection" /\ Handler(v))
  /\ WF_batching(part = "batching" /\ OB!TakeChunk)
  /\ WF_batching(part = "batching" /\ OB!Pause)

-------------------------------------------------------------------------------

\* Every component keeps its types.
TypesOK == TypeOK /\ OB!TypeOK /\ EW!TypeOK /\ MA!TypeOK /\ AS!TypeOK

\* The properties of the components, each stated in its module.
TextIsWhole == OB!TextIsWhole
LinksFollowEnds == EW!LinksFollowEnds
CyclesAreSafe == MA!CyclesAreSafe
ShownOnce == AS!ShownOnce

\* Nothing waits for ever on the server: a view whose browser is gone ends, whatever its
\* handler was waiting for, and text that was held back is sent although no more comes.
NothingWaitsForEver == BrowserEndEndsView /\ OB!HeldTextIsSent
==================================================================================
