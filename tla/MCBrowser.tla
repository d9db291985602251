-------------------------------- MODULE MCBrowser --------------------------------
(***************************************************************************)
(* One TLC run over components of the browser that do not meet: a          *)
(* behaviour is one of `part', and the other components stay as they       *)
(* start.  The state spaces add up instead of multiplying.                 *)
(***************************************************************************)
EXTENDS ViewSocket

CONSTANTS
  Parts,                              \* those a run is about
  MaxOutput, MaxConnects, MaxWire,    \* WriteQueue
  MaxStarts, Rounds,                  \* AgentPolling
  Windows, OwnedPanes, MaxTurns,      \* WindowOwnership
  CachedPanes, Requests, MaxChanges,  \* PaneCache
  Sessions, MaxMoves,                 \* ActiveSession
  MaxPanes,                           \* AutoCreate
  MaxWords, MaxCycles,                \* Dictation
  MaxTexts, MaxBreaks,                \* Compose
  MaxUploads,                         \* Uploads
  SizeCount, MaxEvents,               \* SizeClaims
  MaxTime, MaxOpens                   \* Attention

VARIABLES
  part,
  \* WriteQueue
  output, connected, connects, wire, asked, visible, up, pending, writing, held, term, streams,
  \* AgentPolling
  hookMounted, posts, poll, ref, isPolling,
  \* WindowOwnership
  panes, open, known, registry, stale, claimed, shows, told, changing, turns,
  \* PaneCache
  place, swapped, active, detached, fetch, request, changes, excused,
  \* ActiveSession
  mobile, list, shownPanes, owned, attached, url, persisted, wanted, moves,
  \* AutoCreate
  server, elsewhere, born, listing, loaded, showing, external, creating, user, making, prev,
  due, flow, newPane, cancelled, before,
  \* Dictation
  cumulative, rec, requested, status, failed, final, interim, cycle, guess, panel, edited,
  baseline, recognized, said, cycles, settled, gone, sent,
  \* Compose
  phone, drafts, commit, field, view, texts, breaks, typed, arrived, unnoticed,
  \* Uploads
  chosen, handles, target, dialog, uploads, isUploading,
  \* SizeClaims
  page, size, link, rendered, timers, lastClaim, way, late, window, beaten, events,
  \* Attention
  time, agent, fetched, opened, seenWindows, store, copies, notice, watched, lost, opens

writes == <<output, connected, connects, wire, asked, visible, up, pending, writing, held,
            term, streams>>
polling == <<hookMounted, posts, poll, ref, isPolling>>
ownership == <<panes, open, known, registry, stale, claimed, shows, told, changing, turns>>
cache == <<place, swapped, active, detached, fetch, request, changes, excused>>
session == <<mobile, list, shownPanes, owned, attached, url, persisted, wanted, moves>>
autocreate == <<server, elsewhere, born, listing, loaded, showing, external, creating, user,
                making, prev, due, flow, newPane, cancelled, before>>
dictation == <<cumulative, rec, requested, status, failed, final, interim, cycle, guess, panel,
               edited, baseline, recognized, said, cycles, settled, gone, sent>>
compose == <<phone, drafts, commit, field, view, texts, breaks, typed, arrived, unnoticed>>
files == <<chosen, handles, target, dialog, uploads, isUploading>>
sizes == <<page, size, link, rendered, timers, lastClaim, way, late, window, beaten, events>>
attention == <<time, agent, fetched, opened, seenWindows, store, copies, notice, watched, lost,
               opens>>

WQ == INSTANCE WriteQueue
AP == INSTANCE AgentPolling WITH mounted <- hookMounted
WO == INSTANCE WindowOwnership WITH Panes <- OwnedPanes
PC == INSTANCE PaneCache WITH Panes <- CachedPanes
AS == INSTANCE ActiveSession WITH panes <- shownPanes, asked <- wanted
AC == INSTANCE AutoCreate WITH fetch <- listing, panes <- showing, ref <- making
DI == INSTANCE Dictation
CO == INSTANCE Compose
UP == INSTANCE Uploads WITH None <- 0, mounted <- handles
SZ == INSTANCE SizeClaims WITH last <- lastClaim
AT == INSTANCE Attention WITH
        Nobody <- 0, list <- fetched, open <- opened, visible <- seenWindows, cache <- copies

\* What the proofs use: a poll makes a request at least, words and cycles are bounded, and the
\* sessions are numbered from 1, 0 being none.
ASSUME PollBounds == Rounds \in Nat \ {0} /\ MaxStarts \in Nat
ASSUME SessionsNumbered == Sessions \subseteq Nat \ {0}
ASSUME WordsAreBounded == MaxWords \in Nat /\ MaxCycles \in Nat
ASSUME BoundsAreNumbers ==
  /\ {MaxOutput, MaxConnects, MaxTurns, MaxChanges, MaxMoves, MaxTexts, MaxUploads,
      MaxEvents, MaxTime, MaxOpens} \subseteq Nat
  /\ {MaxWire, MaxPanes, SizeCount} \subseteq Nat \ {0}

\* Each window has a session of its own open.
OneEach == CHOOSE f \in [Windows -> Sessions] : \A v, w \in Windows : f[v] = f[w] => v = w

Of(p) == part = p /\ part' = part

BrowserInit ==
  /\ part \in Parts
  /\ Init
  /\ WQ!Init
  /\ AP!Init
  /\ WO!Init
  /\ PC!Init /\ (part # "cache" => \A p \in CachedPanes : place[p] = "none")
  /\ AS!Init /\ (part # "session" => /\ mobile /\ url = AS!None /\ persisted = AS!None
                                     /\ \A s \in Sessions : list[s] = "gone")
  /\ AC!Init /\ (part # "autocreate" => server = {} /\ ~elsewhere)
  /\ DI!Init /\ (part # "dictation" => ~cumulative)
  /\ CO!Init /\ field.session = 1 /\ (part # "compose" => phone)   \* sessions are alike
  /\ UP!Init /\ chosen = 1
  /\ SZ!Init
  /\ AT!Init /\ opened = OneEach

BrowserNext ==
  \/ /\ Of("socket") /\ Next
     /\ UNCHANGED <<writes, polling, ownership, cache, session, autocreate, dictation, compose,
                    files, sizes, attention>>
  \/ /\ Of("writes") /\ WQ!Next
     /\ UNCHANGED <<vars, polling, ownership, cache, session, autocreate, dictation, compose,
                    files, sizes, attention>>
  \/ /\ Of("polling") /\ AP!Next
     /\ UNCHANGED <<vars, writes, ownership, cache, session, autocreate, dictation, compose,
                    files, sizes, attention>>
  \/ /\ Of("ownership") /\ WO!Next
     /\ UNCHANGED <<vars, writes, polling, cache, session, autocreate, dictation, compose,
                    files, sizes, attention>>
  \/ /\ Of("cache") /\ PC!Next
     /\ UNCHANGED <<vars, writes, polling, ownership, session, autocreate, dictation, compose,
                    files, sizes, attention>>
  \/ /\ Of("session") /\ AS!Next
     /\ UNCHANGED <<vars, writes, polling, ownership, cache, autocreate, dictation, compose,
                    files, sizes, attention>>
  \/ /\ Of("autocreate") /\ AC!Next
     /\ UNCHANGED <<vars, writes, polling, ownership, cache, session, dictation, compose,
                    files, sizes, attention>>
  \/ /\ Of("dictation") /\ DI!Next
     /\ UNCHANGED <<vars, writes, polling, ownership, cache, session, autocreate, compose,
                    files, sizes, attention>>
  \/ /\ Of("compose") /\ CO!Next
     /\ UNCHANGED <<vars, writes, polling, ownership, cache, session, autocreate, dictation,
                    files, sizes, attention>>
  \/ /\ Of("uploads") /\ UP!Next
     /\ UNCHANGED <<vars, writes, polling, ownership, cache, session, autocreate, dictation,
                    compose, sizes, attention>>
  \/ /\ Of("sizes") /\ SZ!Next
     /\ UNCHANGED <<vars, writes, polling, ownership, cache, session, autocreate, dictation,
                    compose, files, attention>>
  \/ /\ Of("attention") /\ AT!Next
     /\ UNCHANGED <<vars, writes, polling, ownership, cache, session, autocreate, dictation,
                    compose, files, sizes>>

BrowserVars ==
  <<part, vars, writes, polling, ownership, cache, session, autocreate, dictation, compose,
    files, sizes, attention>>

BrowserSpec ==
  /\ BrowserInit /\ [][BrowserNext]_BrowserVars
  /\ \A w \in Sockets : WF_vars(part = "socket" /\ ConnectionTimeout(w))
  /\ \A w \in Sockets : WF_vars(part = "socket" /\ sock[w] = "closing" /\ Closes(w, FALSE))
  /\ WF_session(part = "session" /\ AS!Effects)

-------------------------------------------------------------------------------

\* Every component keeps its types; those that stay as they start do so trivially.
TypesOK ==
  /\ part = "socket" => TypeOK
  /\ part = "writes" => WQ!TypeOK
  /\ part = "polling" => AP!TypeOK
  /\ part = "ownership" => WO!TypeOK
  /\ part = "cache" => PC!TypeOK
  /\ part = "session" => AS!TypeOK
  /\ part = "autocreate" => AC!TypeOK
  /\ part = "dictation" => DI!TypeOK
  /\ part = "compose" => CO!TypeOK
  /\ part = "uploads" => UP!TypeOK
  /\ part = "sizes" => SZ!TypeOK
  /\ part = "attention" => AT!TypeOK

\* The sockets are alike, so AttemptsEnd is checked of one.  (The part is there for
\* TLC: a behaviour of another one has nothing to show.)
SocketAttemptEnds == part = "socket" => AttemptEnds(CHOOSE w \in Sockets : TRUE)

\* The other properties of the components, each stated in its module.
CaughtUp == WQ!CaughtUp
OneStreamOnScreen == WQ!OneStreamOnScreen
PollingEnds == AP!PollingEnds
OwnersDisjoint == WO!OwnersDisjoint
CachesSettle == PC!CachesSettle
NoUnaskedSession == AS!NoUnaskedSession
EffectsRest == part = "session" => AS!EffectsRest
ShownWhileThere == AC!ShownWhileThere
WordsKept == DI!WordsKept
DraftsKept == CO!DraftsKept
PathsGoWhereGiven == UP!PathsGoWhereGiven
ActiveViewSizes == SZ!ActiveViewSizes
AttentionUntilOpened == AT!AttentionUntilOpened

\* What the browser begins by itself comes to an end: an attempt to connect, which opens,
\* fails or times out, and the effects of a window that set off one another.
EverythingSettles == SocketAttemptEnds /\ EffectsRest
==================================================================================
