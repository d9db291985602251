--------------------------------- MODULE Compose ---------------------------------
(***************************************************************************)
(* The compose field and the drafts behind it (NativeKeyboardInput.tsx):   *)
(* text typed for a session stays a draft until it was inserted or sent.   *)
(* A commit pastes it in chunks through the handle of the session's view   *)
(* (compose-input.ts, use-bracketed-paste.ts, use-a-term-handle.ts), and   *)
(* sendInput drops what it is given without an open socket, without a      *)
(* word.  Meanwhile the user moves between sessions and types on, and the  *)
(* views lose their sockets, come back, hide, and are replaced.            *)
(*                                                                         *)
(* A text is a number, later ones larger; 0 is an empty field.  A text is  *)
(* pasted in one chunk or in two, with a timer in between.  What the code  *)
(* compares later (the revision of the draft, the handle) is a flag of the *)
(* commit: whether it is still the one the commit began with.              *)
(***************************************************************************)
EXTENDS Integers

CONSTANTS Sessions,
          MaxTexts,   \* bound: texts typed
          MaxBreaks   \* bound: what happens to views

VARIABLES
  phone,      \* the field of the phone's keyboard, not the desktop's
  drafts,     \* drafts[s]: the text, 0 for none
  commit,     \* commit[s]: the commit of pendingCommits, or NoCommit
  field,      \* the field that is mounted: its session, value and busy flag
  view,       \* view[s]: the view of s and the handle it gave
  texts,      \* the last text
  breaks,
  typed,      \* history: the text the user last left in the field for s
  arrived,    \* history: the last text that went over a socket of s, all of it
  unnoticed   \* history: texts under way when a socket went and the handle stayed

draft == <<drafts, typed>>
vars == <<phone, draft, commit, field, view, texts, breaks, arrived, unnoticed>>

NoCommit == [text |-> 0]
Pending(s) == commit[s] # NoCommit

\* A view: its status and whether its socket is open, or one is being opened; its
\* handle in aTermRefs, if it is mounted, with the status the handle was made with.
Init ==
  /\ phone \in BOOLEAN
  /\ drafts = [s \in Sessions |-> 0] /\ typed = drafts /\ arrived = drafts
  /\ commit = [s \in Sessions |-> NoCommit]
  /\ field \in [session : Sessions, value : {0}, busy : {FALSE}]
  /\ view = [s \in Sessions |-> [status |-> "connected", socket |-> "open",
                                 mounted |-> TRUE, said |-> "connected"]]
  /\ texts = 0 /\ breaks = 0
  /\ unnoticed = {}

-------------------------------------------------------------------------------
(***************************************************************************)
(* The field.                                                              *)
(***************************************************************************)

\* saveDraft: a new revision, so a commit under way is of an older one.
SaveDraft(s, text) ==
  /\ drafts' = [drafts EXCEPT ![s] = text]
  /\ commit' = IF Pending(s) THEN [commit EXCEPT ![s].latest = FALSE] ELSE commit

\* handleChange: more text, or the field is emptied.  The phone's field is
\* read-only while a commit of its session is pending, the desktop's while a
\* commit it began itself is.
Type(text) ==
  LET s == field.session IN
  /\ ~field.busy /\ (phone => ~Pending(s))
  /\ text \in {0, texts + 1} /\ text # field.value /\ texts' = texts + 1
  /\ texts < MaxTexts
  /\ field' = [field EXCEPT !.value = text]
  /\ SaveDraft(s, text)
  /\ typed' = [typed EXCEPT ![s] = text]
  /\ UNCHANGED <<phone, view, breaks, arrived, unnoticed>>

\* commit and commitComposeInput, up to the paste.  The text is the field's, or
\* what the phone's autocorrect has just made of it.
Submit(action, text) ==
  LET s == field.session IN
  /\ ~field.busy /\ ~Pending(s) /\ view[s].said = "connected"
  /\ field.value # 0
  /\ \/ text = field.value /\ UNCHANGED texts
     \/ phone /\ texts < MaxTexts /\ text = texts + 1 /\ texts' = text
  /\ drafts' = [drafts EXCEPT ![s] = text]
  /\ typed' = [typed EXCEPT ![s] = text]
  /\ field' = [field EXCEPT !.value = text, !.busy = view[s].mounted]
  /\ commit' = IF ~view[s].mounted THEN commit
               ELSE [commit EXCEPT ![s] =
                       [text |-> text, action |-> action, at |-> "queued", head |-> FALSE,
                        latest |-> TRUE, same |-> TRUE, alive |-> TRUE, here |-> TRUE]]
  /\ unnoticed' = IF view[s].mounted /\ view[s].socket # "open"
                  THEN unnoticed \cup {text} ELSE unnoticed \ {text}
  /\ UNCHANGED <<phone, view, breaks, arrived>>

\* Another session is active: a new field (its key is the session), which reads
\* its draft.
Switch(s) ==
  /\ s # field.session
  /\ field' = [session |-> s, value |-> drafts[s], busy |-> FALSE]
  /\ commit' = [t \in Sessions |->
                  IF Pending(t) THEN [commit[t] EXCEPT !.here = FALSE] ELSE NoCommit]
  /\ UNCHANGED <<phone, draft, view, texts, breaks, arrived, unnoticed>>

-------------------------------------------------------------------------------
(***************************************************************************)
(* The paste and what follows it.                                          *)
(***************************************************************************)

\* sendInput, of the view the commit began with.
Carried(s) == view[s].socket = "open" /\ commit[s].alive

\* The paste's turn in the queue of pastes: the first chunk of two.
PasteBegins(s) ==
  /\ Pending(s) /\ commit[s].at = "queued"
  /\ commit' = [commit EXCEPT ![s].at = "halfway", ![s].head = Carried(s)]
  /\ UNCHANGED <<phone, draft, field, view, texts, breaks, arrived, unnoticed>>

\* Bug: any handle that says connected will do after the paste.
Connected(s) == view[s].mounted /\ view[s].said = "connected"

\* The look at the handle after the paste.
StillThere(s) == view[s].mounted /\ view[s].said = "connected" /\ commit[s].same

\* The last chunk (or the only one), and without a pause between them the Enter,
\* the verdict, and the effect of the field that shows the session now.
PasteEnds(s) ==
  LET c == commit[s]
      whole == Carried(s) /\ (c.at = "queued" \/ c.head)
               /\ (c.action = "send" => StillThere(s))
  IN /\ Pending(s)
     /\ drafts' = IF StillThere(s) /\ c.latest THEN [drafts EXCEPT ![s] = 0] ELSE drafts
     /\ commit' = [commit EXCEPT ![s] = NoCommit]
     /\ field' = IF field.session # s THEN field
                 ELSE [field EXCEPT !.value = drafts'[s], !.busy = (@ /\ ~c.here)]
     /\ arrived' = IF whole THEN [arrived EXCEPT ![s] = c.text] ELSE arrived
     /\ UNCHANGED <<phone, typed, view, texts, breaks, unnoticed>>

-------------------------------------------------------------------------------
(***************************************************************************)
(* The views.                                                              *)
(***************************************************************************)

\* What happens to the view of s under a commit: its socket goes, so no text that
\* is halfway over it gets there whole, or the handle is another from here on.
SocketGoes(s) ==
  /\ breaks < MaxBreaks /\ breaks' = breaks + 1
  /\ commit' = IF Pending(s) THEN [commit EXCEPT ![s].head = FALSE] ELSE commit
  /\ unnoticed' = IF Pending(s) /\ commit[s].same THEN unnoticed \cup {commit[s].text}
                  ELSE unnoticed
  /\ UNCHANGED <<phone, draft, field, texts, arrived>>

HandleGoes(s, body) ==
  /\ commit' = IF ~Pending(s) THEN commit
               ELSE [commit EXCEPT ![s].same = FALSE, ![s].alive = @ /\ body,
                                   ![s].head = @ /\ body]
  /\ unnoticed' = unnoticed \ {commit[s].text}
  /\ UNCHANGED <<phone, draft, field, texts, arrived>>

\* The socket fails, or reconnect() lets it go: the status is set, to be rendered.
Drops(s) ==
  /\ view[s].socket = "open"
  /\ view' = [view EXCEPT ![s].socket = "opening", ![s].status = "connecting"]
  /\ SocketGoes(s)

\* A hidden view disconnects and a shown one connects; neither sets the status.
Hides(s) ==
  /\ view[s].mounted /\ view[s].socket # "none"
  /\ view' = [view EXCEPT ![s].socket = "none"]
  /\ SocketGoes(s)

Shows(s) ==
  /\ view[s].mounted /\ view[s].socket = "none"
  /\ view' = [view EXCEPT ![s].socket = "opening"]
  /\ UNCHANGED <<phone, draft, commit, field, texts, breaks, arrived, unnoticed>>

Opens(s) ==
  /\ view[s].socket = "opening"
  /\ view' = [view EXCEPT ![s].socket = "open", ![s].status = "connected"]
  /\ UNCHANGED <<phone, draft, commit, field, texts, breaks, arrived, unnoticed>>

\* A render with another status makes another handle.
Renders(s) ==
  /\ view[s].mounted /\ view[s].status # view[s].said
  /\ view' = [view EXCEPT ![s].said = view[s].status]
  /\ HandleGoes(s, TRUE)
  /\ UNCHANGED breaks

\* The view of the session is unmounted (its status stays in the map of
\* statuses), and another is mounted for it.
Leaves(s) ==
  /\ view[s].mounted
  /\ breaks < MaxBreaks /\ breaks' = breaks + 1
  /\ view' = [view EXCEPT ![s].mounted = FALSE, ![s].socket = "none",
                          ![s].status = "connecting"]
  /\ HandleGoes(s, FALSE)

Mounts(s) ==
  /\ ~view[s].mounted
  /\ view' = [view EXCEPT ![s].mounted = TRUE, ![s].said = "connecting",
                          ![s].socket = "opening"]
  /\ UNCHANGED <<phone, draft, commit, field, texts, breaks, arrived, unnoticed>>

-------------------------------------------------------------------------------

User ==
  \/ \E text \in 0..MaxTexts : Type(text) \/ \E a \in {"insert", "send"} : Submit(a, text)
  \/ \E s \in Sessions : Switch(s)
Pastes == \E s \in Sessions : PasteBegins(s) \/ PasteEnds(s)
Views == \E s \in Sessions : \/ Drops(s) \/ Hides(s) \/ Shows(s) \/ Opens(s)
                             \/ Renders(s) \/ Leaves(s) \/ Mounts(s)

Next == User \/ Pastes \/ Views

Spec == Init /\ [][Next]_vars

-------------------------------------------------------------------------------

\* The types of the variables.
TypeOK ==
  /\ phone \in BOOLEAN
  /\ {drafts, typed, arrived} \subseteq [Sessions -> 0..MaxTexts]
  /\ \A s \in Sessions : Pending(s) =>
       commit[s] \in [text : 1..MaxTexts, action : {"insert", "send"},
                     at : {"queued", "halfway"}, head : BOOLEAN, latest : BOOLEAN,
                     same : BOOLEAN, alive : BOOLEAN, here : BOOLEAN]
  /\ field \in [session : Sessions, value : 0..MaxTexts, busy : BOOLEAN]
  /\ view \in [Sessions -> [status : {"connecting", "connected"}, mounted : BOOLEAN,
                            socket : {"none", "opening", "open"},
                            said : {"connecting", "connected"}]]
  /\ unnoticed \subseteq 1..MaxTexts

\* What the user left in the field is never lost: it is the draft, and what the
\* field shows, until all of it went over one socket ("Send was interrupted ...
\* your draft is saved"; "A queued paste may outlive a disconnect or a pane
\* replacement").  A commit that fails, a commit of an older text, a field that is
\* another by the time the commit ends: none of them clears it.  The exception is
\* what the code does not see: a socket that went while the handle stayed the same.
DraftsKept ==
  /\ field.value = drafts[field.session]
  /\ \A s \in Sessions : drafts[s] # typed[s] =>
       drafts[s] = 0 /\ (arrived[s] = typed[s] \/ typed[s] \in unnoticed)
==================================================================================
