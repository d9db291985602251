--------------------------------- MODULE Uploads ---------------------------------
(***************************************************************************)
(* Files given to a pane (use-a-term-action-handlers.ts,                   *)
(* use-file-upload.ts, FileUploadDropzone.tsx): a file is chosen in the    *)
(* dialog that a pane's menu opened, pasted into a pane, or dropped; it is *)
(* uploaded, and its path is pasted.  All panes share one input, one ref   *)
(* that remembers who opened its dialog, and one flag that an upload is    *)
(* under way; uploads do overlap, and panes come and go under them.        *)
(***************************************************************************)
EXTENDS Integers, Sequences

CONSTANTS Sessions,
          None,        \* no session: null, or no pasting
          MaxUploads   \* bound: uploads

VARIABLES
  chosen,      \* activeSessionId
  mounted,     \* the sessions with a handle in aTermRefs
  target,      \* uploadTargetRef
  dialog,      \* the file dialog: whose menu opened it, and whether an upload ended since
  uploads,     \* the uploads in the order they began
  isUploading

vars == <<chosen, mounted, target, dialog, uploads, isUploading>>

Dialog(isOpen, s) == [isOpen |-> isOpen, pane |-> s, cleared |-> FALSE]
Closed == Dialog(FALSE, None)

Init ==
  /\ chosen \in Sessions /\ mounted = Sessions
  /\ target = None /\ dialog = Closed
  /\ uploads = << >> /\ isUploading = FALSE

UnderWay(n) == uploads[n].at = "under way"

\* handleFileSelect up to its await.  A file over the limit is refused at once, and
\* like every end of an upload that clears the ref.
Select(given, meant, misled) ==
  /\ Len(uploads) < MaxUploads
  /\ \/ /\ uploads' = Append(uploads,
             [at |-> "under way", active |-> chosen, meant |-> meant, misled |-> misled,
              pasted |-> None,
              target |-> IF given # None THEN given ELSE target])
        /\ isUploading' = TRUE
        /\ UNCHANGED target
     \/ target' = None /\ UNCHANGED <<uploads, isUploading>>

\* handleUploadClick: a pane's menu; the pane may have no session.  The dialog keeps the
\* user from the page.
UploadClick(s) ==
  /\ dialog = Closed /\ s \in mounted \cup {None}
  /\ target' = s
  /\ dialog' = Dialog(TRUE, s)
  /\ UNCHANGED <<chosen, mounted, uploads, isUploading>>

\* handleFileInputChange with a file.
Choose ==
  /\ dialog.isOpen /\ dialog' = Closed
  /\ Select(None, dialog.pane, dialog.cleared \/ dialog.pane = None)
  /\ UNCHANGED <<chosen, mounted>>

\* The dialog is cancelled: not every browser reports a change then.
CancelDialog ==
  /\ dialog.isOpen /\ dialog' = Closed
  /\ target' \in {target, None}
  /\ UNCHANGED <<chosen, mounted, uploads, isUploading>>

\* An image pasted into a pane names its session.
PasteFile(s) ==
  /\ dialog = Closed /\ s \in mounted
  /\ Select(s, s, FALSE)
  /\ UNCHANGED <<chosen, mounted, dialog>>

\* A drop is for the active pane; the zone is disabled while isUploading.
DropFile ==
  /\ dialog = Closed /\ ~isUploading
  /\ Select(None, chosen, target # None)
  /\ UNCHANGED <<chosen, mounted, dialog>>

\* findActiveRef: the active session's handle, or any (the first of the map).
ActiveRef(active) ==
  IF active \in mounted THEN {active} ELSE IF mounted = {} THEN {None} ELSE mounted

\* Bug: the ref is read when the upload has ended.
PastesIntoLate(upload) ==
  IF target = None THEN ActiveRef(upload.active)
  ELSE IF target \in mounted THEN {target} ELSE {None}

\* Where a path is pasted: the session the upload was for, if it is still there.
PastesInto(upload) ==
  IF upload.target = None THEN ActiveRef(upload.active)
  ELSE IF upload.target \in mounted THEN {upload.target} ELSE {None}

PaneIsGone(upload) == upload.target = None /\ upload.active \notin mounted

\* handleFileSelect after its await: the answer of an upload, or its failure.
Ends(n) ==
  /\ UnderWay(n)
  /\ \E into \in PastesInto(uploads[n]) \cup {None} :
       uploads' = [uploads EXCEPT ![n].at = "over", ![n].pasted = into,
                                  ![n].misled = @ \/ PaneIsGone(uploads[n])]
  /\ target' = None /\ isUploading' = FALSE
  /\ dialog' = [dialog EXCEPT !.cleared = dialog.isOpen]
  /\ UNCHANGED <<chosen, mounted>>

\* Another session is active; a pane's view goes, or comes.
Activate(s) ==
  /\ dialog = Closed /\ s # chosen /\ chosen' = s
  /\ UNCHANGED <<mounted, target, dialog, uploads, isUploading>>

MountOrUnmount(s) ==
  /\ mounted' = IF s \in mounted THEN mounted \ {s} ELSE mounted \cup {s}
  /\ UNCHANGED <<chosen, target, dialog, uploads, isUploading>>

Next ==
  \/ \E s \in Sessions \cup {None} : UploadClick(s)
  \/ \E s \in Sessions : PasteFile(s) \/ Activate(s) \/ MountOrUnmount(s)
  \/ Choose \/ CancelDialog \/ DropFile
  \/ \E n \in DOMAIN uploads : Ends(n)

Spec == Init /\ [][Next]_vars

-------------------------------------------------------------------------------

\* The types of the variables.
TypeOK ==
  /\ chosen \in Sessions /\ mounted \subseteq Sessions
  /\ target \in Sessions \cup {None}
  /\ dialog \in [isOpen : BOOLEAN, pane : Sessions \cup {None}, cleared : BOOLEAN]
  /\ Len(uploads) <= MaxUploads
  /\ \A n \in DOMAIN uploads :
       uploads[n] \in [at : {"under way", "over"}, active : Sessions,
                       meant : Sessions \cup {None}, misled : BOOLEAN,
                       target : Sessions \cup {None}, pasted : Sessions \cup {None}]
  /\ isUploading \in BOOLEAN

\* A path is pasted into the pane its file was given to, or nowhere ("pastes
\* uploaded file paths into the pane that triggered upload"), whatever becomes
\* active, is mounted, or is uploaded for another pane meanwhile.  Four cases
\* excepted, which the code sends to another pane: the menu was that of a pane without a
\* session; an upload that ended while the dialog was open has cleared the ref; a
\* dialog that was cancelled has left it to the next drop; and the pane a drop was for
\* is gone when its upload ends.
PathsGoWhereGiven ==
  \A n \in DOMAIN uploads :
    uploads[n].pasted \in {None, uploads[n].meant} \/ uploads[n].misled
==================================================================================
