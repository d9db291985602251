------------------------------- MODULE PaneView -------------------------------
(***************************************************************************)
(* What a terminal view promises, with no pipe, no client and no queue:    *)
(* programs write bytes to panes, and the view shows some pane up to some  *)
(* byte it has really written.  While it stays on one pane it only moves   *)
(* forward: a repaint never takes the reader back to an older screen.      *)
(*                                                                         *)
(* The k-th byte a program writes to a pane is the number k, so "the first *)
(* n bytes" is the number n.                                               *)
(***************************************************************************)
EXTENDS Naturals

CONSTANTS
  Panes,   \* tmux panes of the attached session
  NoPane   \* the blank terminal before its first seed

VARIABLES
  written,  \* written[p]: bytes the program in pane p has written
  view      \* [pane, last]: the pane shown and its last byte shown

vars == <<written, view>>

Blank == [pane |-> NoPane, last |-> 0]

Init ==
  /\ written = [p \in Panes |-> 0]
  /\ view = Blank

\* The program in some pane writes one more byte.
Write ==
  /\ \E p \in Panes : written' = [written EXCEPT ![p] = @ + 1]
  /\ UNCHANGED view

\* The view catches up, or moves to another pane.
Show ==
  /\ \E p \in Panes : \E n \in 0..written[p] :
       /\ (view.pane = p) => (view.last <= n)
       /\ view' = [pane |-> p, last |-> n]
  /\ UNCHANGED written

Next == Write \/ Show

Spec == Init /\ [][Next]_vars
===============================================================================
