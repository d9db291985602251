-------------------------------- MODULE MCControl --------------------------------
(***************************************************************************)
(* ControlTerminal for TLC: either much happens in one pane, or the user   *)
(* switches between panes, or tmux cannot read one, and little else does.  *)
(***************************************************************************)
EXTENDS ControlTerminal

CONSTANT FirstPane   \* the pane that is active when the client attaches

\* Bounds between the budgets: a run with a switch or with a seed tmux cannot
\* read is a short one, and without a switch the pane left alone is silent.
Short == ops' <= 1 /\ \A p \in Panes : written'[p] <= 1
Within ==
  /\ switches' = 0 => \A p \in Panes \ {active} : written'[p] = 0
  /\ switches' + unreadable' > 0 => Short

StreamSpec ==
  /\ Init /\ active = FirstPane
  /\ [][Next /\ Within]_vars
  /\ Fairness

-------------------------------------------------------------------------------

\* Once the user has selected another pane, neither is promised any more: the run
\* control_paused_pane shows why.
NotLeft == switches = 0

\* PausedPaneResumes for a user who stays in the first pane.
PaneResumes == NotLeft => PausedPaneResumes

\* A view that stays open on a session that stays up ends up showing everything
\* its program wrote, captured at the size the browser last asked for (unless the
\* last seed could not be read: only another one repairs that).
ShowsEverything ==
  <>[](alive /\ open /\ NotLeft /\ ~torn
         => xterm.last = written[active] /\ xterm.size = cols)
===================================================================================
