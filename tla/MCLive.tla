-------------------------------- MODULE MCLive --------------------------------
(* Together, the two modules whose processes wait for one another: the     *)
(* shells of a session (ShellSessions) and the interface (TuiApp).  They   *)
(* share no state, so a behaviour is one of them, the other standing       *)
(* still.                                                                  *)
EXTENDS ShellSessions, TuiApp

CONSTANT Parts     \* which of the two, or both
VARIABLE part

\* The dialogs of the interface.
MCOpener == {"palette", "model", "agents", "sessions", "provider", "status", "themes", "help"}

MCInit == part \in Parts /\ Init /\ (part = "app" \/ cur = None) /\ AppInit
MCNext ==
  \/ part = "shell" /\ Next /\ UNCHANGED <<part, appVars>>
  \/ part = "app" /\ AppNext /\ UNCHANGED <<part, vars>>
MCSpec == MCInit /\ [][MCNext]_<<part, vars, appVars>>

\* What the two modules assume of goroutines, of the server and of the update loop.
MCFairness ==
  /\ \A c \in Cmd : /\ WF_vars(part = "shell" /\ Goes(c))
                    /\ WF_vars(part = "shell" /\ Timeout(c))
  /\ WF_vars(part = "shell" /\ Closes)
  /\ WF_appVars(part = "app" /\ Commands)
  /\ WF_appVars(part = "app" /\ AskProgress)
  /\ WF_appVars(part = "app" /\ Resync)
  /\ WF_appVars(part = "app" /\ EventArrives)
  /\ WF_appVars(part = "app" /\ Redial)
MCFairSpec == MCSpec /\ MCFairness
=============================================================================
