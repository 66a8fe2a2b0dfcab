------------------------------ MODULE MCEngine ------------------------------
(* Instances of Engine for TLC.                                            *)
EXTENDS Engine, TLC

CONSTANTS t1, t2, s1

OneSession == [t \in Turn |-> s1]
\* Sends are interchangeable as long as only safety is checked.
Sends == Permutations(Turn)

\* Clients delete and, if told so, abort.
Clients(aborting) ==
  [deletes |-> {s1}, renames |-> {}, aborts |-> aborting, shutdown |-> FALSE,
   faults |-> FALSE]
\* The process exits while a client renames the session and statements fail.
Exiting ==
  [deletes |-> {}, renames |-> {s1}, aborts |-> FALSE, shutdown |-> TRUE,
   faults |-> TRUE]
ClientsOrExit == {Clients(TRUE), Exiting}
DeleteOnly == {Clients(FALSE)}
=============================================================================
