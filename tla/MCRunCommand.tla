----------------------------- MODULE MCRunCommand -----------------------------
(* The instance of RunCommand for TLC; all constants are numbers and flags. *)
EXTENDS RunCommand
=============================================================================
