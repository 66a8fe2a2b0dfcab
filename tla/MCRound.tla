------------------------------- MODULE MCRound -------------------------------
(* Instances of Round for TLC: k1 is a call the model repeats.             *)
EXTENDS Round

CONSTANTS k1

\* Long enough for a loop of calls, without failing statements.
Long == [tools |-> 3, deltas |-> 1, faults |-> FALSE]
\* Several parts of text, one call.
Wordy == [tools |-> 1, deltas |-> 2, faults |-> FALSE]
\* Short, and any statement may fail.
Faulty == [tools |-> 1, deltas |-> 1, faults |-> TRUE]
AnySetting == {Long, Wordy, Faulty}
OnlyWordy == {Wordy}
=============================================================================
