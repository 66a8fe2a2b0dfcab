------------------------------ MODULE Transcript ------------------------------
(***************************************************************************)
(* What the TUI's store promises of the messages it shows: after an event, *)
(* every part reads what it was last given, followed by the deltas that    *)
(* came since, in their order, whatever was added, removed or replaced     *)
(* meanwhile.  StoreFold, the code's data structure, implements it.        *)
(***************************************************************************)
EXTENDS Sequences

CONSTANTS
  Part,
  Owner,       \* [Part -> its message]
  Absent

VARIABLES
  content,     \* [Part -> its text and tool input, or Absent]
  event        \* the event applied last

Blank == [text |-> <<>>, input |-> <<>>]
Slot(field) == IF field = "input" THEN "input" ELSE "text"

\* What an event makes of the content.
After(e) ==
  CASE e.kind = "part" -> [content EXCEPT ![e.part] = e.content]
    [] e.kind = "delta" ->
         LET was == IF content[e.part] = Absent THEN Blank ELSE content[e.part]
         IN [content EXCEPT ![e.part] = [was EXCEPT ![Slot(e.field)] = Append(@, e.delta)]]
    [] e.kind = "part.removed" -> [content EXCEPT ![e.part] = Absent]
    [] e.kind = "message.removed" ->
         [p \in Part |-> IF Owner[p] = e.message THEN Absent ELSE content[p]]
    [] e.kind = "hydrated" -> e.content
    [] OTHER -> content

TInit == content = [p \in Part |-> Absent] /\ event = [kind |-> "none"]
TNext == content' = After(event')
TSpec == TInit /\ [][TNext]_<<content, event>>
=============================================================================
