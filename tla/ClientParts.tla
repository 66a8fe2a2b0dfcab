----------------------------- MODULE ClientParts ------------------------------
(* What the interface keeps in memory beside the store: the prompt, the     *)
(* session picker and the keymap, which share no state here.  Their names   *)
(* are brought together, with what is assumed of their constants, for the   *)
(* run and the proofs.                                                      *)
EXTENDS Naturals, Sequences, FiniteSets

CONSTANTS TypedLines, SlashCommands, Files, MaxHistory, DraftRetentionMin, MaxSends,      \* Prompt
          MaxKeys,
          Letters,       \* what lines are made of, a newline apart
          Session, Nil, Matching, Updated, Midnight, Heights, MaxChanges, MaxPresses,  \* SessionPicker
          Overrides, LeaderTimeout, MaxClock, MaxLeaders                     \* Keymap

\* Nothing that is typed or picked has a newline: the input is one line.
ASSUME PromptAssumption ==
  /\ "nl" \notin Letters /\ {"sp", "/"} \subseteq Letters
  /\ TypedLines \subseteq Seq(Letters)
  /\ SlashCommands \in Seq(Seq(Letters))
  /\ Files \in Seq([path : Seq(Letters), dir : BOOLEAN])

ASSUME PickerAssumption == IsFiniteSet(Session)

ASSUME KeymapAssumption == LeaderTimeout \in Nat

VARIABLES route, typing, input, draft, item, slashDone, lastAcQuery, past, histIdx, histOrig,
          cmdFreq, flight, keys, sends, mine, lost, edited,                  \* Prompt
          server, wire, late, sessions, changes, open, current, options, marked, row, needle,
          toDelete, top, lastSel, visible, presses,                          \* SessionPicker
          bindings, pendingLeader, leaderGen, ticks, modal, ran, clock, lastLeader  \* Keymap

Pr == INSTANCE Prompt WITH Commands <- SlashCommands, Typed <- TypedLines, mode <- typing, sel <- item, hist <- past
Pk == INSTANCE SessionPicker WITH None <- Nil, sel <- row, keys <- presses, MaxKeys <- MaxPresses
Ky == INSTANCE Keymap

-----------------------------------------------------------------------------
(* Their properties, under the names they have there. *)

\* A walk through the history and back brings back the line it started from (Prompt).
WalkKeepsDraft == Pr!WalkKeepsDraft
\* Only clearing the line costs the one a walk started from (Prompt).
PickKeepsDraft == Pr!PickKeepsDraft
\* A walk through the history is held by an edit only (Prompt).
OnlyEditsHold == Pr!OnlyEditsHold
\* Events leave the same session selected (SessionPicker).
EventsKeepTheSelection == Pk!EventsKeepTheSelection
\* A row that the next press deletes says so (SessionPicker).
ArmedRowSaysSo == Pk!ArmedRowSaysSo
\* The leader waits for a key for the whole of its time and no longer (Keymap).
LeaderWindow == Ky!LeaderWindow
=============================================================================
