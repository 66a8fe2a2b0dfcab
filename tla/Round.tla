-------------------------------- MODULE Round --------------------------------
(***************************************************************************)
(* The rounds of one turn: runTurn's loop (internal/session/engine.go),    *)
(* runRound and streamWithRetry (round.go), executeTool and its permission *)
(* gates (tool_exec.go), the part rows they leave in the store             *)
(* (internal/storage/part_dao.go) and the parts a connected client sees.   *)
(*                                                                         *)
(* One process, the turn's goroutine; its environment is the model's       *)
(* stream, the permission service (module Permission), the tools, the      *)
(* database and the abort of the turn, which may come between any two      *)
(* steps.  Messages are numbered by round.  Fresh part ids are numbers;    *)
(* the id of a tool part is the model's call id, taken to be new (see the  *)
(* hazards).  The text of a part is the number of its deltas.              *)
(*                                                                         *)
(* Definitions that stand just before the one they vary, and that no other *)
(* definition uses, are plausible bugs: each breaks a property below.      *)
(***************************************************************************)
EXTENDS Naturals, Sequences, SequencesExt

CONSTANTS
  Key,            \* tool calls, as far as callKeyHash tells them apart
  MaxRounds,      \* maxToolRounds
  MaxAttempts,    \* maxRetryAttempts
  Settings        \* bounds: what one behaviour may hold

ASSUME RoundAssumption ==
  /\ {MaxRounds, MaxAttempts} \subseteq Nat \ {0}
  /\ Settings \subseteq [tools : Nat \ {0}, deltas : Nat, faults : BOOLEAN]

VARIABLES
  setting,    \* maxToolSteps, deltas of the turn, whether statements may fail
  pc,         \* where the turn stands
  round,      \* rounds begun
  attempt,    \* stream attempts of the round
  open,       \* [kind -> id of its streaming part, 0 for none]  partState.id
  text,       \* [kind -> deltas in partState.buf]
  streamed,   \* deltas so far
  sawTool,    \* sawToolPart
  steps,      \* turn.toolCalls
  doom,       \* turn.doomHist
  tool,       \* the call being executed
  leave,      \* how the round is being left
  hist,       \* turn.hist: the finished rounds
  store,      \* the part rows, in rowid order
  completed,  \* rounds whose message row is complete
  wire,       \* the parts as a client that missed nothing shows them
  cancelled,  \* the turn's context
  result,     \* turnErr
  reached     \* history: [key, cleared] of the calls that came to the doom gate

streamVars == <<open, text, streamed, sawTool>>
toolVars == <<steps, doom, tool, reached>>
partVars == <<store, wire>>
endVars == <<leave, hist, completed, result>>
vars == <<setting, pc, round, attempt, streamVars, toolVars, partVars, endVars, cancelled>>

MaxToolSteps == setting.tools
MaxDeltas == setting.deltas
\* A statement may fail for its own reasons.
DbMayFail == setting.faults

Kinds == {"text", "reasoning"}
Fresh == Len(wire) + 1

-----------------------------------------------------------------------------
(* Parts.  at is part.time_created: protocol.Part.Time.Start, which the    *)
(* tool parts leave unset (their times are in the tool state).             *)

Part(id, kind, state, n, at) ==
  [id |-> id, msg |-> round, kind |-> kind, state |-> state, text |-> n, at |-> at]

\* UpsertPart (in place, by id) and the client's upsertPart.
Upsert(parts, p) ==
  IF \E i \in DOMAIN parts : parts[i].id = p.id
  THEN [i \in DOMAIN parts |-> IF parts[i].id = p.id THEN p ELSE parts[i]]
  ELSE Append(parts, p)

\* A row and the event for it; only the event if the statement fails.
Save(p) ==
  /\ wire' = Upsert(wire, p)
  /\ \/ store' = Upsert(store, p)
     \/ DbMayFail /\ UNCHANGED store

Open(kind) == open[kind] # 0
Final(kind) == Part(open[kind], kind, "final", text[kind], open[kind])

Finalized(parts, kind, kinds) ==
  IF Open(kind) /\ kind \in kinds THEN Upsert(parts, Final(kind)) ELSE parts

\* partState.Finalize of both kinds, the text first: rows and events.
FinalizeParts ==
  LET Finals(parts, kinds) ==
        Finalized(Finalized(parts, "text", kinds), "reasoning", kinds)
  IN /\ wire' = Finals(wire, Kinds)
     /\ \E written \in IF DbMayFail THEN SUBSET Kinds ELSE {Kinds} :
          store' = Finals(store, written)

NoText == [kind \in Kinds |-> 0]

\* ListParts: the rows of a message by time_created, then rowid.
RowsOf(parts, m) == [i \in {j \in DOMAIN parts : parts[j].msg = m} |-> parts[i]]
InOrder(rows) ==
  LET order == SetToSortSeq(DOMAIN rows, LAMBDA i, j :
                 rows[i].at < rows[j].at \/ (rows[i].at = rows[j].at /\ i < j))
  IN [k \in DOMAIN order |-> rows[order[k]]]
Listed(m) == InOrder(RowsOf(store, m))

\* What history replay takes of a message: engine-generated notes are left out.
WithoutNotes(list) == SelectSeq(list, LAMBDA p : p.kind # "note")
Replayed(m) == WithoutNotes(Listed(m))

-----------------------------------------------------------------------------
(* runTurn's loop.                                                         *)

Goto(where) == pc' = where
End(r) == Goto("ending") /\ result' = r
Failure == IF cancelled THEN "aborted" ELSE "failed"

\* buildRequest and the assistant message's row, on the turn's context.
StartRoundForgets ==
  /\ pc = "request"
  /\ \/ /\ ~cancelled
        /\ round' = round + 1
        /\ attempt' = 1
        /\ doom' = <<>>
        /\ Goto("opening")
        /\ UNCHANGED result
     \/ (cancelled \/ DbMayFail) /\ End(Failure) /\ UNCHANGED <<round, attempt, doom>>
  /\ UNCHANGED <<streamVars, steps, tool, reached, partVars, leave, hist, completed,
                 cancelled>>
StartRound ==
  /\ pc = "request"
  /\ \/ /\ ~cancelled
        /\ round' = round + 1
        /\ attempt' = 1
        /\ Goto("opening")
        /\ UNCHANGED result
     \/ (cancelled \/ DbMayFail) /\ End(Failure) /\ UNCHANGED <<round, attempt>>
  /\ UNCHANGED <<streamVars, toolVars, partVars, leave, hist, completed, cancelled>>

\* Leaves the round through finishRound, by way of saveSynthetic for a note.
Leave(how) == Goto("finishing") /\ leave' = how
LeaveWithNote(how) == Goto("noting") /\ leave' = how

\* saveSynthetic, on the turn's own context: an abort loses the row, not the
\* event.
SaveNote ==
  /\ pc = "noting"
  /\ LET note == Part(Fresh, "note", "final", 0, Fresh)
     IN /\ wire' = Append(wire, note)
        /\ \/ ~cancelled /\ store' = Append(store, note)
           \/ (cancelled \/ DbMayFail) /\ UNCHANGED store
  /\ Goto("finishing")
  /\ UNCHANGED <<round, attempt, streamVars, toolVars, endVars, cancelled>>

\* What runTurn makes of the round's outcome.
AfterRound ==
  IF leave # "more" THEN End(leave)
  ELSE IF cancelled THEN End("aborted")
  ELSE IF round = MaxRounds THEN End("exhausted")
  ELSE Goto("request") /\ UNCHANGED result

FinishRoundKeepsNotes ==
  /\ pc = "finishing"
  /\ completed' = completed \cup {round}
  /\ hist' = Append(hist, Listed(round))
  /\ AfterRound
  /\ open' = NoText /\ text' = NoText /\ sawTool' = FALSE /\ leave' = "none"
  /\ UNCHANGED <<round, attempt, streamed, toolVars, partVars, cancelled>>
\* finishRound: the message row, the event, the in-memory history; the locals
\* of runRound go.
FinishRound ==
  /\ pc = "finishing"
  /\ \/ completed' = completed \cup {round}
     \/ DbMayFail /\ UNCHANGED completed
  /\ \/ hist' = Append(hist, Replayed(round))
     \/ DbMayFail /\ UNCHANGED hist
  /\ AfterRound
  /\ open' = NoText /\ text' = NoText /\ sawTool' = FALSE /\ leave' = "none"
  /\ UNCHANGED <<round, attempt, streamed, toolVars, partVars, cancelled>>

\* surfaceTurnError, idle, onDone: module Engine's.
EndTurn ==
  /\ pc = "ending"
  /\ Goto("done")
  /\ UNCHANGED <<round, attempt, streamVars, toolVars, partVars, endVars, cancelled>>

-----------------------------------------------------------------------------
(* streamWithRetry.                                                        *)

StreamOpens ==
  /\ pc = "opening"
  /\ Goto("streaming")
  /\ attempt' = 0
  /\ UNCHANGED <<round, streamVars, toolVars, partVars, endVars, cancelled>>

\* A cancelled context; an overflow, noted, which ends the turn idle; any
\* other permanent failure, noted; the last transient one.
StreamRefused ==
  /\ pc = "opening"
  /\ IF cancelled THEN Leave("aborted")
     ELSE \/ LeaveWithNote("ok")
          \/ LeaveWithNote("failed")
          \/ attempt >= MaxAttempts /\ Leave("failed")
  /\ UNCHANGED <<round, attempt, streamVars, toolVars, partVars, hist, completed,
                 result, cancelled>>

StreamBusyOnceMore ==
  /\ pc = "opening"
  /\ ~cancelled
  /\ attempt <= MaxAttempts
  /\ Goto("backoff")
  /\ UNCHANGED <<round, attempt, streamVars, toolVars, partVars, endVars, cancelled>>
StreamBusy ==
  /\ pc = "opening"
  /\ ~cancelled
  /\ attempt < MaxAttempts
  /\ Goto("backoff")
  /\ UNCHANGED <<round, attempt, streamVars, toolVars, partVars, endVars, cancelled>>

\* The backoff timer or the context.
Retry ==
  /\ pc = "backoff"
  /\ \/ /\ attempt' = attempt + 1
        /\ Goto("opening")
        /\ UNCHANGED leave
     \/ cancelled /\ Leave("aborted") /\ UNCHANGED attempt
  /\ UNCHANGED <<round, streamVars, toolVars, partVars, hist, completed, result,
                 cancelled>>

-----------------------------------------------------------------------------
(* The stream.                                                             *)

\* A delta starts a part, on the wire only, or extends it.
Delta(kind) ==
  /\ pc = "streaming"
  /\ streamed < MaxDeltas
  /\ LET id == IF Open(kind) THEN open[kind] ELSE Fresh
         n == text[kind] + 1
     IN /\ open' = [open EXCEPT ![kind] = id]
        /\ text' = [text EXCEPT ![kind] = n]
        /\ wire' = Upsert(wire, Part(id, kind, "open", n, id))
  /\ streamed' = streamed + 1
  /\ UNCHANGED <<pc, round, attempt, sawTool, toolVars, store, endVars, cancelled>>

StreamAbortedRetries ==
  /\ pc = "streaming"
  /\ cancelled
  /\ FinalizeParts
  /\ Goto("opening")
  /\ attempt' = 1
  /\ UNCHANGED <<round, streamVars, toolVars, endVars, cancelled>>
\* Next saw the cancelled context, or the stream failed under it.
StreamAborted ==
  /\ pc = "streaming"
  /\ cancelled
  /\ FinalizeParts
  /\ Leave("aborted")
  /\ UNCHANGED <<round, attempt, streamVars, toolVars, hist, completed, result,
                 cancelled>>

\* A failure after content: kept, noted, never retried; an overflow is no error.
StreamFails ==
  /\ pc = "streaming"
  /\ ~cancelled
  /\ FinalizeParts
  /\ LeaveWithNote("ok") \/ LeaveWithNote("failed")
  /\ UNCHANGED <<round, attempt, streamVars, toolVars, hist, completed, result,
                 cancelled>>

\* The stream is over: also when an abort made the driver close it early.  The
\* usage may show an overflow; tool calls or their finish reason ask for more.
StreamEnds ==
  /\ pc = "streaming"
  /\ FinalizeParts
  /\ \/ LeaveWithNote("ok")
     \/ ~sawTool /\ Leave("ok")
     \/ Leave("more")
  /\ UNCHANGED <<round, attempt, streamVars, toolVars, hist, completed, result,
                 cancelled>>

NoTool == [stage |-> "none"]
Call(id, key, late) ==
  [stage |-> "checking", id |-> id, key |-> key, late |-> late]

\* A call ends the streaming parts (reset: the text after it is a new part).
\* Beyond the budget it is dropped, with the rest of the stream.
ResetsNothing(parts) == parts
Reset(parts) == NoText
ToolCall(key) ==
  /\ pc = "streaming"
  /\ FinalizeParts
  /\ sawTool' = TRUE
  /\ open' = Reset(open) /\ text' = Reset(text)
  /\ IF steps >= MaxToolSteps
     THEN Leave("ok") /\ UNCHANGED <<steps, tool>>
     ELSE /\ Goto("tool")
          /\ steps' = steps + 1
          /\ tool' = Call(Fresh, key, cancelled)
          /\ UNCHANGED leave
  /\ UNCHANGED <<round, attempt, streamed, doom, reached, hist, completed, result,
                 cancelled>>

-----------------------------------------------------------------------------
(* executeTool.                                                            *)

In(stage) == pc = "tool" /\ tool.stage = stage
Stage(stage) == tool' = [tool EXCEPT !.stage = stage]
ToolPart(state) == Save(Part(tool.id, "tool", state, 0, 0))
ToolOver == Goto("streaming") /\ tool' = NoTool

\* The gates' statements run on the round's context.
ContextDetached == FALSE
ContextDone == cancelled

\* Bad arguments, an unknown or hidden tool; or the rules could not be read,
\* as on a cancelled context.
ToolRefused ==
  /\ In("checking")
  /\ ToolPart("error")
  /\ ToolOver
  /\ UNCHANGED <<round, attempt, streamVars, steps, doom, reached, endVars, cancelled>>

\* The last two recorded calls equal this one.
DoomLoopDue(calls, key) ==
  Len(calls) >= 2 /\ calls[Len(calls)] = key /\ calls[Len(calls) - 1] = key

Reached(cleared) ==
  reached' = Append(reached, [key |-> tool.key, cleared |-> cleared])

ToolChecked ==
  /\ In("checking")
  /\ ~ContextDone
  /\ IF DoomLoopDue(doom, tool.key)
     THEN Stage("doom") /\ UNCHANGED <<doom, reached>>
     ELSE /\ Stage("start")
          /\ doom' = Append(doom, tool.key)
          /\ Reached(FALSE)
  /\ UNCHANGED <<pc, round, attempt, streamVars, steps, partVars, endVars, cancelled>>

\* An answer of the permission service: it asks nobody, and errs, once the
\* context is cancelled; while it waits, the abort denies.
Waiting(gate) == CASE gate = "doom" -> "doom?"
                   [] gate = "external" -> "external?"
                   [] gate = "core" -> "core?"
Ask(gate) == In(gate) /\ ~ContextDone /\ Stage(Waiting(gate))
Asked(gate) == In(Waiting(gate))
NotAsked(gate) == In(gate) /\ (ContextDone \/ DbMayFail)

Gates == {"doom", "external", "core"}
AskGate ==
  /\ \E gate \in Gates : Ask(gate)
  /\ UNCHANGED <<pc, round, attempt, streamVars, steps, doom, reached, partVars,
                 endVars, cancelled>>

\* An Ask that failed is not recorded in the doom history, a denial is.
DoomAllowed ==
  /\ Asked("doom")
  /\ Stage("start")
  /\ doom' = Append(doom, tool.key)
  /\ Reached(TRUE)
  /\ UNCHANGED <<pc, round, attempt, streamVars, steps, partVars, endVars, cancelled>>
DoomDenied ==
  /\ Asked("doom")
  /\ ToolPart("error")
  /\ ToolOver
  /\ doom' = Append(doom, tool.key)
  /\ Reached(FALSE)
  /\ UNCHANGED <<round, attempt, streamVars, steps, endVars, cancelled>>
DoomAskFails ==
  /\ NotAsked("doom") \/ (Asked("doom") /\ DbMayFail)
  /\ ToolPart("error")
  /\ ToolOver
  /\ UNCHANGED <<round, attempt, streamVars, steps, doom, reached, endVars, cancelled>>

\* The part is shown running before the remaining gates ask.
ToolStart ==
  /\ In("start")
  /\ ToolPart("running")
  /\ Stage("external") \/ Stage("core")
  /\ UNCHANGED <<pc, round, attempt, streamVars, steps, doom, reached, endVars,
                 cancelled>>

\* One ask per directory outside the session's, then the core ask.
GateAllowed ==
  /\ \/ Asked("external") /\ (Stage("external") \/ Stage("core"))
     \/ Asked("core") /\ Stage("run")
  /\ UNCHANGED <<pc, round, attempt, streamVars, steps, doom, reached, partVars,
                 endVars, cancelled>>
GateDeniedUnmarked ==
  /\ \E gate \in {"external", "core"} : Asked(gate) \/ NotAsked(gate)
  /\ UNCHANGED partVars
  /\ ToolOver
  /\ UNCHANGED <<round, attempt, streamVars, steps, doom, reached, endVars, cancelled>>
GateDenied ==
  /\ \E gate \in {"external", "core"} : Asked(gate) \/ NotAsked(gate)
  /\ ToolPart("error")
  /\ ToolOver
  /\ UNCHANGED <<round, attempt, streamVars, steps, doom, reached, endVars, cancelled>>

\* The tool itself; aborted, it still returns.
ToolRan ==
  /\ In("run")
  /\ ToolPart("completed") \/ ToolPart("error")
  /\ ToolOver
  /\ UNCHANGED <<round, attempt, streamVars, steps, doom, reached, endVars, cancelled>>

\* A panic of the tool is recovered in runTurn: past the round, not through it.
ToolPanics ==
  /\ In("run")
  /\ End("panicked")
  /\ tool' = NoTool
  /\ UNCHANGED <<round, attempt, streamVars, steps, doom, reached, partVars, leave,
                 hist, completed, cancelled>>

\* POST abort, DELETE or Shutdown.
Abort ==
  /\ ~cancelled
  /\ pc # "done"
  /\ cancelled' = TRUE
  /\ UNCHANGED <<pc, round, attempt, streamVars, toolVars, partVars, endVars>>

-----------------------------------------------------------------------------
Init ==
  /\ setting \in Settings
  /\ pc = "request" /\ round = 0 /\ attempt = 0
  /\ open = NoText /\ text = NoText /\ streamed = 0 /\ sawTool = FALSE
  /\ steps = 0 /\ doom = <<>> /\ tool = NoTool /\ reached = <<>>
  /\ leave = "none" /\ hist = <<>> /\ completed = {} /\ result = "none"
  /\ store = <<>> /\ wire = <<>>
  /\ cancelled = FALSE

\* Steps the turn takes by itself.
TurnStep ==
  \/ StartRound \/ SaveNote \/ FinishRound \/ EndTurn
  \/ StreamRefused \/ StreamBusy \/ Retry \/ StreamAborted
  \/ ToolChecked \/ AskGate \/ DoomAskFails \/ ToolStart

\* Steps that wait for the model, the user or the tool.
Answer ==
  \/ StreamOpens \/ \E kind \in Kinds : Delta(kind)
  \/ StreamFails \/ StreamEnds \/ \E key \in Key : ToolCall(key)
  \/ ToolRefused \/ DoomAllowed \/ DoomDenied \/ GateAllowed \/ GateDenied
  \/ ToolRan \/ ToolPanics

Next == (TurnStep \/ Answer \/ Abort) /\ UNCHANGED setting

Spec == Init /\ [][Next]_vars

\* The turn goes on by itself; what it waits for need not answer until the
\* turn is aborted, which ends every wait.
Fairness ==
  /\ WF_vars(TurnStep /\ UNCHANGED setting)
  /\ SF_vars(StreamAborted /\ UNCHANGED setting)
  /\ WF_vars(cancelled /\ pc = "tool" /\ Answer /\ UNCHANGED setting)
FairSpec == Spec /\ Fairness

-----------------------------------------------------------------------------
(* Properties.                                                             *)

PartRecord ==
  [id : Nat \ {0}, msg : Nat \ {0}, kind : Kinds \cup {"tool", "note"},
   state : {"open", "running", "final", "completed", "error"}, text : Nat, at : Nat]
Waits == {Waiting(gate) : gate \in Gates}

\* The types of the variables.
TypeOK ==
  /\ setting \in Settings
  /\ pc \in {"request", "opening", "backoff", "streaming", "tool", "noting",
             "finishing", "ending", "done"}
  /\ round \in 0 .. MaxRounds
  /\ attempt \in 0 .. MaxAttempts
  /\ open \in [Kinds -> Nat] /\ text \in [Kinds -> Nat]
  /\ streamed \in 0 .. MaxDeltas
  /\ sawTool \in BOOLEAN
  /\ steps \in 0 .. MaxToolSteps
  /\ doom \in Seq(Key)
  /\ tool \in {NoTool} \cup
       [stage : {"checking", "start", "run"} \cup Gates \cup Waits, id : Nat \ {0},
        key : Key, late : BOOLEAN]
  /\ reached \in Seq([key : Key, cleared : BOOLEAN])
  /\ leave \in {"none", "ok", "failed", "aborted", "more"}
  /\ hist \in Seq(Seq(PartRecord))
  /\ completed \subseteq 1 .. MaxRounds
  /\ result \in {"none", "ok", "failed", "aborted", "exhausted", "panicked"}
  /\ store \in Seq(PartRecord) /\ wire \in Seq(PartRecord)
  /\ cancelled \in BOOLEAN

Terminal(p) == p.state \in {"final", "completed", "error"}

\* Between rounds and after the turn, whatever was aborted, refused, denied or
\* cut short, no part is left streaming or running, every message is complete,
\* and a client that fetches the session gets the very parts a connected one
\* has (notes of an aborted turn apart).
RoundsSettle ==
  pc \in {"request", "done"} /\ result # "panicked" /\ ~DbMayFail =>
    /\ completed = 1 .. round
    /\ \A i \in DOMAIN wire :
         /\ Terminal(wire[i])
         /\ (wire[i].kind # "note" \/ ~cancelled) =>
              \E j \in DOMAIN store : store[j] = wire[i]
    /\ \A j \in DOMAIN store : \E i \in DOMAIN wire : wire[i] = store[j]

\* The history a turn keeps in memory is the one a reload would give, so the
\* model is shown the same conversation in this turn and in the next.
HistoryIsStored ==
  pc \in {"request", "done"} /\ result # "panicked" /\ ~DbMayFail =>
    hist = [m \in 1 .. round |-> Replayed(m)]

\* No call runs that repeats the two calls before it, in whichever rounds,
\* unless the doom ask let it.
NoSilentLoop ==
  LET n == Len(reached) IN
  /\ In("run") /\ n >= 3
  /\ \A k \in {n - 2, n - 1, n} : reached[k].key = tool.key
  => reached[n].cleared

\* A finished part is never touched again, on the wire or in the store: text
\* after a tool call goes to a part of its own.
FinalIsFinal ==
  [][/\ \A i \in DOMAIN wire : Terminal(wire[i]) => wire'[i] = wire[i]
     /\ \A j \in DOMAIN store : Terminal(store[j]) => store'[j] = store[j]]_vars

\* A call the turn comes to after its abort does not run.
AbortStopsTools == In("run") => ~tool.late

\* An aborted turn ends, whatever it is waiting for.
AbortEndsTurn == cancelled ~> pc = "done"

\* Not a property of this code (see the findings): the parts of a message are
\* listed in the order in which they came.
EarliestFirst ==
  \A m \in 1 .. round, i, j \in DOMAIN wire :
    LET list == Listed(m) IN
    \A k, l \in DOMAIN list :
      list[k] = wire[i] /\ list[l] = wire[j] /\ i < j => k < l

=============================================================================
