---------------------------- MODULE ShellSessions ----------------------------
(***************************************************************************)
(* The persistent shell of one session: the user's commands (POST          *)
(* /session/{id}/shell, internal/session/shell.go) and the bash calls of   *)
(* its turn (internal/tool/bash.go) run one after the other in one bash    *)
(* process (internal/tool/shell.go), until a DELETE closes the session or  *)
(* the process exits (Engine.Close, Engine.Shutdown).                      *)
(*                                                                         *)
(* Processes: a goroutine per command, the closer, and bash.  A command    *)
(* reads what bash prints up to the marker that Exec writes after it, and  *)
(* is otherwise ended by its timer, by its context or by bash's death.     *)
(* Output is a sequence of lines that remember who printed them, a command *)
(* or a job it left in the background; bash processes are numbered, 0 is   *)
(* none.  Nothing is started once Shutdown has taken the shells.           *)
(*                                                                         *)
(* Definitions that stand just before the one they vary, and that no other *)
(* definition uses, are plausible bugs.                                    *)
(***************************************************************************)
EXTENDS Naturals, Sequences

CONSTANTS
  UserCmd,     \* commands of POST /session/{id}/shell
  TurnCmd,     \* bash calls of the session's turn
  NoCmd,
  Forks,       \* bound: commands that may leave a job in the background
  MaxLines,    \* bound: lines a command prints
  Endings      \* how a command may end; see CommandEnds

ASSUME ShellAssumption ==
  /\ UserCmd \cap TurnCmd = {} /\ NoCmd \notin UserCmd \cup TurnCmd
  /\ Forks \subseteq UserCmd \cup TurnCmd /\ MaxLines \in Nat
  /\ Endings \subseteq {"line", "partial", "eats", "exits"}

VARIABLES
  cmd,        \* [Cmd -> where its goroutine stands]
  outcome,    \* [Cmd -> what Exec returned]
  heard,      \* [Cmd -> whose lines are in its output]
  row,        \* [Cmd -> status of its stored part]
  cancelled,  \* commands whose context is cancelled
  lock,       \* holder of Shell.mu
  bash,       \* Shell.proc: number, whether it is up, what it runs, whose jobs are
              \* in the background, lines printed, output not read
  spawned,    \* bash processes started so far
  live,       \* those that still run
  abort,      \* shellAbort of the session
  deleted,    \* Engine.deleted of the session
  known,      \* Engine.shells holds the shell
  closer      \* the DELETE or Shutdown: where it stands, what it took

shellVars == <<lock, bash, spawned, live>>
cmdVars == <<cmd, outcome, heard, row>>
engineVars == <<abort, deleted, known, closer>>
vars == <<cmdVars, cancelled, shellVars, engineVars>>

Cmd == UserCmd \cup TurnCmd
NoBash == [id |-> 0, up |-> FALSE, runs |-> NoCmd, jobs |-> {}, lines |-> 0, out |-> <<>>]
RowsGone == closer.why = "delete"
Swapped == closer.why = "exit" /\ closer.at \in {"killing", "done"}
Goto(c, where) == cmd' = [cmd EXCEPT ![c] = where]
Line(c) == [kind |-> "line", by |-> c]
Marker(c) == [kind |-> "marker", by |-> c]
Eof == [kind |-> "eof", by |-> NoCmd]

-----------------------------------------------------------------------------
(* A user's command: the rows, the cancel, the goroutine.                  *)

\* shellFor: the session's shell, made on demand, or none once it is deleted.
ShellFor(c, next) ==
  /\ ~Swapped
  /\ IF deleted THEN Goto(c, "refused") /\ UNCHANGED known
     ELSE Goto(c, next) /\ known' = TRUE

Post(c) ==
  /\ c \in UserCmd
  /\ cmd[c] = "new"
  /\ ~RowsGone
  /\ ShellFor(c, "taken")
  /\ UNCHANGED <<outcome, heard, row, cancelled, shellVars, abort, deleted, closer>>

\* Two messages and the running part; after a DELETE the session's row is
\* missing and the first statement fails.
Persist(c) ==
  /\ cmd[c] = "taken"
  /\ \/ ~RowsGone /\ row' = [row EXCEPT ![c] = "running"] /\ Goto(c, "stored")
     \/ RowsGone /\ Goto(c, "refused") /\ UNCHANGED row
  /\ UNCHANGED <<outcome, heard, cancelled, shellVars, engineVars>>

\* The cancel is stored, over that of an earlier command, before the spawn.
Track(c) ==
  /\ cmd[c] = "stored"
  /\ abort' = c
  /\ Goto(c, "waiting")
  /\ UNCHANGED <<outcome, heard, row, cancelled, shellVars, deleted, known, closer>>

\* executeTool: the call of the turn runs under the turn's context.
Call(c) ==
  /\ c \in TurnCmd
  /\ cmd[c] = "new"
  /\ c \notin cancelled
  /\ ShellFor(c, "waiting")
  /\ row' = [row EXCEPT ![c] = IF RowsGone THEN "gone" ELSE "running"]
  /\ UNCHANGED <<outcome, heard, cancelled, shellVars, abort, deleted, closer>>

-----------------------------------------------------------------------------
(* Exec.                                                                   *)

\* Shell.mu is taken, bash spawned if there is none (which may fail), the
\* command and its marker written (which fails, or not, if bash has died
\* meanwhile).  The context is not looked at before.
Begin(c) ==
  /\ cmd[c] = "waiting"
  /\ lock = NoCmd
  /\ \/ /\ lock' = c
        /\ Goto(c, "running")
        /\ IF bash.id = 0
           THEN /\ spawned' = spawned + 1
                /\ live' = live \cup {spawned + 1}
                /\ bash' = [NoBash EXCEPT !.id = spawned + 1, !.up = TRUE, !.runs = c]
           ELSE /\ bash' = [bash EXCEPT !.runs = IF bash.up THEN c ELSE NoCmd, !.lines = 0]
                /\ UNCHANGED <<spawned, live>>
        /\ UNCHANGED outcome
     \/ /\ ~bash.up
        /\ Goto(c, "executed")
        /\ outcome' = [outcome EXCEPT ![c] = "failed"]
        /\ bash' = NoBash
        /\ UNCHANGED <<lock, spawned, live>>
  /\ UNCHANGED <<heard, row, cancelled, engineVars>>

Return(c, what) ==
  /\ Goto(c, "executed")
  /\ outcome' = [outcome EXCEPT ![c] = what]
  /\ lock' = NoCmd

Reap == bash' = NoBash /\ live' = live \ {bash.id}

\* The next line: another's marker is output like any other.
Read(c) ==
  /\ cmd[c] = "running"
  /\ bash.out # <<>>
  /\ LET line == Head(bash.out) IN
     \/ /\ line = Marker(c)
        /\ Return(c, "completed")
        /\ bash' = [bash EXCEPT !.out = Tail(@)]
        /\ UNCHANGED <<heard, live>>
     \/ /\ line.kind = "eof"
        /\ \E what \in {"completed", "failed"} : Return(c, what)
        /\ Reap
        /\ UNCHANGED heard
     \/ /\ line \notin {Marker(c), Eof}
        /\ heard' = [heard EXCEPT ![c] = @ \cup {line.by}]
        /\ bash' = [bash EXCEPT !.out = Tail(@)]
        /\ UNCHANGED <<cmd, outcome, lock, live>>
  /\ UNCHANGED <<row, cancelled, spawned, engineVars>>

\* The timer or the context: the process group is killed.
TimeoutKeeps(c) ==
  /\ cmd[c] = "running"
  /\ Return(c, "timeout")
  /\ UNCHANGED <<heard, row, cancelled, bash, spawned, live, engineVars>>
Timeout(c) ==
  /\ cmd[c] = "running"
  /\ Return(c, "timeout")
  /\ Reap
  /\ UNCHANGED <<heard, row, cancelled, spawned, engineVars>>
Aborted(c) ==
  /\ cmd[c] = "running"
  /\ c \in cancelled
  /\ Return(c, "aborted")
  /\ Reap
  /\ UNCHANGED <<heard, row, cancelled, spawned, engineVars>>

\* The part is finalized on a context of its own, deleted session or not
\* (then its row is gone).
FinalizeOnContext(c) ==
  /\ cmd[c] = "executed"
  /\ row' = [row EXCEPT ![c] =
               IF @ = "gone" \/ c \in cancelled THEN @
               ELSE IF outcome[c] = "completed" THEN "completed" ELSE "error"]
  /\ Goto(c, IF c \in UserCmd THEN "leaving" ELSE "done")
  /\ UNCHANGED <<outcome, heard, cancelled, shellVars, engineVars>>
Finalize(c) ==
  /\ cmd[c] = "executed"
  /\ row' = [row EXCEPT ![c] =
               IF @ = "gone" THEN @
               ELSE IF outcome[c] = "completed" THEN "completed" ELSE "error"]
  /\ Goto(c, IF c \in UserCmd THEN "leaving" ELSE "done")
  /\ UNCHANGED <<outcome, heard, cancelled, shellVars, engineVars>>

\* The tracked cancel is dropped, whoever's it is by now.
Untrack(c) ==
  /\ cmd[c] = "leaving"
  /\ abort' = NoCmd
  /\ Goto(c, "done")
  /\ UNCHANGED <<outcome, heard, row, cancelled, shellVars, deleted, known, closer>>

-----------------------------------------------------------------------------
(* bash: the command it was given prints and ends.                         *)

Says(line) == bash' = [bash EXCEPT !.lines = @ + 1, !.out = Append(@, line)]
Prints ==
  /\ bash.lines < MaxLines
  /\ \E by \in ({bash.runs} \ {NoCmd}) \cup bash.jobs : Says(Line(by))
  /\ UNCHANGED <<cmdVars, cancelled, lock, spawned, live, engineVars>>

\* After a line: the marker is a line of its own.  After text without a
\* newline it is glued to it.  A command that reads its input eats it.
\* bash runs on but for an exit, and may keep a job in the background.
CommandEnds ==
  /\ bash.runs # NoCmd
  /\ \E how \in Endings, jobs \in {bash.jobs, bash.jobs \cup ({bash.runs} \cap Forks)} :
       /\ bash' = [bash EXCEPT !.runs = NoCmd, !.jobs = jobs, !.up = (how # "exits"),
                     !.out = CASE how = "line" -> Append(@, Marker(bash.runs))
                               [] how = "partial" -> Append(@, Line(bash.runs))
                               [] how = "eats" -> @
                               [] how = "exits" -> IF jobs = {} THEN Append(@, Eof) ELSE @]
       /\ live' = IF how = "exits" THEN live \ {bash.id} ELSE live
  /\ UNCHANGED <<cmdVars, cancelled, lock, spawned, engineVars>>

\* An idle bash is killed from outside, or by a job.
BashDies ==
  /\ bash.up
  /\ bash.runs = NoCmd
  /\ "exits" \in Endings
  /\ bash' = [bash EXCEPT !.up = FALSE, !.out = IF bash.jobs = {} THEN Append(@, Eof) ELSE @]
  /\ live' = live \ {bash.id}
  /\ UNCHANGED <<cmdVars, cancelled, lock, spawned, engineVars>>

\* The jobs hold the pipe open after a bash that has gone.
JobsEnd ==
  /\ bash.jobs # {}
  /\ bash' = [bash EXCEPT !.jobs = {}, !.out = IF bash.up THEN @ ELSE Append(@, Eof)]
  /\ UNCHANGED <<cmdVars, cancelled, lock, spawned, live, engineVars>>

-----------------------------------------------------------------------------
(* Close (of a DELETE, after the rows are gone) and Shutdown.              *)

At(where) == closer' = [closer EXCEPT !.at = where]

\* A turn's abort cancels its calls, started or not.
CancelTurn == cancelled' = cancelled \cup TurnCmd
AbortTurn ==
  /\ closer.at = "none"
  /\ CancelTurn
  /\ UNCHANGED <<cmdVars, shellVars, engineVars>>

\* The handler of DELETE: the rows go, with what they hold, before Close.
DeleteRows ==
  /\ closer.at = "none"
  /\ closer' = [closer EXCEPT !.at = "deleting", !.why = "delete"]
  /\ row' = [c \in Cmd |-> IF row[c] = "none" THEN "none" ELSE "gone"]
  /\ UNCHANGED <<cmd, outcome, cancelled, heard, shellVars, abort, deleted, known>>

\* The turn is aborted; one critical section marks the session and takes the
\* cancel and the shell.
CloseMarks ==
  /\ closer.at = "deleting"
  /\ deleted' = TRUE
  /\ closer' = [at |-> "cancelling", why |-> "delete", took |-> abort, kills |-> known]
  /\ known' = FALSE
  /\ abort' = NoCmd
  /\ CancelTurn
  /\ UNCHANGED <<cmdVars, shellVars>>

\* Shutdown takes the cancels, and the shells only when the turns are over.
StopCollects ==
  /\ closer.at = "none"
  /\ closer' = [at |-> "cancelling", why |-> "exit", took |-> abort, kills |-> FALSE]
  /\ CancelTurn
  /\ UNCHANGED <<cmdVars, shellVars, abort, deleted, known>>

CloserCancels ==
  /\ closer.at = "cancelling"
  /\ cancelled' = cancelled \cup ({closer.took} \ {NoCmd})
  /\ At(IF closer.why = "exit" THEN "draining"
        ELSE IF closer.kills THEN "killing" ELSE "done")
  /\ UNCHANGED <<cmdVars, shellVars, abort, deleted, known>>

StopSwapsShells ==
  /\ closer.at = "draining"
  /\ closer' = [closer EXCEPT !.at = IF known THEN "killing" ELSE "done"]
  /\ known' = FALSE
  /\ UNCHANGED <<cmdVars, cancelled, shellVars, abort, deleted>>

\* Shell.Close waits for the mutex, however long the command runs.
CloseShell ==
  /\ closer.at = "killing"
  /\ lock = NoCmd
  /\ Reap
  /\ At("done")
  /\ UNCHANGED <<cmdVars, cancelled, lock, spawned, abort, deleted, known>>

-----------------------------------------------------------------------------
Init ==
  /\ cmd = [c \in Cmd |-> "new"] /\ outcome = [c \in Cmd |-> "none"]
  /\ heard = [c \in Cmd |-> {}] /\ row = [c \in Cmd |-> "none"]
  /\ cancelled = {} /\ lock = NoCmd /\ bash = NoBash /\ spawned = 0 /\ live = {}
  /\ abort = NoCmd /\ deleted = FALSE /\ known = FALSE
  /\ closer = [at |-> "none", why |-> "none", took |-> NoCmd, kills |-> FALSE]

\* What a command's goroutine does without waiting for bash to say more.
Goes(c) ==
  Persist(c) \/ Track(c) \/ Begin(c) \/ Read(c) \/ Aborted(c) \/ Finalize(c) \/ Untrack(c)
Closes == CloseMarks \/ CloserCancels \/ StopSwapsShells \/ CloseShell

Next ==
  \/ \E c \in Cmd : Post(c) \/ Call(c) \/ Goes(c) \/ Timeout(c)
  \/ Prints \/ CommandEnds \/ BashDies \/ JobsEnd
  \/ AbortTurn \/ DeleteRows \/ StopCollects \/ Closes

Spec == Init /\ [][Next]_vars

\* Goroutines go on and timers fire; bash need not do anything.
Fairness ==
  /\ \A c \in Cmd : WF_vars(Goes(c)) /\ WF_vars(Timeout(c))
  /\ WF_vars(Closes)
FairSpec == Spec /\ Fairness

-----------------------------------------------------------------------------
(* Properties.                                                             *)

\* The types of the variables.
TypeOK ==
  /\ cmd \in [Cmd -> {"new", "taken", "stored", "waiting", "running", "executed",
                      "leaving", "done", "refused"}]
  /\ outcome \in [Cmd -> {"none", "completed", "failed", "timeout", "aborted"}]
  /\ heard \in [Cmd -> SUBSET Cmd]
  /\ row \in [Cmd -> {"none", "running", "completed", "error", "gone"}]
  /\ cancelled \subseteq Cmd
  /\ {lock, abort} \subseteq Cmd \cup {NoCmd}
  /\ spawned \in Nat /\ live \subseteq 1 .. spawned
  /\ bash.id \in 0 .. spawned /\ bash.up \in BOOLEAN
  /\ bash.runs \in Cmd \cup {NoCmd} /\ bash.jobs \subseteq Cmd
  /\ {deleted, known} \subseteq BOOLEAN
  /\ closer.at \in {"none", "deleting", "cancelling", "draining", "killing", "done"}

\* What a command that was killed may still print is never taken for the
\* output of a later one, which hears itself and jobs left running.
KilledStaysSilent ==
  \A c, d \in Cmd : d \in heard[c] /\ d # c => outcome[d] \notin {"timeout", "aborted"}

\* Every stored command gets a final status, and Close and Shutdown return,
\* whatever bash does: each command has a timer.
ShellSettles ==
  /\ \A c \in Cmd : row[c] = "running" ~> row[c] # "running"
  /\ closer.at # "none" ~> closer.at = "done"

\* Not a property of this code (see the findings): the commands that run when
\* Close has cancelled are cancelled.
CloseKillsRunning ==
  closer.why = "delete" /\ closer.at \in {"killing", "done"} =>
    \A c \in UserCmd : cmd[c] = "running" => c \in cancelled

\* Not a property of this code (see the findings): a command times out only
\* while it runs or while its output has not all been read.
TimeoutMeansRunning ==
  [][\A c \in Cmd :
       outcome[c] # "timeout" /\ outcome'[c] = "timeout" =>
         bash.runs = c \/ bash.out # <<>>]_vars

=============================================================================
