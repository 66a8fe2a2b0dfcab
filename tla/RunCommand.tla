------------------------------ MODULE RunCommand ------------------------------
(***************************************************************************)
(* yolo run (cmd/yolo/run.go): send a prompt, follow the session on the    *)
(* event stream, answer its permission asks, leave when its turn is idle,  *)
(* settle the exit code.  The stream is module EventStream's; the turn is  *)
(* what module Engine leaves of it for a client: events, a permission ask  *)
(* that waits for an answer, an error that is stored and shown if a round  *)
(* had begun, idle, and the busy flag.                                     *)
(*                                                                         *)
(* Another client may run a turn on the session before (--continue,        *)
(* --session) and may abort the turn of the run.                           *)
(*                                                                         *)
(* The requests the command makes once it follows the session have no      *)
(* deadline, but for the abort: while one waits the loop does nothing      *)
(* else, and the server may stop answering for good.                       *)
(***************************************************************************)
EXTENDS EventStream

CONSTANTS
  MaxContent,   \* bound: content events of a turn
  MaxAsks,      \* bound: permission asks of a turn
  RestMayFail,  \* whether a request other than the send may fail
  MayGoMute,    \* whether the server may stop answering requests
  StoreMayFail  \* whether the error of a turn may fail to be stored or read

ASSUME RunAssumption ==
  /\ {RestMayFail, MayGoMute, StoreMayFail} \subseteq BOOLEAN
  /\ {MaxContent, MaxAsks} \subseteq Nat

VARIABLES
  timed,     \* whether --timeout was given
  pc,        \* where the command stands
  turnErr,   \* turnErr
  left,      \* why the event loop was left
  code,      \* the exit code
  settled,   \* whether the settle read worked
  turn,      \* the session's turn: whose, where it stands, what it did so far
  wrong,     \* owners of turns whose error is stored
  mute,      \* the server answers no request any more
  fate,      \* history: how the turn of the run ended
  missed     \* history: the turn's idle was lost to a drop

runVars == <<pc, turnErr, left, code, settled>>
turnVars == <<turn, wrong, mute, fate, missed>>
vars == <<timed, streamVars, runVars, turnVars>>

Event == {"content", "asked", "error", "idle"}
\* "early": no round had begun; "limit": the rounds were used up.
Fates == {"none", "clean", "early", "limit", "stored", "unstored"}
\* begun: a round has begun, so there is a message to show an error on.
NoTurn == [owner |-> "none", at |-> "free", begun |-> FALSE, content |-> 0, asks |-> 0]
NewTurn(owner) == [NoTurn EXCEPT !.owner = owner, !.at = "busy"]

-----------------------------------------------------------------------------
(* The turn, and the other client.                                         *)

TurnGoto(where) == turn' = [turn EXCEPT !.at = where]

\* An event of a round; the first is the round's message.
TurnContent ==
  /\ turn.at = "busy"
  /\ turn.content < MaxContent
  /\ turn' = [turn EXCEPT !.content = @ + 1, !.begun = TRUE]
  /\ Publish("content")
  /\ UNCHANGED <<link, wire, ch, pings, drops, breaks, runVars, wrong, mute, fate,
                 missed>>

TurnAsk ==
  /\ turn.at = "busy" /\ turn.begun
  /\ turn.asks < MaxAsks
  /\ turn' = [turn EXCEPT !.asks = @ + 1, !.at = "asking"]
  /\ Publish("asked")
  /\ UNCHANGED <<link, wire, ch, pings, drops, breaks, runVars, wrong, mute, fate,
                 missed>>

Closes(f) ==
  /\ TurnGoto("ending")
  /\ fate' = IF turn.owner = "run" THEN f ELSE fate

\* Nothing is stored or shown of an end without an error, at the round limit
\* or before the first round.
ClosesQuietly(f) == Closes(f) /\ UNCHANGED <<sub, wrong>>

\* surfaceTurnError: the row and the event may each be missing.
Surfaces ==
  \E stored, shown \in BOOLEAN :
    /\ StoreMayFail \/ (stored /\ shown)
    /\ Closes(IF stored THEN "stored" ELSE "unstored")
    /\ wrong' = IF stored THEN wrong \cup {turn.owner} ELSE wrong
    /\ IF shown THEN Publish("error") ELSE UNCHANGED sub

Fails == IF turn.begun THEN Surfaces ELSE ClosesQuietly("early")

TurnEnds ==
  /\ turn.at = "busy"
  /\ \/ turn.begun /\ \E f \in {"clean", "limit"} : ClosesQuietly(f)
     \/ Fails
  /\ UNCHANGED <<link, wire, ch, pings, drops, breaks, runVars, mute, missed>>

\* Aborted (by another client, the timeout or the signal): an ask is denied.
TurnAborted ==
  /\ turn.at \in {"busy", "asking"}
  /\ Fails
  /\ UNCHANGED <<link, wire, ch, pings, drops, breaks, runVars, mute, missed>>

InLoop == pc \in {"looping", "replying", "checking"}

TurnIdle ==
  /\ turn.at = "ending"
  /\ TurnGoto("idle")
  /\ Publish("idle")
  /\ missed' = (missed \/ (turn.owner = "run" /\ InLoop /\ drops > 0 /\ ~sub.on))
  /\ UNCHANGED <<link, wire, ch, pings, drops, breaks, runVars, wrong, mute, fate>>

TurnRelease ==
  /\ turn.at = "idle"
  /\ turn' = NoTurn
  /\ UNCHANGED <<streamVars, runVars, wrong, mute, fate, missed>>

\* Another client's prompt, and its answers to the asks of its turn.
OtherSends ==
  /\ pc = "start"
  /\ turn.at = "free"
  /\ turn' = NewTurn("other")
  /\ UNCHANGED <<streamVars, runVars, wrong, mute, fate, missed>>
OtherAnswers ==
  /\ turn.at = "asking"
  /\ turn.owner = "other"
  /\ TurnGoto("busy")
  /\ UNCHANGED <<streamVars, runVars, wrong, mute, fate, missed>>

\* The request under way, and any later one, is never answered.
GoMute ==
  /\ MayGoMute /\ ~mute
  /\ pc \in {"sent", "replying", "checking", "settling"}
  /\ mute' = TRUE
  /\ UNCHANGED <<streamVars, runVars, turn, wrong, fate, missed>>

-----------------------------------------------------------------------------
(* The command.                                                            *)

Exit(n) == pc' = "done" /\ code' = n

\* The send is refused while the session is busy.
Send ==
  /\ pc = "start"
  /\ IF turn.at = "free"
     THEN turn' = NewTurn("run") /\ pc' = "sent" /\ UNCHANGED code
     ELSE Exit(1) /\ UNCHANGED turn
  /\ UNCHANGED <<streamVars, turnErr, left, settled, wrong, mute, fate, missed>>

\* The send is answered, and the loop subscribes.
Follow ==
  /\ pc = "sent"
  /\ ~mute
  /\ pc' = "looping"
  /\ Connect
  /\ UNCHANGED <<turnErr, left, code, settled, turnVars>>

Leave(why) == pc' = "settling" /\ left' = why
Waits(for) == pc' = for /\ UNCHANGED left

\* An ask is answered at once; until the reply is, the loop stands.
TakeEvent ==
  /\ pc = "looping"
  /\ ch # <<>>
  /\ ch' = Tail(ch)
  /\ turnErr' = (turnErr \/ Head(ch) = "error")
  /\ \/ Head(ch) = "idle" /\ Leave("idle")
     \/ Head(ch) = "asked" /\ Waits("replying")
     \/ Head(ch) \in {"content", "error"} /\ UNCHANGED <<pc, left>>
  /\ UNCHANGED <<link, sub, wire, pings, drops, breaks, code, settled, turnVars>>

\* The reply, once or reject, is answered; a failed one is swallowed.
Replied ==
  /\ pc = "replying"
  /\ ~mute
  /\ Waits("looping")
  /\ IF turn.at = "asking" /\ turn.owner = "run"
     THEN TurnGoto("busy") \/ (RestMayFail /\ UNCHANGED turn)
     ELSE UNCHANGED turn
  /\ UNCHANGED <<streamVars, turnErr, code, settled, wrong, mute, fate, missed>>

TakePing ==
  /\ pc = "looping"
  /\ pings > 0
  /\ pings' = pings - 1
  /\ Waits("checking")
  /\ UNCHANGED <<link, sub, wire, ch, drops, breaks, turnErr, code, settled, turnVars>>

\* Engine.Status: the busy flag.
ReportsIdleEarly == turn.at \in {"free", "idle", "ending", "asking"}
ReportsIdle == turn.at = "free"

Checked ==
  /\ pc = "checking"
  /\ ~mute
  /\ \/ IF ReportsIdle THEN Leave("idle") ELSE Waits("looping")
     \/ RestMayFail /\ Waits("looping")
  /\ UNCHANGED <<streamVars, turnErr, code, settled, turnVars>>

TimeoutAwaitsIdle ==
  /\ pc = "looping"
  /\ timed
  /\ turnErr' = TRUE
  /\ UNCHANGED <<streamVars, pc, left, code, settled, turnVars>>
\* The timer, which only the loop listens to: abort the turn (TurnAborted), with
\* a deadline of its own, and fail the run.
Timeout ==
  /\ pc = "looping"
  /\ timed
  /\ Leave("timeout")
  /\ turnErr' = TRUE
  /\ UNCHANGED <<streamVars, code, settled, turnVars>>

SettleByEvents ==
  /\ pc = "settling"
  /\ ~mute
  /\ Exit(IF turnErr THEN 1 ELSE 0)
  /\ settled' = TRUE
  /\ UNCHANGED <<streamVars, turnErr, left, turnVars>>
\* The stored messages decide besides the events, if they can be read; any
\* error of the session counts.
Settle ==
  /\ pc = "settling"
  /\ ~mute
  /\ \/ Exit(IF turnErr \/ wrong # {} THEN 1 ELSE 0) /\ settled' = TRUE
     \/ RestMayFail /\ Exit(IF turnErr THEN 1 ELSE 0) /\ UNCHANGED settled
  /\ UNCHANGED <<streamVars, turnErr, left, turnVars>>

\* The signal, at any time once it is armed; its abort is a TurnAborted.
Interrupt ==
  /\ pc # "done"
  /\ Exit(130)
  /\ UNCHANGED <<streamVars, turnErr, left, settled, turnVars>>

-----------------------------------------------------------------------------
Init ==
  /\ timed \in BOOLEAN
  /\ StreamInit
  /\ pc = "start" /\ turnErr = FALSE /\ settled = FALSE
  /\ left = "none" /\ code = 0
  /\ turn = NoTurn /\ wrong = {} /\ missed = FALSE
  /\ mute = FALSE /\ fate = "none"

Stream == StreamStep /\ UNCHANGED <<runVars, turnVars>>
Network ==
  /\ Break
  /\ missed' = (missed \/ (InLoop /\
                  \E q \in {sub.buffer, wire} : \E i \in DOMAIN q : q[i] = "idle"))
  /\ UNCHANGED <<runVars, turn, wrong, mute, fate>>
TurnStep == TurnContent \/ TurnAsk \/ TurnEnds \/ TurnIdle \/ TurnRelease \/ OtherAnswers
RunStep == Follow \/ TakeEvent \/ Replied \/ TakePing \/ Checked \/ Settle

Next ==
  /\ \/ Stream \/ Network \/ TurnStep \/ TurnAborted \/ OtherSends \/ GoMute
     \/ Send \/ RunStep \/ Timeout \/ Interrupt
  /\ UNCHANGED timed

Spec == Init /\ [][Next]_vars

\* Goroutines and the timer go on, and requests are answered unless the server
\* has gone mute; nobody has to abort, and the network has to break as little
\* as it has to hold.
Fairness ==
  /\ WF_vars(Stream /\ UNCHANGED timed)
  /\ WF_vars(TurnStep /\ UNCHANGED timed)
  /\ WF_vars(RunStep /\ UNCHANGED timed)
  /\ WF_vars(Timeout /\ UNCHANGED timed)
FairSpec == Spec /\ Fairness

-----------------------------------------------------------------------------
(* Properties.                                                             *)

\* The types of the variables.
TypeOK ==
  /\ StreamTypeOK(Event)
  /\ pc \in {"start", "sent", "looping", "replying", "checking", "settling", "done"}
  /\ left \in {"none", "idle", "timeout"}
  /\ code \in {0, 1, 130}
  /\ {timed, settled, turnErr, missed, mute} \subseteq BOOLEAN
  /\ turn \in [owner : {"none", "run", "other"},
               at : {"free", "busy", "asking", "ending", "idle"}, begun : BOOLEAN,
               content : 0 .. MaxContent, asks : 0 .. MaxAsks]
  /\ wrong \subseteq {"run", "other"}
  /\ fate \in Fates

\* The run never leaves its turn behind: it takes neither the idle of an
\* earlier turn, nor a status, for the end of its own.
LeavesAfterTurn ==
  left = "idle" /\ turn.owner = "run" => turn.at = "idle"

\* A turn that failed or was aborted once a round had begun, within the round
\* limit, and whose error was stored is never a success for the shell that
\* started the run, whichever events were lost, as long as the settle read works.
ErrorReported ==
  settled /\ fate = "stored" => code = 1

IdleUnderWay ==
  \E q \in {sub.buffer, wire, ch} : \E i \in DOMAIN q : q[i] = "idle"

\* As long as the server answers requests: an idle that was put on the run's
\* subscription ends the loop, unless the connection is lost once more, however
\* full the buffers are; and a run with --timeout ends, whatever is lost.
RunEnds ==
  /\ \A d \in 0 .. MaxBreaks + 1 :
       (InLoop /\ drops = d /\ IdleUnderWay) ~> (~InLoop \/ drops > d \/ mute)
  /\ (timed /\ InLoop) ~> (pc = "done" \/ mute)

\* Not a property of this code (see the findings): --timeout bounds the run,
\* whether the server answers or not.
TimeoutBoundsRun == (timed /\ InLoop) ~> ~InLoop

\* Not a property of this code (see the findings): a turn that did not end well
\* is not a success for the shell.
FailureIsNoSuccess ==
  settled /\ fate \notin {"none", "clean"} => code = 1

\* Not a property of this code (see the findings): a turn that ended without
\* an error is a success for the shell, whatever the session did before.
CleanTurnExitsZero ==
  settled /\ left = "idle" /\ fate = "clean" => code = 0

\* Not a property of this code (see the findings): a turn whose idle was lost
\* to a drop ends the run on the status check.
LostIdleEndsRun == missed ~> ~InLoop

=============================================================================
