------------------------------- MODULE Engine -------------------------------
(***************************************************************************)
(* The turn lifecycle of internal/session/engine.go: which turn owns a     *)
(* session, what the bus says about it, and how Abort, DELETE and Shutdown *)
(* end it while its goroutine and its title side-call run.                 *)
(*                                                                         *)
(* Processes: one per Turn (the POST handler in Engine.Send, then the      *)
(* runTurn goroutine), the title goroutine a turn may start, one per       *)
(* Aborter (POST abort handlers), one per session for its DELETE, and one  *)
(* for Shutdown.  What happens inside a round is module Round's; here a    *)
(* round is a stream of events that ends in one of the ways it can.        *)
(*                                                                         *)
(* Engine.busy and Engine.turnDone are written together under Engine.mu,   *)
(* so one variable stands for both: busy[s] is the turn whose cancel and   *)
(* done channel they hold.                                                 *)
(*                                                                         *)
(* Definitions that stand just before the one they vary, and that no other *)
(* definition uses (SendPersistLeaks, DropsAny, StopTitlesNow, ...), are   *)
(* plausible bugs: each breaks a property below that the code satisfies.   *)
(***************************************************************************)
EXTENDS Naturals, FiniteSets

CONSTANTS
  Session,
  Turn,          \* calls of Engine.Send, with the turn each may become
  SessionOf,     \* [Turn -> Session]
  Aborter,       \* concurrent POST /session/{id}/abort handlers
  Scenarios,     \* bound: what the environment may do in one behaviour
  NoTurn

ASSUME EngineAssumption ==
  /\ SessionOf \in [Turn -> Session]
  /\ Scenarios \subseteq [deletes : SUBSET Session, renames : SUBSET Session,
                           aborts : BOOLEAN, shutdown : BOOLEAN, faults : BOOLEAN]
  /\ NoTurn \notin Turn

VARIABLES
  scenario,     \* sessions clients may DELETE and rename; whether they abort,
                \* the process is told to exit, statements may fail
  rows,         \* sessions whose row exists
  named,        \* sessions whose title is no longer the default
  spoken,       \* sessions with an assistant message
  pc,           \* [Turn -> where Send or runTurn stands]
  untitled,     \* turns whose session row, as Send read it, had no title
  result,       \* [Turn -> turnErr]
  begun,        \* turns with a round, lastMsgID # ""
  out,          \* [Turn -> the event that passed the suppression check]
  busy,         \* [Session -> the turn that owns it]
  closed,       \* turns whose done channel was closed
  cancelled,    \* turns whose context was cancelled
  title,        \* [Turn -> where its title goroutine stands]
  titleCtx,     \* [Session -> the turn whose title cancel is tracked]
  titleStop,    \* turns whose title context was cancelled
  replaced,     \* history: turns whose title's cancel a later title's replaced
  deleted,      \* Engine.deleted
  shown,        \* [Session -> the last session.status on the bus]
  surfaced,     \* history: turns whose error reached the bus
  stray,        \* history: sessions with an event after session.deleted
  abort,        \* [Aborter -> its handler]
  del,          \* [Session -> where its DELETE stands]
  awaited,      \* [Session -> the channel settleAndClose waits on]
  stop          \* Shutdown

turnVars == <<pc, untitled, result, begun, out>>
titleVars == <<title, titleCtx, titleStop, replaced>>
storeVars == <<rows, named, spoken>>
wireVars == <<shown, surfaced, stray>>
closeVars == <<deleted, del, awaited>>
vars == <<scenario, turnVars, titleVars, storeVars, wireVars, closeVars, busy, closed,
          cancelled, abort, stop>>

Results == {"none", "ok", "failed", "aborted", "exhausted"}
Events == {"content", "error", "busy", "idle"}
NoEvent == "none"

Of(t) == SessionOf[t]
DbMayFail == scenario.faults
At(t, where) == pc[t] = where /\ out[t] = NoEvent
Goto(t, where) == pc' = [pc EXCEPT ![t] = where]

\* A statement on behalf of t: it may fail, it fails on a cancelled context,
\* and inserts fail once the session row is gone (foreign keys).
StatementFails(t) == DbMayFail \/ t \in cancelled
InsertFails(t) == StatementFails(t) \/ Of(t) \notin rows
InsertWorks(t) == t \notin cancelled /\ Of(t) \in rows

\* publish: the suppression check, then (Emit) the bus.
Suppressed(t) == Of(t) \in deleted
Offer(t, event) ==
  out' = [out EXCEPT ![t] = IF Suppressed(t) THEN NoEvent ELSE event]

\* endTurn: the busy flag and the done channel go in one step.
EndTurn(t) ==
  /\ busy' = [busy EXCEPT ![Of(t)] = NoTurn]
  /\ closed' = closed \cup {t}

-----------------------------------------------------------------------------
(* Send.                                                                   *)

SendLookup(t) ==
  /\ At(t, "new")
  /\ IF Of(t) \in rows
     THEN /\ Goto(t, "checked")
          /\ untitled' = IF Of(t) \in named THEN untitled ELSE untitled \cup {t}
     ELSE Goto(t, "refused") /\ UNCHANGED untitled
  /\ UNCHANGED <<result, begun, out, titleVars, storeVars, wireVars, closeVars,
                 busy, closed, cancelled, abort, stop>>

\* The busy check and the claim are one critical section.
Free(t) == busy[Of(t)] = NoTurn
SendClaim(t) ==
  /\ At(t, "checked")
  /\ IF Free(t)
     THEN busy' = [busy EXCEPT ![Of(t)] = t] /\ Goto(t, "claimed")
     ELSE Goto(t, "refused") /\ UNCHANGED busy
  /\ UNCHANGED <<untitled, result, begun, out, titleVars, storeVars, wireVars,
                 closeVars, closed, cancelled, abort, stop>>

SendPersistLeaks(t) ==
  /\ At(t, "claimed")
  /\ \/ Of(t) \in rows /\ Goto(t, "saved")
     \/ (DbMayFail \/ Of(t) \notin rows) /\ Goto(t, "failed")
  /\ UNCHANGED <<untitled, result, begun, out, titleVars, storeVars, wireVars,
                 closeVars, busy, closed, cancelled, abort, stop>>

\* The user message and its text part.  Send's own context is never cancelled.
SendPersist(t) ==
  /\ At(t, "claimed")
  /\ \/ Of(t) \in rows /\ Goto(t, "saved") /\ UNCHANGED <<busy, closed>>
     \/ (DbMayFail \/ Of(t) \notin rows) /\ Goto(t, "failed") /\ EndTurn(t)
  /\ UNCHANGED <<untitled, result, begun, out, titleVars, storeVars, wireVars,
                 closeVars, cancelled, abort, stop>>

SendPublish(t) ==
  /\ At(t, "saved")
  /\ Offer(t, "content")
  /\ Goto(t, "published")
  /\ UNCHANGED <<untitled, result, begun, titleVars, storeVars, wireVars,
                 closeVars, busy, closed, cancelled, abort, stop>>

SendFilesIdle(t) ==
  /\ At(t, "published")
  /\ \/ Goto(t, "filed") /\ UNCHANGED <<out, busy, closed>>
     \/ /\ DbMayFail \/ Of(t) \notin rows
        /\ Goto(t, "failed")
        /\ Offer(t, "idle")
        /\ EndTurn(t)
  /\ UNCHANGED <<untitled, result, begun, titleVars, storeVars, wireVars,
                 closeVars, cancelled, abort, stop>>

\* The attached files, if any: a failing one ends the turn that never started.
SendFiles(t) ==
  /\ At(t, "published")
  /\ \/ Goto(t, "filed") /\ UNCHANGED <<busy, closed>>
     \/ (DbMayFail \/ Of(t) \notin rows) /\ Goto(t, "failed") /\ EndTurn(t)
  /\ UNCHANGED <<untitled, result, begun, out, titleVars, storeVars, wireVars,
                 closeVars, cancelled, abort, stop>>

\* maybeScheduleTitle: the title Send read was the default and no assistant
\* message exists.  The cancel it stores replaces that of an earlier title.
SendTitle(t) ==
  /\ At(t, "filed")
  /\ \/ /\ t \in untitled
        /\ Of(t) \notin spoken
        /\ title' = [title EXCEPT ![t] = "streaming"]
        /\ titleCtx' = [titleCtx EXCEPT ![Of(t)] = t]
        /\ replaced' = replaced \cup ({titleCtx[Of(t)]} \ {NoTurn})
     \/ /\ t \notin untitled \/ Of(t) \in spoken \/ DbMayFail
        /\ UNCHANGED <<title, titleCtx, replaced>>
  /\ Goto(t, "spawned")
  /\ UNCHANGED <<untitled, result, begun, out, titleStop, storeVars, wireVars,
                 closeVars, busy, closed, cancelled, abort, stop>>

-----------------------------------------------------------------------------
(* runTurn.                                                                *)

TurnBusy(t) ==
  /\ At(t, "spawned")
  /\ Offer(t, "busy")
  /\ Goto(t, "loading")
  /\ UNCHANGED <<untitled, result, begun, titleVars, storeVars, wireVars,
                 closeVars, busy, closed, cancelled, abort, stop>>

Finish(t, r) == Goto(t, "ending") /\ result' = [result EXCEPT ![t] = r]
Failure(t) == IF t \in cancelled THEN "aborted" ELSE "failed"

\* The configuration and the history are loaded on the turn's context.
TurnLoad(t) ==
  /\ At(t, "loading")
  /\ \/ t \notin cancelled /\ Goto(t, "running") /\ UNCHANGED result
     \/ StatementFails(t) /\ Finish(t, Failure(t))
  /\ UNCHANGED <<untitled, begun, out, titleVars, storeVars, wireVars,
                 closeVars, busy, closed, cancelled, abort, stop>>

\* A round begins by creating its assistant message.
RoundBegin(t) ==
  /\ At(t, "running")
  /\ \/ /\ InsertWorks(t)
        /\ Goto(t, "streaming")
        /\ begun' = begun \cup {t}
        /\ spoken' = spoken \cup {Of(t)}
        /\ Offer(t, "content")
        /\ UNCHANGED result
     \/ /\ InsertFails(t)
        /\ Finish(t, Failure(t))
        /\ UNCHANGED <<begun, spoken, out>>
  /\ UNCHANGED <<untitled, titleVars, rows, named, wireVars, closeVars, busy,
                 closed, cancelled, abort, stop>>

RoundContent(t) ==
  /\ At(t, "streaming")
  /\ Offer(t, "content")
  /\ UNCHANGED <<pc, untitled, result, begun, titleVars, storeVars, wireVars,
                 closeVars, busy, closed, cancelled, abort, stop>>

\* The model is done, the round failed or panicked, or it called tools and
\* another round follows, unless the turn was cancelled or has had them all.
RoundEnd(t) ==
  /\ At(t, "streaming")
  /\ \/ \E r \in {"ok", "failed", "exhausted"} : Finish(t, r)
     \/ t \notin cancelled /\ Goto(t, "running") /\ UNCHANGED result
  /\ UNCHANGED <<untitled, begun, out, titleVars, storeVars, wireVars,
                 closeVars, busy, closed, cancelled, abort, stop>>

\* Streams, tools, asks and backoffs all return when the context is cancelled.
RoundAborted(t) ==
  /\ At(t, "streaming")
  /\ t \in cancelled
  /\ Finish(t, "aborted")
  /\ UNCHANGED <<untitled, begun, out, titleVars, storeVars, wireVars,
                 closeVars, busy, closed, cancelled, abort, stop>>

TurnSurfaceOnContext(t) ==
  /\ At(t, "ending")
  /\ IF result[t] \in {"failed", "aborted"} /\ t \in begun
     THEN \/ InsertWorks(t) /\ Offer(t, "error")
          \/ InsertFails(t) /\ UNCHANGED out
     ELSE UNCHANGED out
  /\ Goto(t, "surfaced")
  /\ UNCHANGED <<untitled, result, begun, titleVars, storeVars, wireVars,
                 closeVars, busy, closed, cancelled, abort, stop>>

\* surfaceTurnError, on a detached context; without the message row (the
\* session was deleted) there is nothing to publish.
TurnSurface(t) ==
  /\ At(t, "ending")
  /\ IF result[t] \in {"failed", "aborted"} /\ t \in begun
     THEN \/ Of(t) \in rows /\ Offer(t, "error")
          \/ (DbMayFail \/ Of(t) \notin rows) /\ UNCHANGED out
     ELSE UNCHANGED out
  /\ Goto(t, "surfaced")
  /\ UNCHANGED <<untitled, result, begun, titleVars, storeVars, wireVars,
                 closeVars, busy, closed, cancelled, abort, stop>>

TurnIdleUnlessAborted(t) ==
  /\ At(t, "surfaced")
  /\ IF result[t] = "aborted" THEN UNCHANGED out ELSE Offer(t, "idle")
  /\ Goto(t, "idling")
  /\ UNCHANGED <<untitled, result, begun, titleVars, storeVars, wireVars,
                 closeVars, busy, closed, cancelled, abort, stop>>
TurnIdleSignals(t) ==
  /\ At(t, "surfaced")
  /\ Offer(t, "idle")
  /\ Goto(t, "idling")
  /\ closed' = closed \cup {t}
  /\ UNCHANGED <<untitled, result, begun, titleVars, storeVars, wireVars,
                 closeVars, busy, cancelled, abort, stop>>
TurnIdle(t) ==
  /\ At(t, "surfaced")
  /\ Offer(t, "idle")
  /\ Goto(t, "idling")
  /\ UNCHANGED <<untitled, result, begun, titleVars, storeVars, wireVars,
                 closeVars, busy, closed, cancelled, abort, stop>>

TurnReleaseUnlessAborted(t) ==
  /\ At(t, "idling")
  /\ IF result[t] = "aborted" THEN UNCHANGED <<busy, closed, pc>>
     ELSE EndTurn(t) /\ Goto(t, "done")
  /\ UNCHANGED <<untitled, result, begun, out, titleVars, storeVars, wireVars,
                 closeVars, cancelled, abort, stop>>

\* The flag is released after idle was published, never before.
TurnRelease(t) ==
  /\ At(t, "idling")
  /\ EndTurn(t)
  /\ Goto(t, "done")
  /\ UNCHANGED <<untitled, result, begun, out, titleVars, storeVars, wireVars,
                 closeVars, cancelled, abort, stop>>

Emit(t) ==
  /\ out[t] # NoEvent
  /\ out' = [out EXCEPT ![t] = NoEvent]
  /\ shown' = IF out[t] \in {"busy", "idle"}
              THEN [shown EXCEPT ![Of(t)] = out[t]] ELSE shown
  /\ surfaced' = IF out[t] = "error" THEN surfaced \cup {t} ELSE surfaced
  /\ stray' = IF del[Of(t)] = "done" THEN stray \cup {Of(t)} ELSE stray
  /\ UNCHANGED <<pc, untitled, result, begun, titleVars, storeVars, closeVars,
                 busy, closed, cancelled, abort, stop>>

-----------------------------------------------------------------------------
(* The title goroutine.                                                    *)

TitleGoto(t, where) == title' = [title EXCEPT ![t] = where]

\* The model's title, or a failed, empty, timed out or cancelled stream.
TitleStream(t) ==
  /\ title[t] = "streaming"
  /\ \/ t \notin titleStop /\ TitleGoto(t, "writing")
     \/ TitleGoto(t, "leaving")
  /\ UNCHANGED <<titleCtx, titleStop, replaced, turnVars, storeVars, wireVars,
                 closeVars, busy, closed, cancelled, abort, stop>>

\* The update and the reads after it; whatever the title is by now.
TitleWrite(t) ==
  /\ title[t] = "writing"
  /\ \/ /\ t \notin titleStop
        /\ Of(t) \in rows
        /\ named' = named \cup {Of(t)}
        /\ TitleGoto(t, "written")
     \/ /\ t \in titleStop \/ Of(t) \notin rows \/ DbMayFail
        /\ TitleGoto(t, "leaving")
        /\ UNCHANGED named
  /\ UNCHANGED <<titleCtx, titleStop, replaced, turnVars, rows, spoken, wireVars,
                 closeVars, busy, closed, cancelled, abort, stop>>

TitleOffer(t) ==
  /\ title[t] = "written"
  /\ TitleGoto(t, IF Suppressed(t) THEN "leaving" ELSE "offered")
  /\ UNCHANGED <<titleCtx, titleStop, replaced, turnVars, storeVars, wireVars,
                 closeVars, busy, closed, cancelled, abort, stop>>

TitleEmit(t) ==
  /\ title[t] = "offered"
  /\ TitleGoto(t, "leaving")
  /\ stray' = IF del[Of(t)] = "done" THEN stray \cup {Of(t)} ELSE stray
  /\ UNCHANGED <<titleCtx, titleStop, replaced, turnVars, storeVars, shown, surfaced,
                 closeVars, busy, closed, cancelled, abort, stop>>

\* dropTitleCtx: a stale title leaves the entry of a newer one alone.
DropsAny(t) == NoTurn
Dropped(t) == IF titleCtx[Of(t)] = t THEN NoTurn ELSE titleCtx[Of(t)]
TitleLeave(t) ==
  /\ title[t] = "leaving"
  /\ titleCtx' = [titleCtx EXCEPT ![Of(t)] = Dropped(t)]
  /\ TitleGoto(t, "done")
  /\ UNCHANGED <<titleStop, replaced, turnVars, storeVars, wireVars, closeVars, busy,
                 closed, cancelled, abort, stop>>

-----------------------------------------------------------------------------
(* Abort, and the POST abort handler around it.                            *)

\* Under the lock: the title's cancel and the owner's, whoever that is.
CancelsNobody(s) == UNCHANGED <<cancelled, titleStop>>
CancelOwner(s) ==
  /\ cancelled' = cancelled \cup ({busy[s]} \ {NoTurn})
  /\ titleStop' = titleStop \cup ({titleCtx[s]} \ {NoTurn})

NoAbort == [at |-> "none", session |-> NoTurn, target |-> NoTurn, channel |-> NoTurn]

AbortCall(a, s) ==
  /\ scenario.aborts
  /\ abort[a].at = "none"
  /\ s \in rows
  /\ CancelOwner(s)
  /\ abort' = [abort EXCEPT ![a] =
       IF busy[s] = NoTurn THEN NoAbort
       ELSE [at |-> "aborted", session |-> s, target |-> busy[s], channel |-> NoTurn]]
  /\ UNCHANGED <<title, titleCtx, replaced, turnVars, storeVars, wireVars, closeVars,
                 busy, closed, stop>>

\* WaitIdle: take the channel under the lock, no channel means idle.
AbortCapture(a) ==
  /\ abort[a].at = "aborted"
  /\ abort' = [abort EXCEPT ![a].at = IF busy[abort[a].session] = NoTurn THEN "settled"
                                      ELSE "waiting",
                            ![a].channel = busy[abort[a].session]]
  /\ UNCHANGED <<turnVars, titleVars, storeVars, wireVars, closeVars, busy,
                 closed, cancelled, stop>>

AbortSettled(a) ==
  /\ abort[a].at = "waiting"
  /\ abort[a].channel \in closed
  /\ abort' = [abort EXCEPT ![a].at = "settled"]
  /\ UNCHANGED <<turnVars, titleVars, storeVars, wireVars, closeVars, busy,
                 closed, cancelled, stop>>

\* The 2 s bound.
AbortTimeout(a) ==
  /\ abort[a].at = "waiting"
  /\ abort' = [abort EXCEPT ![a].at = "late"]
  /\ UNCHANGED <<turnVars, titleVars, storeVars, wireVars, closeVars, busy,
                 closed, cancelled, stop>>

AbortReturn(a) ==
  /\ abort[a].at \in {"settled", "late"}
  /\ abort' = [abort EXCEPT ![a] = NoAbort]
  /\ UNCHANGED <<turnVars, titleVars, storeVars, wireVars, closeVars, busy,
                 closed, cancelled, stop>>

-----------------------------------------------------------------------------
(* DELETE /session/{id}: the row, Engine.Close, session.deleted.           *)

DelGoto(s, where) == del' = [del EXCEPT ![s] = where]

DeleteRow(s) ==
  /\ s \in scenario.deletes \cap rows
  /\ del[s] = "none"
  /\ rows' = rows \ {s}
  /\ DelGoto(s, "deleting")
  /\ UNCHANGED <<named, spoken, turnVars, titleVars, wireVars, deleted, awaited,
                 busy, closed, cancelled, abort, stop>>

CloseAbort(s) ==
  /\ del[s] = "deleting"
  /\ CancelOwner(s)
  /\ DelGoto(s, "aborted")
  /\ UNCHANGED <<title, titleCtx, replaced, turnVars, storeVars, wireVars, deleted,
                 awaited, busy, closed, abort, stop>>

\* Marks the session and takes its shell; without one there is no settling.
CloseMark(s) ==
  /\ del[s] = "aborted"
  /\ deleted' = deleted \cup {s}
  /\ DelGoto(s, "settling") \/ DelGoto(s, "closed")
  /\ UNCHANGED <<awaited, turnVars, titleVars, storeVars, wireVars, busy,
                 closed, cancelled, abort, stop>>

\* settleAndClose: while busy, wait for whoever is busy by then.
CloseCheck(s) ==
  /\ del[s] = "settling"
  /\ DelGoto(s, IF busy[s] = NoTurn THEN "closed" ELSE "checked")
  /\ UNCHANGED <<deleted, awaited, turnVars, titleVars, storeVars, wireVars,
                 busy, closed, cancelled, abort, stop>>

CloseCapture(s) ==
  /\ del[s] = "checked"
  /\ DelGoto(s, IF busy[s] = NoTurn THEN "settling" ELSE "waiting")
  /\ awaited' = [awaited EXCEPT ![s] = busy[s]]
  /\ UNCHANGED <<deleted, turnVars, titleVars, storeVars, wireVars, busy,
                 closed, cancelled, abort, stop>>

CloseWait(s) ==
  /\ del[s] = "waiting"
  /\ awaited[s] \in closed
  /\ DelGoto(s, "settling")
  /\ awaited' = [awaited EXCEPT ![s] = NoTurn]
  /\ UNCHANGED <<deleted, turnVars, titleVars, storeVars, wireVars, busy,
                 closed, cancelled, abort, stop>>

\* The 2 s bound: hard close.
CloseTimeout(s) ==
  /\ del[s] = "waiting"
  /\ DelGoto(s, "closed")
  /\ awaited' = [awaited EXCEPT ![s] = NoTurn]
  /\ UNCHANGED <<deleted, turnVars, titleVars, storeVars, wireVars, busy,
                 closed, cancelled, abort, stop>>

\* The handler publishes session.deleted once Close has returned.
DeleteEmit(s) ==
  /\ del[s] = "closed"
  /\ DelGoto(s, "done")
  /\ UNCHANGED <<deleted, awaited, turnVars, titleVars, storeVars, wireVars,
                 busy, closed, cancelled, abort, stop>>

-----------------------------------------------------------------------------
(* Shutdown.  turns, titles: the cancels it collected; left: the sessions  *)
(* of its last scan it has still to wait for; channel: the one it waits on.*)

NoStop == [at |-> "up", turns |-> {}, titles |-> {}, left |-> {},
           channel |-> NoTurn, expired |-> FALSE]
Stop(where) == stop' = [stop EXCEPT !.at = where]

Owners == {busy[s] : s \in Session} \ {NoTurn}

StopCollect ==
  /\ scenario.shutdown
  /\ stop.at = "up"
  /\ stop' = [stop EXCEPT !.at = "cancelling", !.turns = Owners,
                          !.titles = {titleCtx[s] : s \in Session} \ {NoTurn}]
  /\ UNCHANGED <<turnVars, titleVars, storeVars, wireVars, closeVars, busy,
                 closed, cancelled, abort>>

StopCancel ==
  /\ stop.at = "cancelling"
  /\ cancelled' = cancelled \cup stop.turns
  /\ titleStop' = titleStop \cup stop.titles
  /\ Stop("draining")
  /\ UNCHANGED <<turnVars, title, titleCtx, replaced, storeVars, wireVars, closeVars,
                 busy, closed, abort>>

StopScan ==
  /\ stop.at = "draining"
  /\ stop' = IF Owners = {} THEN [stop EXCEPT !.at = "titles"]
             ELSE [stop EXCEPT !.at = "waiting",
                               !.left = {s \in Session : busy[s] # NoTurn}]
  /\ UNCHANGED <<turnVars, titleVars, storeVars, wireVars, closeVars, busy,
                 closed, cancelled, abort>>

\* WaitIdle on each session of the scan: the channel of its owner by then.
StopCapture ==
  /\ stop.at = "waiting"
  /\ stop.channel = NoTurn
  /\ \/ \E s \in stop.left :
          stop' = [stop EXCEPT !.left = @ \ {s}, !.channel = busy[s]]
     \/ stop.left = {} /\ Stop("draining")
  /\ UNCHANGED <<turnVars, titleVars, storeVars, wireVars, closeVars, busy,
                 closed, cancelled, abort>>

StopWaited ==
  /\ stop.at = "waiting"
  /\ stop.channel \in closed
  /\ stop' = [stop EXCEPT !.channel = NoTurn]
  /\ UNCHANGED <<turnVars, titleVars, storeVars, wireVars, closeVars, busy,
                 closed, cancelled, abort>>

TitleRuns(t) == title[t] \notin {"none", "done"}

StopTitlesNow ==
  /\ stop.at = "titles"
  /\ Stop("down")
  /\ UNCHANGED <<turnVars, titleVars, storeVars, wireVars, closeVars, busy,
                 closed, cancelled, abort>>
StopTitles ==
  /\ stop.at = "titles"
  /\ \A t \in Turn : ~TitleRuns(t)
  /\ Stop("down")
  /\ UNCHANGED <<turnVars, titleVars, storeVars, wireVars, closeVars, busy,
                 closed, cancelled, abort>>

\* The deadline: 5 s, or the caller's.
StopDeadline ==
  /\ stop.at \in {"draining", "waiting", "titles"}
  /\ stop' = [stop EXCEPT !.at = "down", !.expired = TRUE]
  /\ UNCHANGED <<turnVars, titleVars, storeVars, wireVars, closeVars, busy,
                 closed, cancelled, abort>>

\* A client renames the session (PATCH).
Rename(s) ==
  /\ s \in scenario.renames \cap rows
  /\ named' = named \cup {s}
  /\ UNCHANGED <<rows, spoken, turnVars, titleVars, wireVars, closeVars, busy,
                 closed, cancelled, abort, stop>>

-----------------------------------------------------------------------------
Init ==
  /\ scenario \in Scenarios
  /\ rows = Session /\ named = {} /\ spoken = {}
  /\ pc = [t \in Turn |-> "new"]
  /\ untitled = {}
  /\ result = [t \in Turn |-> "none"]
  /\ begun = {}
  /\ out = [t \in Turn |-> NoEvent]
  /\ busy = [s \in Session |-> NoTurn]
  /\ closed = {} /\ cancelled = {}
  /\ title = [t \in Turn |-> "none"]
  /\ titleCtx = [s \in Session |-> NoTurn]
  /\ titleStop = {} /\ replaced = {}
  /\ deleted = {}
  /\ shown = [s \in Session |-> "idle"]
  /\ surfaced = {} /\ stray = {}
  /\ abort = [a \in Aborter |-> NoAbort]
  /\ del = [s \in Session |-> "none"]
  /\ awaited = [s \in Session |-> NoTurn]
  /\ stop = NoStop

\* What a turn does by itself; when its model answers is not up to it.
TurnStep(t) ==
  \/ SendLookup(t) \/ SendClaim(t) \/ SendPersist(t) \/ SendPublish(t)
  \/ SendFiles(t) \/ SendTitle(t) \/ TurnBusy(t) \/ TurnLoad(t)
  \/ RoundBegin(t) \/ RoundAborted(t) \/ TurnSurface(t) \/ TurnIdle(t)
  \/ TurnRelease(t) \/ Emit(t)
ModelStep(t) == RoundContent(t) \/ RoundEnd(t)
TitleStep(t) ==
  TitleStream(t) \/ TitleWrite(t) \/ TitleOffer(t) \/ TitleEmit(t) \/ TitleLeave(t)
AbortStep(a) ==
  AbortCapture(a) \/ AbortSettled(a) \/ AbortTimeout(a) \/ AbortReturn(a)
CloseStep(s) ==
  \/ CloseAbort(s) \/ CloseMark(s) \/ CloseCheck(s) \/ CloseCapture(s)
  \/ CloseWait(s) \/ CloseTimeout(s) \/ DeleteEmit(s)
StopStep ==
  \/ StopCollect \/ StopCancel \/ StopScan \/ StopCapture \/ StopWaited
  \/ StopTitles \/ StopDeadline

Next ==
  /\ \/ \E t \in Turn : TurnStep(t) \/ ModelStep(t) \/ TitleStep(t)
     \/ \E a \in Aborter : AbortStep(a) \/ \E s \in Session : AbortCall(a, s)
     \/ \E s \in Session : DeleteRow(s) \/ CloseStep(s) \/ Rename(s)
     \/ StopStep
  /\ UNCHANGED scenario

Spec == Init /\ [][Next]_vars

\* Goroutines that can go on do; the model may take for ever, except that a
\* stream's select sees a cancelled context sooner or later.
Fairness ==
  /\ \A t \in Turn : /\ WF_vars(TurnStep(t) /\ UNCHANGED scenario)
                     /\ SF_vars(RoundAborted(t) /\ UNCHANGED scenario)
                     /\ WF_vars(TitleStep(t) /\ UNCHANGED scenario)
  /\ \A a \in Aborter : WF_vars(AbortStep(a) /\ UNCHANGED scenario)
  /\ \A s \in Session : WF_vars(CloseStep(s) /\ UNCHANGED scenario)
  /\ WF_vars(StopStep /\ UNCHANGED scenario)
FairSpec == Spec /\ Fairness

-----------------------------------------------------------------------------
(* Properties.                                                             *)

\* The types of the variables.
TypeOK ==
  /\ scenario \in Scenarios
  /\ rows \subseteq Session /\ named \subseteq Session /\ spoken \subseteq Session
  /\ pc \in [Turn -> {"new", "checked", "claimed", "saved", "published", "filed",
                      "spawned", "loading", "running", "streaming", "ending",
                      "surfaced", "idling", "done", "refused", "failed"}]
  /\ result \in [Turn -> Results]
  /\ out \in [Turn -> Events \cup {NoEvent}]
  /\ busy \in [Session -> Turn \cup {NoTurn}]
  /\ untitled \subseteq Turn /\ begun \subseteq Turn /\ closed \subseteq Turn
  /\ cancelled \subseteq Turn /\ titleStop \subseteq Turn /\ replaced \subseteq Turn
  /\ title \in [Turn -> {"none", "streaming", "writing", "written", "offered",
                         "leaving", "done"}]
  /\ titleCtx \in [Session -> Turn \cup {NoTurn}]
  /\ deleted \subseteq Session
  /\ shown \in [Session -> {"busy", "idle"}]
  /\ surfaced \subseteq Turn /\ stray \subseteq Session
  /\ abort \in [Aborter -> [at : {"none", "aborted", "waiting", "settled", "late"},
                            session : Session \cup {NoTurn},
                            target : Turn \cup {NoTurn},
                            channel : Turn \cup {NoTurn}]]
  /\ del \in [Session -> {"none", "deleting", "aborted", "settling", "checked",
                          "waiting", "closed", "done"}]
  /\ awaited \in [Session -> Turn \cup {NoTurn}]
  /\ stop \in [at : {"up", "cancelling", "draining", "waiting", "titles", "down"},
               turns : SUBSET Turn, titles : SUBSET Turn, left : SUBSET Session,
               channel : Turn \cup {NoTurn}, expired : BOOLEAN]

Holding(t) ==
  pc[t] \in {"claimed", "saved", "published", "filed", "spawned", "loading",
             "running", "streaming", "ending", "surfaced", "idling"}

\* The busy flag names the one turn in flight: two turns of a session never
\* run at once, the flag never outlives its turn (a Send that fails half-way
\* included), and its done channel is open for exactly that long.
FlagMatchesTurn ==
  \A t \in Turn : /\ Holding(t) <=> busy[Of(t)] = t
                  /\ Holding(t) => t \notin closed

\* Clients see a session go busy and idle in turns: no lone idle from a Send
\* that failed, no busy of the next turn before the idle of the last.
StatusAlternates ==
  \A t \in Turn : out[t] \in {"busy", "idle"} => shown[Of(t)] # out[t]

\* A client is never left with a busy session that has no turn.
NoStuckBusy ==
  \A s \in Session : shown[s] = "busy" /\ s \notin deleted => busy[s] # NoTurn

\* A turn that failed or was aborted after its first round says so before it
\* goes idle (what keeps the client from ringing its done bell).
ErrorsSurface ==
  \A t \in Turn :
    /\ pc[t] \in {"idling", "done"}
    /\ result[t] \in {"failed", "aborted"}
    /\ t \in begun
    /\ Of(t) \in rows
    /\ ~DbMayFail
    => t \in surfaced

\* When POST abort answers without having timed out, the turn it aborted no
\* longer owns the session, even if another one started meanwhile.
AbortSettles ==
  \A a \in Aborter :
    abort[a].at = "settled" => busy[abort[a].session] # abort[a].target

\* Only a later title of its session takes the tracked cancel of a running one
\* away: until then an abort, a DELETE and Shutdown reach it, whichever titles of
\* earlier turns end meanwhile (dropTitleCtx).
TitleStaysCancellable ==
  \A t \in Turn : TitleRuns(t) /\ t \notin replaced => titleCtx[Of(t)] = t

\* What Abort says it cancels besides the turn: every title side-call that runs.
\* It does not hold: the entry of the first title is overwritten by the second.
EveryTitleTracked == \A t \in Turn : TitleRuns(t) => titleCtx[Of(t)] = t

\* A Shutdown that drained before its deadline leaves none of the turns it
\* found, and no title of theirs.
ShutdownDrains ==
  stop.at = "down" /\ ~stop.expired =>
    \A t \in stop.turns : ~Holding(t) /\ ~TitleRuns(t)

\* An aborted turn gives its session back, whatever it was doing.
AbortedTurnEnds ==
  \A t \in Turn : (t \in cancelled /\ Holding(t)) ~> ~Holding(t)

\* Once Close has marked a deleted session, it ends up without a turn for
\* good, also when a Send or a title was under way while it was deleted.
DeletedSessionEnds ==
  \A s \in Session : s \in deleted ~> [](busy[s] = NoTurn)

\* Not a property of this code (see the findings): no event of a session
\* follows its session.deleted.
NothingAfterDelete == stray = {}

=============================================================================
