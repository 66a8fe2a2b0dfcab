------------------------------- MODULE TuiApp -------------------------------
(* The terminal user interface: one goroutine that folds events, answers and  *)
(* keys into its state.  A command runs on a goroutine of its own, so its     *)
(* answer comes back after whatever the loop did in between: the user may be  *)
(* in another session, with other dialogs open.  Messages are StoreFold's; a  *)
(* session is its identity here, a dialog its kind and its inner state.       *)
EXTENDS Naturals, Sequences, SequencesExt

CONSTANTS
    Session,        \* sessions the server has or may create
    First,          \* the ones it has when the interface starts
    Ask,            \* permission asks of any session
    None,           \* no session: the home screen
    Opener,         \* the dialogs that keys and commands open
    MaxMoves,       \* bound: keys pressed, steps of the server on its own, broken
                    \* streams and failing commands, together
    MaxEvents,      \* bound: events under way to the interface
    MaxFlight       \* bound: commands under way

VARIABLES
    stored,         \* sessions in the server's database
    fresh,          \* sessions not created yet
    status,         \* the engine's status of each session
    parked,         \* asks waiting at the server: the service's map
    unasked,        \* asks still to come
    unsaid,         \* asks that have been parked, their event not published yet
    claimed,        \* asks taken out of the map, their reply not published yet
    crossed,        \* history: asks whose reply was published before their event
    events,         \* events published and not yet applied
    connected,      \* the event stream has a subscription
    pinged,         \* resyncCh holds a ping
    cur,            \* curSessionID, None on the home route
    current,        \* store.Current
    shown,          \* whose messages store.Messages holds
    listed,         \* store.Sessions
    busyAs,         \* store.Status.Type
    pending,        \* store.Pending
    catalog,        \* store.Providers and store.Agents have been fetched
    resyncing,
    dlg,            \* dlg.items, bottom first
    suppressed,     \* retrySuppressed
    preview,        \* the theme in use is one the theme picker only previews
    flight,         \* commands that have not been answered to the loop
    lost,           \* commands that were built and never reached the runtime
    quit,
    moves,
    lapsed          \* the event stream has broken, once

askVars == <<parked, unasked, unsaid, claimed, crossed>>
server == <<stored, fresh, status, askVars>>
wire == <<events, connected, pinged>>
screen == <<dlg, preview>>
view == <<cur, current, shown, listed, busyAs, pending, catalog, resyncing, suppressed>>
bounds == <<moves, lapsed>>
appVars == <<server, wire, view, screen, flight, lost, quit, bounds>>

NoSession == {None}
Dialog == [kind: Opener \cup {"form", "retry", "perm", "message"},
           inner: {"plain", "loading", "list", "choice", "armed", "rename", "id", "key"}]
Command == [name: {"hydrate", "catalog", "patch", "create", "new", "submit", "send", "reply", "abort"},
            of: Session \cup NoSession \cup Ask,
            got: {"sent", "ok", "failed", "gone"},
            list: SUBSET Session]

AppTypeOK ==
    /\ stored \subseteq Session /\ fresh \subseteq Session
    /\ status \in [Session -> {"idle", "busy", "retry"}]
    /\ parked \subseteq Ask /\ unasked \subseteq Ask /\ unsaid \subseteq Ask
    /\ claimed \subseteq Ask /\ crossed \subseteq Ask
    /\ {cur, current, shown} \subseteq Session \cup NoSession
    /\ listed \subseteq Session /\ suppressed \subseteq Session
    /\ pending \in Seq(Ask)
    /\ dlg \in Seq(Dialog) /\ flight \in Seq(Command)

AppInit ==
    /\ stored = First /\ fresh = Session \ First
    /\ status = [s \in Session |-> "idle"]
    /\ parked = {} /\ unasked = Ask /\ unsaid = {} /\ claimed = {} /\ crossed = {}
    /\ events = <<>> /\ connected = TRUE /\ pinged = FALSE
    /\ cur \in NoSession \cup First /\ current = None /\ shown = None /\ listed = {}
    /\ busyAs = "" /\ pending = <<>> /\ catalog = FALSE /\ resyncing = FALSE
    /\ dlg = <<>> /\ suppressed = {} /\ preview = FALSE
    /\ flight = <<[name |-> "hydrate", of |-> cur, got |-> "sent", list |-> {}]>>
    /\ lost = {} /\ quit = FALSE
    /\ moves = 0 /\ lapsed = FALSE

(* ------------------------------ the server ------------------------------- *)

Event(type, of) == [type |-> type, of |-> of]
Published(e) == IF connected THEN events \o e ELSE events
Room == Len(events) < MaxEvents

\* A turn's status events; session.updated and session.deleted.
Turns(s) ==
    \E st \in {"idle", "busy", "retry"} :
       /\ s \in stored
       /\ <<status[s], st>> \in {<<"idle", "busy">>, <<"busy", "retry">>, <<"retry", "busy">>,
                                 <<"retry", "idle">>, <<"busy", "idle">>}
       /\ status' = [status EXCEPT ![s] = st]
       /\ events' = Published(<<Event(st, s)>>)
       /\ UNCHANGED <<stored, fresh, askVars>>

Deletes(s) ==
    /\ s \in stored
    /\ stored' = stored \ {s}
    /\ events' = Published(<<Event("deleted", s)>>)
    /\ UNCHANGED <<fresh, status, askVars>>

\* Ask: parked, stored and only then published, or taken back when its row
\* cannot be stored.
Registers(a) ==
    /\ a \in unasked
    /\ unasked' = unasked \ {a} /\ parked' = parked \cup {a} /\ unsaid' = unsaid \cup {a}
    /\ UNCHANGED <<stored, fresh, status, claimed, crossed, events>>

SaysAsked(a) ==
    /\ a \in unsaid
    /\ unsaid' = unsaid \ {a}
    /\ events' = Published(<<Event("asked", a)>>)
    /\ UNCHANGED <<stored, fresh, status, parked, unasked, claimed, crossed>>

Withdraws(a) ==
    /\ a \in unsaid
    /\ unsaid' = unsaid \ {a} /\ parked' = parked \ {a}
    /\ UNCHANGED <<stored, fresh, status, unasked, claimed, crossed, events>>

\* resolve, of a reply, a sweep or an abort: claimed, its row written, published.
Claims(a) ==
    /\ a \in parked
    /\ parked' = parked \ {a} /\ claimed' = claimed \cup {a}
    /\ UNCHANGED <<stored, fresh, status, unasked, unsaid, crossed, events>>

SaysReplied(a) ==
    /\ a \in claimed
    /\ claimed' = claimed \ {a}
    /\ events' = Published(<<Event("replied", a)>>)
    /\ crossed' = crossed \cup ({a} \cap unsaid)
    /\ UNCHANGED <<stored, fresh, status, parked, unasked, unsaid>>

World ==
    /\ ~quit /\ moves < MaxMoves /\ Room
    /\ (\E s \in Session : Turns(s) \/ Deletes(s)) \/ (\E a \in Ask : Registers(a) \/ Claims(a))
    /\ moves' = moves + 1
    /\ UNCHANGED <<connected, pinged, view, screen, flight, lost, quit, lapsed>>

\* The askers and the repliers go on.
AskProgress ==
    /\ ~quit /\ Room
    /\ \E a \in Ask : SaysAsked(a) \/ Withdraws(a) \/ SaysReplied(a)
    /\ UNCHANGED <<connected, pinged, view, screen, flight, lost, quit, bounds>>

\* The stream breaks: what the client has not read is gone and resyncCh gets a
\* ping at once, the new subscription comes later.
Lapse ==
    /\ ~quit /\ connected /\ moves < MaxMoves /\ ~lapsed
    /\ \E n \in 0 .. Len(events) : events' = SubSeq(events, 1, n)
    /\ connected' = FALSE /\ pinged' = TRUE /\ lapsed' = TRUE /\ moves' = moves + 1
    /\ UNCHANGED <<server, view, screen, flight, lost, quit>>

Redial ==
    /\ ~quit /\ ~connected
    /\ connected' = TRUE
    /\ UNCHANGED <<server, events, pinged, view, screen, flight, lost, quit, bounds>>

(* ------------------------------- commands -------------------------------- *)

Sent(name, of) == [name |-> name, of |-> of, got |-> "sent", list |-> {}]
Start(cs) == flight' = flight \o cs
CanStart == Len(flight) < MaxFlight

\* A hydration of a deleted session is answered "gone"; the other requests that
\* do not fit the server's state (a busy session, a settled ask) are errors, and
\* so is a session beyond the bound.
Accepted(c) ==
    CASE c.name \in {"create", "new", "submit"} -> fresh # {}
      [] c.name = "send" -> c.of \in stored /\ status[c.of] = "idle"
      [] c.name = "patch" -> c.of \in stored \cup NoSession
      [] c.name = "reply" -> c.of \in parked
      [] c.name = "abort" -> c.of \in stored /\ status[c.of] # "idle"
      [] c.name = "hydrate" -> c.of \in stored \cup NoSession
      [] OTHER -> TRUE

\* What an accepted request does and the events it causes; of is the session or
\* the ask it is about, the new one for a create.
SetsStatus(s, st) ==
    /\ status' = [status EXCEPT ![s] = st] /\ events' = Published(<<Event(st, s)>>)
    /\ UNCHANGED <<stored, fresh, askVars>>
Creates(s, busy) ==
    /\ s \in fresh
    /\ fresh' = fresh \ {s} /\ stored' = stored \cup {s}
    /\ status' = IF busy THEN [status EXCEPT ![s] = "busy"] ELSE status
    /\ events' = Published(<<Event("updated", s)>> \o IF busy THEN <<Event("busy", s)>> ELSE <<>>)
    /\ UNCHANGED askVars
Effect(c, of) ==
    /\ Accepted(c)
    /\ CASE c.name \in {"create", "new", "submit"} -> Creates(of, c.name = "submit")
         [] c.name = "send" -> of = c.of /\ SetsStatus(of, "busy")
         [] c.name = "abort" -> of = c.of /\ SetsStatus(of, "idle")
         [] c.name = "reply" -> of = c.of /\ Claims(of)
         [] c.name = "patch" /\ c.of # None -> of = c.of /\ UNCHANGED server
                                              /\ events' = Published(<<Event("updated", of)>>)
         [] OTHER -> of = c.of /\ UNCHANGED <<server, events>>

Got(i, got, of) ==
    flight' = [flight EXCEPT ![i] = [@ EXCEPT !.got = got, !.of = of, !.list = IF of = None THEN stored ELSE {}]]

Targets == Session \cup NoSession \cup Ask
Serve(i) ==
    LET c == flight[i] IN
    /\ ~quit /\ c.got = "sent"
    /\ \/ \E of \in Targets : Effect(c, of) /\ Got(i, "ok", of)
       \/ /\ ~Accepted(c) /\ Got(i, IF c.name = "hydrate" THEN "gone" ELSE "failed", c.of)
          /\ UNCHANGED <<server, events>>
    /\ UNCHANGED <<connected, pinged, view, screen, lost, quit, bounds>>

\* Every command gives up after 5 seconds: its request was served, or was not.
Fail(i) ==
    LET c == flight[i] IN
    /\ ~quit /\ c.got = "sent" /\ moves < MaxMoves
    /\ \/ \E of \in Targets : Effect(c, of) /\ Got(i, "failed", of)
       \/ Got(i, "failed", c.of) /\ UNCHANGED <<server, events>>
    /\ moves' = moves + 1
    /\ UNCHANGED <<connected, pinged, view, screen, lost, quit, lapsed>>

(* -------------------------------- dialogs -------------------------------- *)

D(kind, inner) == [kind |-> kind, inner |-> inner]
Has(kind) == \E i \in DOMAIN dlg : dlg[i].kind = kind
Pop == Front(dlg)
Push(d) == Append(dlg, d)
Over(stack, d) == Append(stack, d)

\* What an opener pushes; a picker without its catalog shows that it is loading.
Opened(kind) ==
    D(kind, CASE kind \in {"model", "agents", "provider"} -> IF catalog THEN "list" ELSE "loading"
              [] OTHER -> "plain")
Fetches(kind) == kind \in {"model", "agents", "provider"}

\* syncPermDialog: pushed when the first ask parks, taken out wherever it is
\* when the queue drains.
InStep(stack, asks) ==
    LET at == {i \in DOMAIN stack : stack[i].kind = "perm"} IN
    CASE asks # <<>> /\ at = {} -> Append(stack, D("perm", "plain"))
      [] asks = <<>> /\ at # {} -> RemoveAt(stack, CHOOSE i \in at : \A j \in at : j <= i)
      [] OTHER -> stack

\* syncModelSel, syncAgentSel and syncProviderSel: a loading picker gets its list.
Loaded(stack) ==
    [i \in DOMAIN stack |-> IF stack[i].inner = "loading" THEN D(stack[i].kind, "list") ELSE stack[i]]

\* The theme picker's onClose runs when the stack's own keys pop it, and puts
\* back the theme it was opened on.
Closed(stack) == IF Last(stack).kind = "themes" THEN FALSE ELSE preview

(* --------------------------------- events -------------------------------- *)

\* The code filters; an ask is in the queue at most once.
Place(asks, a) == CHOOSE i \in DOMAIN asks : asks[i] = a
Without(asks, a) == IF Contains(asks, a) THEN RemoveAt(asks, Place(asks, a)) ELSE asks

\* store.Apply: status and deletion are those of the session that is loaded,
\* asks are anyone's.
PendingAfterAsks(e) ==
    CASE e.type = "asked" -> IF Contains(pending, e.of) THEN pending ELSE Append(pending, e.of)
      [] OTHER -> pending
PendingAfter(e) ==
    CASE e.type = "asked" -> IF Contains(pending, e.of) THEN pending ELSE Append(pending, e.of)
      [] e.type = "replied" -> Without(pending, e.of)
      [] OTHER -> pending
IsStatus(e) == e.type \in {"idle", "busy", "retry"}

\* onSessionStatus: the retry dialog opens once per run, on the step from idle.
OpensRetry(e) == e.type = "retry" /\ e.of = cur /\ busyAs = "idle" /\ cur \notin suppressed

EventArrives ==
    /\ ~quit /\ events # <<>>
    /\ LET e == Head(events)
           stack == InStep(dlg, PendingAfter(e))
       IN  /\ pending' = PendingAfter(e)
           /\ busyAs' = IF IsStatus(e) /\ e.of = current THEN e.type ELSE busyAs
           /\ listed' = CASE e.type = "updated" -> listed \cup {e.of}
                          [] e.type = "deleted" -> listed \ {e.of}
                          [] OTHER -> listed
           /\ current' = IF e.type = "deleted" /\ e.of = current THEN None ELSE current
           /\ dlg' = IF OpensRetry(e) THEN Append(stack, D("retry", "plain")) ELSE stack
           /\ suppressed' = IF OpensRetry(e) THEN suppressed \cup {cur} ELSE suppressed
    /\ events' = Tail(events)
    /\ UNCHANGED <<server, connected, pinged, cur, shown, catalog, resyncing, preview,
                   flight, lost, quit, bounds>>

\* A ping starts a hydration of what is on screen; the stream counts as
\* reconnecting until an answer to any hydration.
Resync ==
    /\ ~quit /\ pinged /\ CanStart
    /\ pinged' = FALSE /\ resyncing' = TRUE
    /\ Start(<<Sent("hydrate", cur)>>)
    /\ UNCHANGED <<server, events, connected, cur, current, shown, listed, busyAs, pending,
                   catalog, suppressed, screen, lost, quit, bounds>>

(* -------------------------------- answers -------------------------------- *)

Rest(i) == RemoveAt(flight, i)
Done(i) == flight' = Rest(i)

\* Any answer to a hydration ends the outage.
StillDownIfFailed(got) == resyncing /\ got = "failed"
StillDown(got) == FALSE

\* applyHydrate looks at the route only: the answer may be another session's.
Hydrated(i) ==
    LET c == flight[i] IN
    /\ c.name = "hydrate" /\ Done(i)
    /\ resyncing' = StillDown(c.got)
    /\ cur' = IF c.got = "gone" THEN None ELSE cur
    /\ quit' = (c.got = "gone")
    /\ current' = IF c.got = "ok" /\ cur # None /\ c.of # None THEN c.of ELSE current
    /\ shown' = IF c.got = "ok" /\ cur # None THEN c.of ELSE shown
    /\ listed' = IF c.got = "ok" /\ cur = None THEN c.list ELSE listed
    /\ UNCHANGED <<busyAs, pending, catalog, suppressed, screen>>

\* applySessionCreated, applyHomeSubmit, applyCommandExec: the new session is
\* opened wherever the user is by now.
Created(i) ==
    LET c == flight[i] IN
    /\ c.name \in {"create", "new", "submit"}
    /\ IF c.got = "ok"
       THEN /\ cur' = c.of
            /\ listed' = IF c.name = "new" THEN listed ELSE listed \cup {c.of}
            /\ suppressed' = IF c.name = "submit" THEN suppressed \ {c.of} ELSE suppressed
            /\ flight' = Append(Rest(i), Sent("hydrate", c.of))
       ELSE Done(i) /\ UNCHANGED <<cur, listed, suppressed>>
    /\ UNCHANGED <<current, shown, busyAs, pending, catalog, resyncing, screen, quit>>

\* applyDlgPatch: lands the session and pops the top of the stack; the pop of a
\* theme picker this way skips its onClose.
Patched(i) ==
    LET c == flight[i] IN
    /\ c.name = "patch" /\ Done(i)
    /\ IF c.got = "ok"
       THEN /\ dlg' = IF dlg = <<>> THEN dlg ELSE Pop
            /\ current' = IF c.of = None THEN current ELSE c.of
            /\ listed' = IF c.of = None THEN listed ELSE listed \cup {c.of}
       ELSE UNCHANGED <<dlg, current, listed>>
    /\ UNCHANGED <<cur, shown, busyAs, pending, catalog, resyncing, suppressed, preview, quit>>

\* applyPermReply: the handler answers once it has published.
Replied(i) ==
    LET c == flight[i] IN
    /\ c.name = "reply" /\ Done(i)
    /\ c.got = "ok" => c.of \notin claimed
    /\ pending' = IF c.got = "ok" THEN Without(pending, c.of) ELSE pending
    /\ dlg' = IF c.got = "ok" THEN InStep(dlg, pending') ELSE dlg
    /\ UNCHANGED <<cur, current, shown, listed, busyAs, catalog, resyncing, suppressed, preview, quit>>

\* applyCatalog, applySend, applyShell and the abort's answer.
Landed(i) ==
    LET c == flight[i] IN
    /\ c.name \in {"catalog", "send", "abort"} /\ Done(i)
    /\ catalog' = (catalog \/ (c.name = "catalog" /\ c.got = "ok"))
    /\ dlg' = IF c.name = "catalog" /\ c.got = "ok" THEN Loaded(dlg) ELSE dlg
    /\ suppressed' = IF c.name = "send" /\ c.got = "ok" THEN suppressed \ {cur} ELSE suppressed
    /\ UNCHANGED <<cur, current, shown, listed, busyAs, pending, resyncing, preview, quit>>

Answer(i) ==
    /\ ~quit /\ flight[i].got # "sent"
    /\ Hydrated(i) \/ Created(i) \/ Patched(i) \/ Replied(i) \/ Landed(i)
    /\ UNCHANGED <<server, wire, lost, bounds>>

(* ---------------------------------- keys --------------------------------- *)

Asked == pending # <<>>
Top(kind) == dlg # <<>> /\ Last(dlg).kind = kind
Inner == Last(dlg).inner
Becomes(inner) == Front(dlg) \o <<D(Last(dlg).kind, inner)>>

\* A pending ask owns every key, whatever is on top: a digit, esc or enter
\* answers the oldest one.
PermKey ==
    /\ Asked /\ CanStart
    /\ Start(<<Sent("reply", Head(pending))>>)
    /\ UNCHANGED <<view, screen, lost, quit>>

\* esc and ctrl+c: the a/b choice of a picker first, then the dialog.
EscKey ==
    IF Inner = "choice"
    THEN dlg' = Becomes("list") /\ UNCHANGED preview
    ELSE dlg' = Pop /\ preview' = Closed(dlg)

\* enter picks; a picks for the session, b for the configuration.
PickerKey ==
    /\ Top("model") \/ Top("agents")
    /\ \/ /\ Inner = "list" /\ dlg' = Becomes("choice") /\ UNCHANGED flight
       \/ /\ Inner = "choice" /\ CanStart
          /\ Start(<<Sent("patch", None)>>) /\ UNCHANGED dlg
       \/ /\ Inner = "choice" /\ CanStart /\ cur # None
          /\ Start(<<Sent("patch", cur)>>) /\ UNCHANGED dlg
    /\ UNCHANGED <<view, preview, lost, quit>>

\* emit builds the commands of a callback and runs none.
Dropped(name) == lost' = lost \cup {name}

\* The commands the list's callbacks build go to emit, which hands them back
\* to a callback that has no result: they are never run.
SessionsKey ==
    /\ Top("sessions") /\ listed # {}
    /\ \/ \E s \in listed : /\ cur' = s /\ dlg' = Pop /\ Dropped("hydrate")
       \/ /\ Inner = "plain" /\ dlg' = Becomes("armed") /\ UNCHANGED <<cur, lost>>
       \/ /\ Inner = "armed" /\ Dropped("delete") /\ UNCHANGED <<cur, dlg>>
       \/ /\ Inner = "armed" /\ dlg' = Becomes("plain") /\ UNCHANGED <<cur, lost>>
       \/ /\ dlg' = Append(Pop, D("form", "rename")) /\ UNCHANGED <<cur, lost>>
    /\ UNCHANGED <<current, shown, listed, busyAs, pending, catalog, resyncing, suppressed,
                   preview, flight, quit>>

\* A form closes when it completes and then runs its callback.
FormKey ==
    /\ \/ /\ Top("provider") /\ Inner = "list" /\ UNCHANGED lost
          /\ \E inner \in {"id", "key"} : dlg' = Push(D("form", inner))
       \/ /\ Top("form") /\ Inner = "id" /\ UNCHANGED lost
          /\ \E inner \in {"id", "key"} : dlg' = Append(Pop, D("form", inner))
       \/ /\ Top("form") /\ Inner = "key"
          /\ \/ dlg' = Append(Pop, D("form", "key")) /\ UNCHANGED lost
             \/ dlg' = Pop /\ Dropped("auth")
       \/ /\ Top("form") /\ Inner = "rename" /\ dlg' = Pop
          /\ (Dropped("rename") \/ UNCHANGED lost)
    /\ UNCHANGED <<view, preview, flight, quit>>

\* Moving or filtering previews a theme, clearing the filter puts the first
\* one back, enter keeps what is selected.
ThemesKey ==
    /\ Top("themes")
    /\ \/ preview' \in BOOLEAN /\ UNCHANGED dlg
       \/ preview' = FALSE /\ dlg' = Pop
    /\ UNCHANGED <<view, flight, lost, quit>>

RetryKey ==
    /\ Top("retry") /\ dlg' = Pop
    /\ \/ UNCHANGED flight
       \/ CanStart /\ Start(<<Sent("abort", cur)>>)
    /\ UNCHANGED <<view, preview, lost, quit>>

\* The palette closes and runs the command, whose own commands are lost too.
PaletteKey ==
    /\ Top("palette")
    /\ \/ \E kind \in Opener \ {"palette"} :
             /\ dlg' = Append(Pop, Opened(kind))
             /\ IF Fetches(kind) THEN Dropped("catalog") ELSE UNCHANGED lost
       \/ \E name \in {"quit", "new"} : dlg' = Pop /\ Dropped(name)
    /\ UNCHANGED <<view, preview, flight, quit>>

\* enter on the help, any key on a message.
ViewKey ==
    /\ Top("help") \/ Top("message") \/ Top("perm")
    /\ dlg' = Pop
    /\ UNCHANGED <<view, preview, flight, lost, quit>>

DialogKey ==
    \/ EscKey /\ UNCHANGED <<view, flight, lost, quit>>
    \/ PickerKey \/ SessionsKey \/ FormKey \/ ThemesKey \/ RetryKey \/ PaletteKey \/ ViewKey

\* The keymap's base group and the slash commands.
OpenKey ==
    /\ \E kind \in Opener : /\ dlg' = Push(Opened(kind))
                            /\ IF Fetches(kind) THEN CanStart /\ Start(<<Sent("catalog", None)>>)
                                                ELSE UNCHANGED flight
    /\ UNCHANGED <<view, preview, lost, quit>>

NewKey ==
    /\ CanStart
    /\ \/ Start(<<Sent("create", None)>>)
       \/ cur # None /\ Start(<<Sent("new", cur)>>)
    /\ UNCHANGED <<view, screen, lost, quit>>

QuitKey == quit' = TRUE /\ UNCHANGED <<view, screen, flight, lost>>

\* enter on the home screen and in a session that is not known to be busy.
EnterKey ==
    /\ CanStart
    /\ IF cur = None THEN Start(<<Sent("submit", None)>>)
                     ELSE busyAs \notin {"busy", "retry"} /\ Start(<<Sent("send", cur)>>)
    /\ UNCHANGED <<view, screen, lost, quit>>

\* esc in a session: abort while it is known to be busy, else home.
InterruptKey ==
    /\ cur # None /\ CanStart
    /\ IF busyAs \in {"busy", "retry"}
       THEN Start(<<Sent("abort", cur)>>) /\ UNCHANGED cur
       ELSE cur' = None /\ Start(<<Sent("hydrate", None)>>)
    /\ UNCHANGED <<current, shown, listed, busyAs, pending, catalog, resyncing, suppressed,
                   screen, lost, quit>>

SessionKey ==
    /\ cur # None
    /\ dlg' = Push(D("form", "rename")) \/ (shown # None /\ dlg' = Push(D("message", "plain")))
    /\ UNCHANGED <<view, preview, flight, lost, quit>>

AppKey == OpenKey \/ NewKey \/ QuitKey \/ EnterKey \/ InterruptKey \/ SessionKey

\* handleKey: the ask, then the dialog, then the keymap and the route.
HandleKey ==
    \/ PermKey
    \/ ~Asked /\ dlg # <<>> /\ DialogKey
    \/ ~Asked /\ dlg = <<>> /\ AppKey

Key ==
    /\ ~quit /\ moves < MaxMoves /\ HandleKey
    /\ moves' = moves + 1
    /\ UNCHANGED <<server, wire, lapsed>>

AppNext ==
    \/ World \/ AskProgress \/ Lapse \/ Redial
    \/ EventArrives \/ Resync \/ Key
    \/ \E i \in DOMAIN flight : Serve(i) \/ Fail(i) \/ Answer(i)

Commands == \E i \in DOMAIN flight : Serve(i) \/ Answer(i)
AppSpec == AppInit /\ [][AppNext]_appVars
AppFairSpec == AppSpec /\ WF_appVars(Commands) /\ WF_appVars(AskProgress) /\ WF_appVars(Resync)
             /\ WF_appVars(EventArrives) /\ WF_appVars(Redial)

(* ------------------------------ properties ------------------------------- *)

\* While the stream has not broken, an ask on screen is one the server still
\* holds, or the event that takes it away is under way; but for one that was
\* settled, and its reply published, before its own event was.
TakenAway(a) == Contains(events, Event("replied", a))
AsksAreParked ==
    ~lapsed => \A i \in DOMAIN pending :
                     pending[i] \in parked \cup claimed \cup crossed \/ TakenAway(pending[i])

\* Not a property of this code (see the findings): the same without exception.
AsksAreLive ==
    ~lapsed => \A i \in DOMAIN pending :
                     pending[i] \in parked \cup claimed \/ TakenAway(pending[i])

\* The "reconnecting" state of an outage ends, whatever happened to the
\* hydration that was to end it.
OutageEnds == resyncing ~> (~resyncing \/ quit)

\* A pending ask "owns every key" (keys.go:23), so it is what the user sees: no
\* other dialog covers it.
AskIsSeen == Asked => dlg = <<>> \/ Top("perm")
=============================================================================
