---------------------------- MODULE SessionPicker ----------------------------
(***************************************************************************)
(* The list of sessions a user picks from: the select dialog (keys, title  *)
(* filter, a window onto the rows), the two-step delete, and what changes  *)
(* the rows under the user's hand: events of the server, the status        *)
(* snapshot asked for when the dialog opened, and a list read earlier that *)
(* is answered late.  Every step ends with a frame (view), which moves the *)
(* window.  Titles do not change; rows differ in whether they match the    *)
(* one needle that is typed.  Rows, lines and sel count from 0.            *)
(***************************************************************************)
EXTENDS Naturals, Integers, Sequences, FiniteSets, SequencesExt

CONSTANTS Session, None,
          Matching,   \* sessions whose title contains the needle
          Updated,    \* when each was last updated, 0 for one that does not exist yet
          Midnight,   \* the start of the day, on that clock
          Heights,    \* rows of the list a terminal has room for
          MaxChanges, \* bound: changes by other clients and lists read
          MaxKeys     \* bound: keys

VARIABLES server,    \* when each session was last updated, 0 for none
          wire,      \* events on their way: id and time, 0 for a delete
          late,      \* answers on their way: status snapshots, and lists as they were read
          sessions,  \* the store's sessions, as server
          changes, open, current,
          options,   \* the rows of the dialog: id and category
          marked,    \* the row that shows the confirm text, or None
          sel, needle, toDelete,
          top, lastSel, visible,
          keys
data == <<server, wire, late, sessions, changes>>
rows == <<options, marked, sel, needle, toDelete>>
frame == <<top, lastSel>>
vars == <<data, open, current, rows, frame, visible, keys>>

Lists == [Session -> Nat]
Ids(opts) == {opts[i].id : i \in DOMAIN opts}

TypeOK ==
    /\ {server, sessions} \subseteq Lists /\ wire \in Seq([id : Session, time : Nat])
    /\ options \in Seq([id : Session, today : BOOLEAN])
    /\ {current, marked, toDelete} \subseteq Session \union {None}
    /\ {sel, top, lastSel} \subseteq Nat /\ visible \in Heights
    /\ {open, needle} \subseteq BOOLEAN

-----------------------------------------------------------------------------
(* The rows and the frame. *)

\* The latest first, those whose title matches.
Shown(list, typed) == {s \in Session : list[s] > 0 /\ (typed => s \in Matching)}
LatestFirst(list, typed) == SetToSortSeq(Shown(list, typed), LAMBDA s, t : list[s] > list[t])
SessionOptions(list, typed) ==
    LET order == LatestFirst(list, typed)
    IN [i \in 1 .. Cardinality(Shown(list, typed)) |->
            [id |-> order[i], today |-> list[order[i]] > Midnight]]

\* A heading over each group and a blank line between two; none while a needle is typed.
LineOf(opts, i, flat) ==
    IF flat THEN i ELSE i + (IF opts[i + 1].today = opts[1].today THEN 1 ELSE 3)
Lines(opts, flat) == IF opts = <<>> THEN 0 ELSE 1 + LineOf(opts, Len(opts) - 1, flat)

\* The window follows the selection when its line has changed, and otherwise the page keys.
Window(opts, at, flat, height, delta) ==
    LET n == Lines(opts, flat)
        room == IF height > n THEN n ELSE height
        moves == at < Len(opts) /\ LineOf(opts, at, flat) # lastSel
        line == LineOf(opts, at, flat)
        up == IF line < top THEN line ELSE top
        first == IF ~moves THEN (IF top + delta < 0 THEN 0 ELSE top + delta)
                 ELSE IF line >= up + room THEN line - room + 1 ELSE up
    IN IF n = 0 THEN UNCHANGED frame
       ELSE /\ lastSel' = IF moves THEN line ELSE lastSel
            /\ top' = IF first > n - room THEN n - room ELSE first

\* Every step of an open dialog ends with a frame.
View(delta) ==
    Window(options', sel', needle', visible', delta)

Picked == IF open /\ sel < Len(options) THEN options[sel + 1].id ELSE None

\* The rows anew, from the store, with the confirm text where it belongs.
RebuildSessionOptions ==
    /\ options' = SessionOptions(sessions', needle')
    /\ marked' = IF toDelete' \in Ids(options') THEN toDelete' ELSE None

-----------------------------------------------------------------------------
(* The keys. *)

Press == open /\ keys < MaxKeys /\ keys' = keys + 1 /\ UNCHANGED <<data, visible>>

\* The selection moves or jumps; a row that was armed is let go.
Moves(to) ==
    /\ Press /\ options # <<>>
    /\ sel' = to /\ toDelete' = None /\ UNCHANGED <<open, current, needle>>
    /\ IF toDelete = None THEN UNCHANGED <<options, marked>> ELSE RebuildSessionOptions
    /\ View(0)

PageScroll(delta) ==
    /\ Press /\ options # <<>> /\ UNCHANGED <<open, current, rows>> /\ View(delta)

\* Typing filters the rows and leaves the selection's number alone.
Type ==
    /\ Press /\ needle' = ~needle
    /\ options' = SessionOptions(sessions, needle') /\ marked' = None
    /\ UNCHANGED <<open, current, sel, toDelete>> /\ View(0)

\* The first ctrl+d arms the row.  The second asks for the delete, and the command that
\* would send it is handed back to nobody.
DeleteKey ==
    /\ Press /\ Picked # None /\ UNCHANGED <<open, current, sel, needle>>
    /\ toDelete' = Picked
    /\ IF toDelete = Picked THEN UNCHANGED <<options, marked>> ELSE RebuildSessionOptions
    /\ View(0)

\* The dialog goes, and its window with it.
Gone == open' = FALSE /\ top' = 0 /\ lastSel' = 0 /\ UNCHANGED rows

\* Enter opens the selected session, or the last one where a narrowed list left none.
Submit ==
    /\ Press /\ options # <<>>
    /\ current' = options[IF sel < Len(options) THEN sel + 1 ELSE Len(options)].id
    /\ Gone

\* Escape, or the rename of a session, which has a form of its own.
Close == Press /\ Gone /\ UNCHANGED current

\* The dialog opens on the current session and asks for the statuses, unless it was opened
\* from the palette, which drops the command.
OpenSessionListDialog ==
    /\ ~open /\ keys < MaxKeys /\ keys' = keys + 1 /\ open' = TRUE
    /\ options' = SessionOptions(sessions, FALSE)
    /\ LET at == SelectInSeq(options', LAMBDA r : r.id = current)
       IN sel' = IF at = 0 THEN 0 ELSE at - 1
    /\ needle' = FALSE /\ toDelete' = None /\ marked' = None
    /\ late' \in {late, late \union {[kind |-> "status", list |-> <<>>]}}
    /\ UNCHANGED <<server, wire, sessions, changes, current, visible>> /\ View(0)

Resize(h) ==
    /\ h # visible /\ keys < MaxKeys /\ keys' = keys + 1 /\ visible' = h
    /\ UNCHANGED <<data, open, current, rows>>
    /\ IF open THEN View(0) ELSE UNCHANGED frame

-----------------------------------------------------------------------------
(* The server, and what comes of it. *)

Change == changes < MaxChanges /\ changes' = changes + 1
Now == 1 + changes + Cardinality(Session)

\* Another client creates, renames or answers in a session, or deletes it.
Happens(s, time) ==
    /\ Change /\ (time = 0 => server[s] > 0)
    /\ server' = [server EXCEPT ![s] = time]
    /\ wire' = Append(wire, [id |-> s, time |-> time])
    /\ UNCHANGED <<late, sessions, open, current, rows, frame, visible, keys>>

\* The list is read for the home screen.
ListRead ==
    /\ Change /\ current = None
    /\ late' = late \union {[kind |-> "list", list |-> server]}
    /\ UNCHANGED <<server, wire, sessions, open, current, rows, frame, visible, keys>>

\* One that leaves the number of the selection alone.
SyncSessionSelByNumber ==
    /\ RebuildSessionOptions
    /\ sel' = IF options' = <<>> THEN 0 ELSE IF sel < Len(options') THEN sel ELSE Len(options') - 1

\* The rows are built anew around the session that was selected.
SyncSessionSel ==
    /\ RebuildSessionOptions
    /\ sel' = LET at == SelectInSeq(options', LAMBDA r : r.id = Picked)
              IN IF options' = <<>> THEN 0 ELSE IF at = 0 THEN Len(options') - 1 ELSE at - 1

EventArrives ==
    /\ wire # <<>> /\ wire' = Tail(wire)
    /\ sessions' = [sessions EXCEPT ![Head(wire).id] = Head(wire).time]
    /\ UNCHANGED <<server, late, changes, open, current, needle, toDelete, visible, keys>>
    /\ IF open THEN SyncSessionSel /\ View(0)
       ELSE UNCHANGED <<options, marked, sel, frame>>

\* The list that was read takes the store's place; an open dialog keeps its rows.
ListArrives(a) ==
    /\ a \in late /\ a.kind = "list" /\ late' = late \ {a}
    /\ sessions' = IF current = None THEN a.list ELSE sessions
    /\ UNCHANGED <<server, wire, changes, open, current, rows, frame, visible, keys>>

\* The statuses are shown: the rows are built anew, the selection keeps its number.
StatusArrives(a) ==
    /\ a \in late /\ a.kind = "status" /\ late' = late \ {a}
    /\ UNCHANGED <<server, wire, sessions, changes, open, current, sel, needle, toDelete, visible, keys>>
    /\ IF open THEN RebuildSessionOptions /\ View(0)
       ELSE UNCHANGED <<options, marked, frame>>

Init ==
    /\ server = Updated /\ sessions = Updated /\ wire = <<>> /\ late = {} /\ changes = 0
    /\ open = FALSE /\ current \in {None} \union {s \in Session : Updated[s] > 0}
    /\ options = <<>> /\ marked = None /\ sel = 0 /\ needle = FALSE /\ toDelete = None
    /\ top = 0 /\ lastSel = 0 /\ visible \in Heights /\ keys = 0

Next ==
    \/ OpenSessionListDialog \/ Type \/ DeleteKey \/ Submit \/ Close
    \/ options # <<>> /\ Moves((sel - 1) % Len(options))
    \/ options # <<>> /\ Moves((sel + 1) % Len(options))
    \/ options # <<>> /\ \E to \in {0, Len(options) - 1} : Moves(to)
    \/ \E delta \in {-10, 10} : PageScroll(delta)
    \/ \E h \in Heights : Resize(h)
    \/ \E s \in Session, time \in {0, Now} : Happens(s, time)
    \/ ListRead \/ EventArrives
    \/ \E a \in late : ListArrives(a) \/ StatusArrives(a)

Spec == Init /\ [][Next]_vars

-----------------------------------------------------------------------------
(* Properties. *)

\* An event of the server leaves the same session selected, wherever it moves the rows
\* (syncSessionSel "re-anchors the open session picker at the selected session id"), as
\* long as it is among them.
EventsKeepTheSelection ==
    [][Len(wire') < Len(wire) /\ Picked \in Ids(options') => Picked' = Picked]_vars

\* A row that is deleted by the next press says so (rebuildSessionOptions "re-applies the
\* armed toDelete row").
ArmedRowSaysSo == (open /\ Picked # None /\ Picked = toDelete) => marked = toDelete
=============================================================================
