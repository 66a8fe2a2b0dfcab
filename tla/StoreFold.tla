------------------------------- MODULE StoreFold -------------------------------
(***************************************************************************)
(* The messages of the TUI's store (internal/tui/store/store.go): a list   *)
(* of messages with lists of parts, into which events are folded, and an   *)
(* index that lets a streamed delta find its part and append to a shadow   *)
(* of its text without copying it.  The index may be stale; the fold may   *)
(* not show it.                                                            *)
(*                                                                         *)
(* A part of the server belongs to one message for good (Owner) and        *)
(* streams in its own fields.  Text is a sequence of pieces; Seed is what  *)
(* a full update carries.  Titles, types and times of parts are left out.  *)
(***************************************************************************)
EXTENDS Naturals, Sequences, SequencesExt

CONSTANTS
  Part, Owner, Absent,
  FieldsOf,    \* [Part -> the fields its deltas name]
  Delta, Seed,
  Listings,    \* what a hydration may find: lists of messages with their parts
  MaxText      \* bound: pieces of a part

\* A hydration lists rows of a database, whose ids are keys.
Message == {Owner[p] : p \in Part}
Piece == Delta \cup {Seed}
Contents == [text : Seq(Piece), input : Seq(Piece)]
Held == [id : Part, content : Contents]
Row == [id : Message, parts : Seq(Held)]
UniqueIds(list) == \A i, j \in 1 .. Len(list) : list[i].id = list[j].id => i = j
Good(list) ==
  /\ list \in Seq(Row)
  /\ UniqueIds(list)
  /\ \A i \in 1 .. Len(list) : UniqueIds(list[i].parts)
\* Places of parts in the list, with the field and the shadow of the text; Absent is none.
Entry ==
  [msg : Nat, part : Nat, field : {"none"} \cup UNION {FieldsOf[p] : p \in Part}, shadow : Seq(Piece)]

ASSUME StoreAssumption ==
  /\ \A list \in Listings : Good(list)
  /\ Absent \notin Contents /\ Absent \notin Entry
  /\ \A p \in Part : "none" \notin FieldsOf[p]

VARIABLES
  isCurrent,   \* the events' session is the one the store shows
  messages,    \* State.Messages
  parts,       \* State.parts: [Part -> position, field and shadow, or Absent]
  event        \* the event applied last

storeVars == <<isCurrent, messages, parts, event>>

Slot(field) == IF field = "input" THEN "input" ELSE "text"
Content == [text |-> <<>>, input |-> <<>>]
NewPart(p) == [id |-> p, content |-> Content]
NewMessage(m) == [id |-> m, parts |-> <<>>]
Find(list, id) ==
  LET at == {i \in DOMAIN list : list[i].id = id} IN IF at = {} THEN 0 ELSE CHOOSE i \in at : TRUE
\* The code filters; an id is in a list at most once.
Without(list, id) == IF Find(list, id) = 0 THEN list ELSE RemoveAt(list, Find(list, id))
NoIndex == [p \in Part |-> Absent]
Length(p) ==
  LET i == Find(messages, Owner[p])
      j == IF i = 0 THEN 0 ELSE Find(messages[i].parts, p)
      c == IF j = 0 THEN Content ELSE messages[i].parts[j].content
  IN Len(c.text) + Len(c.input)

-----------------------------------------------------------------------------
\* upsertMessage: the parts of a known message stay.
MessageUpdated(m) ==
  /\ isCurrent
  /\ messages' = IF Find(messages, m) # 0 THEN messages ELSE Append(messages, NewMessage(m))
  /\ event' = [kind |-> "message"]
  /\ UNCHANGED <<isCurrent, parts>>

Placed(i, j) == [msg |-> i, part |-> j, field |-> "none", shadow |-> <<>>]

\* upsertPart: authoritative, so the part's shadow goes, in every branch.
PartUpdated(p, c) ==
  /\ isCurrent
  /\ LET new == [id |-> p, content |-> c]
         i == Find(messages, Owner[p])
         j == IF i = 0 THEN 0 ELSE Find(messages[i].parts, p)
     IN \/ /\ i # 0 /\ j # 0
           /\ messages' = [messages EXCEPT ![i].parts[j] = new]
           /\ parts' = [parts EXCEPT ![p] = Absent]
        \/ /\ i # 0 /\ j = 0
           /\ messages' = [messages EXCEPT ![i].parts = Append(@, new)]
           /\ parts' = [parts EXCEPT ![p] = Placed(i, Len(messages[i].parts) + 1)]
        \/ /\ i = 0
           /\ messages' = Append(messages, [id |-> Owner[p], parts |-> <<new>>])
           /\ parts' = [parts EXCEPT ![p] = Placed(Len(messages) + 1, 1)]
  /\ event' = [kind |-> "part", part |-> p, content |-> c]
  /\ UNCHANGED isCurrent

\* The place the index names still holds the part.
IsAt(p, i, j) ==
  /\ i \in DOMAIN messages /\ messages[i].id = Owner[p]
  /\ j \in DOMAIN messages[i].parts /\ messages[i].parts[j].id = p
Fast(p) == parts[p] # Absent /\ IsAt(p, parts[p].msg, parts[p].part)

\* appendDelta and builderFor, of the part that `list` holds at i, j: the shadow
\* is seeded with what the part reads, if it is new or of another field.
AppendTo(list, i, j, entry, field, d) ==
  LET p == list[i].parts[j].id
      reads == list[i].parts[j].content[Slot(field)]
      shadow == IF entry # Absent /\ entry.field = field THEN entry.shadow ELSE reads
      text == Append(shadow, d)
  IN /\ messages' = [list EXCEPT ![i].parts[j].content[Slot(field)] = text]
     /\ parts' = [parts EXCEPT ![p] = [msg |-> i, part |-> j, field |-> field, shadow |-> text]]

\* applyDelta: by the index, else by a search that creates what is missing.
DeltaArrives(p, field, d) ==
  /\ isCurrent
  /\ field \in FieldsOf[p]
  /\ Length(p) < MaxText
  /\ LET i == Find(messages, Owner[p])
         j == IF i = 0 THEN 0 ELSE Find(messages[i].parts, p)
     IN \/ /\ Fast(p)
           /\ AppendTo(messages, parts[p].msg, parts[p].part, parts[p], field, d)
        \/ /\ ~Fast(p) /\ j # 0
           /\ AppendTo(messages, i, j, Absent, field, d)
        \/ /\ ~Fast(p) /\ i # 0 /\ j = 0
           /\ AppendTo([messages EXCEPT ![i].parts = Append(@, NewPart(p))],
                       i, Len(messages[i].parts) + 1, Absent, field, d)
        \/ /\ ~Fast(p) /\ i = 0
           /\ AppendTo(Append(messages, [id |-> Owner[p], parts |-> <<NewPart(p)>>]),
                       Len(messages) + 1, 1, Absent, field, d)
  /\ event' = [kind |-> "delta", part |-> p, field |-> field, delta |-> d]
  /\ UNCHANGED isCurrent

\* rebuildPartIndex: positions anew, shadows dropped.
Index(list) ==
  [p \in Part |->
     LET i == Find(list, Owner[p])
         j == IF i = 0 THEN 0 ELSE Find(list[i].parts, p)
     IN IF j = 0 THEN Absent ELSE Placed(i, j)]

MessageRemoved(m) ==
  /\ isCurrent
  /\ messages' = Without(messages, m)
  /\ parts' = Index(messages')
  /\ event' = [kind |-> "message.removed", message |-> m]
  /\ UNCHANGED isCurrent

PartRemoved(p) ==
  /\ isCurrent
  /\ messages' = [i \in DOMAIN messages |->
       IF messages[i].id = Owner[p] THEN [messages[i] EXCEPT !.parts = Without(@, p)] ELSE messages[i]]
  /\ parts' = Index(messages')
  /\ event' = [kind |-> "part.removed", part |-> p]
  /\ UNCHANGED isCurrent

ContentOf(list) ==
  [p \in Part |->
     LET i == Find(list, Owner[p])
         j == IF i = 0 THEN 0 ELSE Find(list[i].parts, p)
     IN IF j = 0 THEN Absent ELSE list[i].parts[j].content]

\* applyHydrate replaces the messages; ForgetParts the index with them.
HydratedKeepsIndex(list) ==
  /\ isCurrent' = TRUE
  /\ messages' = list
  /\ event' = [kind |-> "hydrated", content |-> ContentOf(messages')]
  /\ UNCHANGED parts
Hydrated(list) ==
  /\ isCurrent' = TRUE
  /\ messages' = list
  /\ parts' = NoIndex
  /\ event' = [kind |-> "hydrated", content |-> ContentOf(messages')]

\* session.deleted: the messages stay, no event is folded in any more.
SessionDeleted ==
  /\ isCurrent
  /\ isCurrent' = FALSE
  /\ event' = [kind |-> "session.deleted"]
  /\ UNCHANGED <<messages, parts>>

-----------------------------------------------------------------------------
Given(p) == {Content} \cup {[Content EXCEPT ![Slot(f)] = <<Seed>>] : f \in FieldsOf[p]}

StoreInit ==
  /\ isCurrent = FALSE /\ messages = <<>> /\ parts = NoIndex /\ event = [kind |-> "none"]

StoreNext ==
  \/ \E m \in Message : MessageUpdated(m) \/ MessageRemoved(m)
  \/ \E p \in Part :
       \/ \E c \in Given(p) : PartUpdated(p, c)
       \/ \E f \in FieldsOf[p], d \in Delta : DeltaArrives(p, f, d)
       \/ PartRemoved(p)
  \/ \E list \in Listings : Hydrated(list)
  \/ SessionDeleted

StoreSpec == StoreInit /\ [][StoreNext]_storeVars

-----------------------------------------------------------------------------
\* What the parts read is what the events say, whatever the index holds.
Contract == INSTANCE Transcript WITH content <- ContentOf(messages)
ImplementsTranscript == Contract!TSpec
=============================================================================
